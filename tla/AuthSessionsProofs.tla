-------------------------- MODULE AuthSessionsProofs --------------------------
(***************************************************************************)
(* Proofs about AuthSessions, for any users, passwords, sessions and       *)
(* requests in flight.                                                     *)
(*                                                                         *)
(* AccessIsCurrent is not inductive: a login and a change of password      *)
(* carry what will be true of a session later.  A login that nobody has    *)
(* overtaken is as good as the session it will open; the session that      *)
(* changes the password has the new one, unless another request is about   *)
(* to revoke it.                                                           *)
(***************************************************************************)
EXTENDS AuthSessions, TLAPS

(* What a session, or a login, of u with password p may rely on.           *)
GoodFor(u, p) ==
    /\ account[u].active /\ ~Deactivating(u)
    /\ Settling(u) \/ p = account[u].password

OpenGood ==
    \A s \in Sessions : session[s].state = "open" =>
      /\ account[session[s].user].exists
      /\ session[s].raced \/ GoodFor(session[s].user, session[s].password)

LoginGood ==
    \A r \in Requests : At(r, "login") =>
      /\ account[request[r].user].exists
      /\ request[r].raced \/ GoodFor(request[r].user, request[r].password)

Own(r) == At(r, "change") \/ At(r, "verified") \/ At(r, "changing")

OwnerGood ==
    \A r \in Requests : Own(r) =>
      /\ request[r].by \in Sessions
      /\ session[request[r].by].state # "unused"
      /\ session[request[r].by].state = "open" => session[request[r].by].user = request[r].user

(* Somebody else than session s is about to revoke the sessions of u.      *)
Foreign(q, s, u) == Settles(q, u) /\ ~(At(q, "changing") /\ request[q].by = s)

ChangerGood ==
    \A r \in Requests :
      LET s == request[r].by u == request[r].user IN
      At(r, "changing") /\ session[s].state = "open" =>
        \/ session[s].raced
        \/ session[s].password = account[u].password
        \/ \E q \in Requests : Foreign(q, s, u)

(* The inductive invariant.                                                *)
AuthInv == AuthTypeOK /\ OpenGood /\ LoginGood /\ OwnerGood /\ ChangerGood

-----------------------------------------------------------------------------
(* Types of what the steps write into requests and sessions.               *)

LEMMA BlankSays ==
    /\ NoRequest \in Request
    /\ NoRow \in Session /\ RevokedRow \in Session
BY AuthAssumption DEF NoRequest, Request, NoRow, RevokedRow, Session, Steps, NoSession

LEMMA StepType ==
    ASSUME NEW q \in Request, NEW step \in Steps
    PROVE  [q EXCEPT !.step = step] \in Request
BY DEF Request

LEMMA RacedType ==
    ASSUME NEW q \in Request, NEW b \in BOOLEAN
    PROVE  [q EXCEPT !.raced = q.raced \/ b] \in Request
BY DEF Request

LEMMA GoesType ==
    ASSUME request \in [Requests -> Request], NEW r \in Requests, NEW step \in Steps, Goes(r, step)
    PROVE  request' \in [Requests -> Request]
BY StepType DEF Goes

LEMMA EndsType ==
    ASSUME request \in [Requests -> Request], NEW r \in Requests, Ends(r)
    PROVE  request' \in [Requests -> Request]
BY BlankSays DEF Ends

LEMMA OvertakesType ==
    ASSUME request \in [Requests -> Request], NEW r \in Requests, NEW u, NEW next \in Request,
           Overtakes(r, u, next)
    PROVE  request' \in [Requests -> Request]
BY RacedType DEF Overtakes

LEMMA RevokedType ==
    ASSUME session \in [Sessions -> Session], NEW u, NEW but
    PROVE  Revoked(u, but) \in [Sessions -> Session]
BY BlankSays DEF Revoked

LEMMA PasswordType ==
    ASSUME NEW x \in Session, NEW p \in Passwords
    PROVE  [x EXCEPT !.password = p] \in Session
BY DEF Session

LEMMA RacedSessionType ==
    ASSUME NEW x \in Session, NEW b \in BOOLEAN
    PROVE  [x EXCEPT !.raced = x.raced \/ b] \in Session
BY DEF Session

LEMMA LeftOverType ==
    ASSUME session \in [Sessions -> Session], request \in [Requests -> Request],
           NEW R, LeftOver(R)
    PROVE  session' \in [Sessions -> Session] /\ request' \in [Requests -> Request]
<1>1. session' \in [Sessions -> Session]
  BY RacedSessionType DEF LeftOver
<1>2. request' \in [Requests -> Request]
  BY RacedType, BlankSays DEF LeftOver
<1> QED
  BY <1>1, <1>2

-----------------------------------------------------------------------------
(* A step that stores no password, and by which no session gets better,    *)
(* keeps ChangerGood and OpenGood if nobody who is about to revoke a       *)
(* session gives up before it is revoked, or raced.                        *)
Fades ==
    /\ \A u \in Users : account'[u].password = account[u].password
    /\ \A s \in Sessions : session'[s].state = "open" =>
         /\ session[s].state = "open" /\ session'[s].user = session[s].user
         /\ session'[s].raced \/ session'[s] = session[s]

LEMMA ChangerFrame ==
    ASSUME AuthInv, AuthTypeOK', Fades,
           \A q \in Requests : At(q, "changing")' =>
             /\ At(q, "changing")
             /\ request'[q].user = request[q].user /\ request'[q].by = request[q].by,
           \A q \in Requests, s \in Sessions :
             Foreign(q, s, session[s].user) /\ session'[s].state = "open" =>
               session'[s].raced \/ Foreign(q, s, session[s].user)'
    PROVE  ChangerGood'
<1> SUFFICES ASSUME NEW r \in Requests, At(r, "changing")', session'[request'[r].by].state = "open",
                    ~session'[request'[r].by].raced
             PROVE  \/ session'[request'[r].by].password = account'[request'[r].user].password
                    \/ \E q \in Requests : Foreign(q, request[r].by, request[r].user)'
  BY DEF ChangerGood
<1> DEFINE s == request[r].by
           u == request[r].user
<1>1. /\ At(r, "changing") /\ request'[r].by = s /\ request'[r].user = u
  OBVIOUS
<1>2. s \in Sessions /\ u \in Users
  BY <1>1 DEF AuthInv, OwnerGood, Own, AuthTypeOK, Request
<1>3. /\ session[s].state = "open" /\ session[s].user = u
      /\ session'[s] = session[s] /\ ~session[s].raced
  BY <1>1, <1>2 DEF AuthInv, OwnerGood, Own, Fades
<1>4. session[s].password = account[u].password \/ \E q \in Requests : Foreign(q, s, u)
  BY <1>1, <1>3 DEF AuthInv, ChangerGood
<1>5. CASE session[s].password = account[u].password
  BY <1>1, <1>2, <1>3, <1>5 DEF Fades
<1>6. CASE \E q \in Requests : Foreign(q, s, u)
  <2>1. PICK q \in Requests : Foreign(q, s, u)
    BY <1>6
  <2>2. Foreign(q, s, u)'
    BY <2>1, <1>1, <1>2, <1>3
  <2> QED
    BY <2>2, <1>1
<1> QED
  BY <1>4, <1>5, <1>6

LEMMA OpenFrame ==
    ASSUME AuthInv, AuthTypeOK', Fades,
           \A u \in Users : /\ account[u].exists => account'[u].exists
                            /\ account[u].active => account'[u].active,
           \A s \in Sessions : session'[s].state = "open" /\ ~session'[s].raced =>
             LET u == session[s].user IN
             /\ Deactivating(u)' => Deactivating(u)
             /\ \/ Settling(u) => Settling(u)'
                \/ session[s].password = account[u].password
    PROVE  OpenGood'
<1> SUFFICES ASSUME NEW s \in Sessions, session'[s].state = "open"
             PROVE  /\ account'[session'[s].user].exists
                    /\ session'[s].raced \/ GoodFor(session[s].user, session[s].password)'
  BY DEF OpenGood
<1> DEFINE u == session[s].user
<1>1. /\ session[s].state = "open" /\ session'[s].user = u /\ u \in Users
      /\ account'[u].password = account[u].password
  BY DEF Fades, AuthInv, AuthTypeOK, Session
<1>2. account[u].exists /\ (session[s].raced \/ GoodFor(u, session[s].password))
  BY <1>1 DEF AuthInv, OpenGood
<1>3. account'[u].exists
  BY <1>1, <1>2
<1>4. CASE ~session'[s].raced
  <2>1. session'[s] = session[s] /\ GoodFor(u, session[s].password)
    BY <1>2, <1>4 DEF Fades
  <2>2. account'[u].active /\ ~Deactivating(u)'
    BY <2>1, <1>1, <1>4 DEF GoodFor
  <2>3. Settling(u)' \/ session[s].password = account'[u].password
    BY <2>1, <1>1, <1>4 DEF GoodFor
  <2> QED
    BY <2>1, <2>2, <2>3, <1>3 DEF GoodFor
<1> QED
  BY <1>1, <1>3, <1>4

(* The same of the logins.                                                 *)
LEMMA LoginFrame ==
    ASSUME AuthInv, AuthTypeOK',
           \A u \in Users : /\ account[u].exists => account'[u].exists
                            /\ account'[u].password = account[u].password
                            /\ account[u].active /\ ~Deactivating(u) => account'[u].active,
           \A q \in Requests : At(q, "login")' =>
             LET u == request[q].user IN
             /\ At(q, "login") /\ request'[q].user = u
             /\ request'[q].password = request[q].password
             /\ \/ request'[q].raced
                \/ /\ ~request[q].raced
                   /\ Deactivating(u)' => Deactivating(u)
                   /\ Settling(u) => Settling(u)'
    PROVE  LoginGood'
<1> SUFFICES ASSUME NEW q \in Requests, At(q, "login")'
             PROVE  /\ account'[request'[q].user].exists
                    /\ request'[q].raced \/ GoodFor(request[q].user, request[q].password)'
  BY DEF LoginGood
<1> DEFINE u == request[q].user
<1>1. /\ At(q, "login") /\ request'[q].user = u /\ u \in Users
      /\ request'[q].password = request[q].password
  BY DEF AuthInv, AuthTypeOK, Request
<1>2. account[u].exists /\ (request[q].raced \/ GoodFor(u, request[q].password))
  BY <1>1 DEF AuthInv, LoginGood
<1>3. account'[u].exists
  BY <1>1, <1>2
<1>4. CASE ~request'[q].raced
  <2>1. /\ ~request[q].raced
        /\ Deactivating(u)' => Deactivating(u)
        /\ Settling(u) => Settling(u)'
    BY <1>4
  <2>2. GoodFor(u, request[q].password)
    BY <1>2, <2>1
  <2> QED
    BY <1>1, <1>3, <2>1, <2>2 DEF GoodFor
<1> QED
  BY <1>1, <1>3, <1>4

-----------------------------------------------------------------------------
(* Each action keeps the invariant.                                        *)
(* Nobody has a session who does not have an account yet.                  *)
LEMMA RegisterKeeps ==
    ASSUME AuthInv, NEW u \in Users, NEW p \in Passwords, Register(u, p)
    PROVE  AuthInv'
<1>1. AuthTypeOK'
  BY AuthAssumption DEF AuthInv, AuthTypeOK, Register, Account
<1>2. OpenGood'
  BY <1>1 DEF AuthInv, OpenGood, LoginGood, AuthTypeOK, At, Settles, Settling, Deactivating,
     GoodFor, Register
<1>3. LoginGood'
  BY <1>1 DEF AuthInv, LoginGood, AuthTypeOK, At, Settles, Settling, Deactivating, GoodFor,
     Register
<1>4. OwnerGood'
  BY <1>1 DEF AuthInv, OwnerGood, Own, AuthTypeOK, At, Register
<1>5. ChangerGood'
  <2> SUFFICES ASSUME NEW r \in Requests, At(r, "changing"), session[request[r].by].state = "open",
                      ~session[request[r].by].raced
               PROVE  \/ session[request[r].by].password = account'[request[r].user].password
                      \/ \E q \in Requests : Foreign(q, request[r].by, request[r].user)'
    BY DEF ChangerGood, At, Register
  <2>1. /\ request[r].by \in Sessions /\ session[request[r].by].user = request[r].user
        /\ account[request[r].user].exists /\ request[r].user \in Users
    BY DEF AuthInv, AuthTypeOK, Request, OwnerGood, Own, OpenGood
  <2>2. account'[request[r].user] = account[request[r].user]
    BY <2>1 DEF Register, AuthInv, AuthTypeOK
  <2>3. \A q \in Requests : Foreign(q, request[r].by, request[r].user) =>
                               Foreign(q, request[r].by, request[r].user)'
    BY DEF Foreign, Settles, At, Register
  <2>4. \/ session[request[r].by].password = account[request[r].user].password
        \/ \E q \in Requests : Foreign(q, request[r].by, request[r].user)
    BY DEF AuthInv, ChangerGood
  <2>5. request' = request
    BY DEF Register
  <2> QED
    BY <2>2, <2>3, <2>4, <2>5
<1> QED
  BY <1>1, <1>2, <1>3, <1>4, <1>5 DEF AuthInv

(* A login starts out with the password as it is; one that meets a         *)
(* deactivation is late from the start.                                    *)
LEMMA LoginCheckKeeps ==
    ASSUME AuthInv, NEW r \in Requests, NEW u \in Users, LoginCheck(r, u)
    PROVE  AuthInv'
<1>1. AuthTypeOK'
  BY AuthAssumption DEF AuthInv, AuthTypeOK, LoginCheck, Deactivating, Request, NoSession,
     Steps, LateSteps, Account
<1>2. OpenGood'
  BY <1>1 DEF AuthInv, OpenGood, LoginGood, AuthTypeOK, At, Settles, Settling, Deactivating,
     GoodFor, LoginCheck, Account, Request
<1>3. LoginGood'
  <2>1. \A v \in Users : /\ Deactivating(v)' <=> Deactivating(v)
                         /\ Settling(v)' <=> Settling(v)
    BY DEF Deactivating, Settling, Settles, At, LoginCheck, AuthInv, AuthTypeOK
  <2> SUFFICES ASSUME NEW q \in Requests, At(q, "login")'
               PROVE  /\ account[request'[q].user].exists
                      /\ request'[q].raced \/ GoodFor(request[q].user, request[q].password)'
    BY DEF LoginGood, LoginCheck
  <2>2. CASE q = r
    <3>1. /\ request'[r].user = u /\ request'[r].password = account[u].password
          /\ request'[r].raced = Deactivating(u)
      BY DEF LoginCheck, AuthInv, AuthTypeOK
    <3>2. account'[u] = account[u] /\ account[u].exists /\ account[u].active
      BY DEF LoginCheck
    <3> QED
      BY <2>1, <2>2, <3>1, <3>2 DEF GoodFor
  <2>3. CASE q # r
    <3>1. request'[q] = request[q] /\ At(q, "login") /\ request[q].user \in Users
      BY <2>3 DEF LoginCheck, At, AuthInv, AuthTypeOK, Request
    <3> QED
      BY <2>1, <3>1 DEF GoodFor, LoginGood, LoginCheck, AuthInv
  <2> QED
    BY <2>2, <2>3
<1>4. OwnerGood'
  BY <1>1 DEF AuthInv, OwnerGood, Own, AuthTypeOK, At, LoginCheck, Account, Request
<1>5. ChangerGood'
  BY <1>1, SMTT(60) DEF AuthInv, ChangerGood, OwnerGood, Own, AuthTypeOK, At, Foreign, Settles,
     LoginCheck, Account, Request
<1> QED
  BY <1>1, <1>2, <1>3, <1>4, <1>5 DEF AuthInv

(* A session is as good as the login that opens it.                        *)
LEMMA LoginCreateKeeps ==
    ASSUME AuthInv, NEW r \in Requests, LoginCreate(r)
    PROVE  AuthInv'
<1>1. AuthTypeOK'
  BY AuthAssumption, EndsType DEF AuthInv, AuthTypeOK, LoginCreate, Request, Session
<1>2. OpenGood'
  <2>1. PICK new \in Sessions : session' = [session EXCEPT ![new] =
            [state |-> "open", user |-> request[r].user,
             password |-> request[r].password, raced |-> request[r].raced]]
    BY DEF LoginCreate
  <2>2. \A v \in Users : /\ Deactivating(v)' => Deactivating(v)
                         /\ Settling(v) => Settling(v)'
    BY DEF AuthInv, AuthTypeOK, Deactivating, Settling, Settles, At, NoRequest, Ends,
       LoginCreate
  <2> SUFFICES ASSUME NEW s \in Sessions, session'[s].state = "open"
               PROVE  /\ account[session'[s].user].exists
                      /\ session'[s].raced \/ GoodFor(session[s].user, session[s].password)'
    BY DEF OpenGood, LoginCreate
  <2>3. CASE s = new
    <3>1. /\ session'[s].user = request[r].user /\ session'[s].password = request[r].password
          /\ session'[s].raced = request[r].raced /\ request[r].user \in Users
      BY <2>1, <2>3 DEF AuthInv, AuthTypeOK, Request
    <3>2. /\ account[request[r].user].exists
          /\ request[r].raced \/ GoodFor(request[r].user, request[r].password)
      BY DEF AuthInv, LoginGood, LoginCreate
    <3> QED
      BY <2>2, <3>1, <3>2 DEF GoodFor, LoginCreate
  <2>4. CASE s # new
    <3>1. session'[s] = session[s] /\ session[s].user \in Users
      BY <2>1, <2>4 DEF AuthInv, AuthTypeOK, Session
    <3> QED
      BY <2>2, <3>1 DEF GoodFor, LoginCreate, AuthInv, OpenGood
  <2> QED
    BY <2>3, <2>4
<1>3. LoginGood'
  BY <1>1 DEF AuthInv, LoginGood, AuthTypeOK, At, Settles, Settling, Deactivating, GoodFor,
     LoginCreate, Ends, NoRequest, Request, Session
<1>4. OwnerGood'
  BY <1>1 DEF AuthInv, OwnerGood, Own, AuthTypeOK, At, LoginCreate, Ends, NoRequest,
     Request, Session
<1>5. ChangerGood'
  BY <1>1 DEF AuthInv, ChangerGood, OwnerGood, Own, AuthTypeOK, At, Foreign, Settles,
     LoginCreate, Ends, NoRequest, Request, Session
<1> QED
  BY <1>1, <1>2, <1>3, <1>4, <1>5 DEF AuthInv

(* A request about one's own account comes with a session of it.           *)
LEMMA AdmitKeeps ==
    ASSUME AuthInv, NEW r \in Requests, NEW s \in Sessions,
           NEW op \in AdminOps \cup OwnOps, NEW u \in Users, NEW p \in Passwords, Admit(r, s, op, u, p)
    PROVE  AuthInv'
<1>1. AuthTypeOK'
  BY AuthAssumption DEF AuthInv, AuthTypeOK, Admit, Request, NoSession, Steps
<1>2. OpenGood'
  BY <1>1 DEF AuthInv, OpenGood, LoginGood, AuthTypeOK, At, Settles, Settling, Deactivating,
     GoodFor, Admit, AdminOps, OwnOps, Request
<1>3. LoginGood'
  BY <1>1 DEF AuthInv, LoginGood, AuthTypeOK, At, Settles, Settling, Deactivating, GoodFor,
     Admit, AdminOps, OwnOps, Request
<1>4. OwnerGood'
  <2> SUFFICES ASSUME NEW q \in Requests, Own(q)'
               PROVE  /\ request'[q].by \in Sessions
                      /\ session[request'[q].by].state # "unused"
                      /\ session[request'[q].by].state = "open" =>
                           session[request'[q].by].user = request'[q].user
    BY DEF OwnerGood, Admit
  <2>1. CASE q = r
    <3>1. op = "change" /\ op \notin AdminOps
      BY <2>1 DEF Own, At, Admit, AdminOps, OwnOps, AuthInv, AuthTypeOK
    <3> QED
      BY <2>1, <3>1 DEF Admit, Resolves, AuthInv, AuthTypeOK
  <2>2. CASE q # r
    BY <2>2 DEF Own, At, Admit, AuthInv, AuthTypeOK, OwnerGood
  <2> QED
    BY <2>1, <2>2
<1>5. ChangerGood'
  BY <1>1 DEF AuthInv, ChangerGood, OwnerGood, Own, AuthTypeOK, At, Foreign, Settles, Admit,
     AdminOps, OwnOps, Request
<1> QED
  BY <1>1, <1>2, <1>3, <1>4, <1>5 DEF AuthInv

(* Approving changes nothing a session relies on.                          *)
LEMMA ApproveKeeps ==
    ASSUME AuthInv, NEW r \in Requests, Approve(r)
    PROVE  AuthInv'
<1>1. AuthTypeOK'
  BY AuthAssumption, EndsType DEF AuthInv, AuthTypeOK, Approve, Account
<1>2. OpenGood'
  <2>1. Fades
    BY DEF AuthInv, AuthTypeOK, Account, Fades, Approve, Ends, NoRequest
  <2>2. \A u \in Users : /\ account[u].exists => account'[u].exists
                         /\ account[u].active => account'[u].active
    BY DEF AuthInv, AuthTypeOK, Account, Approve, Ends, NoRequest
  <2>3. \A s \in Sessions : session'[s].state = "open" /\ ~session'[s].raced =>
          LET u == session[s].user IN
          /\ Deactivating(u)' => Deactivating(u)
          /\ \/ Settling(u) => Settling(u)'
             \/ session[s].password = account[u].password
    BY <1>1 DEF AuthInv, AuthTypeOK, At, Settles, Settling, Deactivating, Approve, Ends,
       NoRequest
  <2> QED
    BY <1>1, <2>1, <2>2, <2>3, OpenFrame
<1>3. LoginGood'
  <2>1. \A u \in Users : /\ account[u].exists => account'[u].exists
                         /\ account'[u].password = account[u].password
                         /\ account[u].active /\ ~Deactivating(u) => account'[u].active
    BY DEF AuthInv, AuthTypeOK, Account, Deactivating, At, Approve
  <2>2. \A v \in Users : /\ Deactivating(v)' => Deactivating(v)
                         /\ Settling(v) => Settling(v)'
    BY DEF AuthInv, AuthTypeOK, Deactivating, Settling, Settles, At, NoRequest, Ends, Approve
  <2>3. \A q \in Requests : At(q, "login")' => At(q, "login") /\ request'[q] = request[q]
    BY DEF AuthInv, AuthTypeOK, At, NoRequest, Ends, Approve
  <2> QED
    BY <1>1, <2>1, <2>2, <2>3, LoginFrame DEF AuthInv, AuthTypeOK, Request
<1>4. OwnerGood'
  BY <1>1 DEF AuthInv, OwnerGood, Own, AuthTypeOK, At, Approve, Ends, NoRequest, Request,
     Account
<1>5. ChangerGood'
  <2>1. Fades
    BY DEF AuthInv, AuthTypeOK, Account, Fades, Approve, Ends, NoRequest
  <2>2. \A q \in Requests : At(q, "changing")' =>
          /\ At(q, "changing")
          /\ request'[q].user = request[q].user /\ request'[q].by = request[q].by
    BY <1>1 DEF AuthInv, AuthTypeOK, At, Approve, Ends, NoRequest
  <2>3. \A q \in Requests, s \in Sessions :
          Foreign(q, s, session[s].user) /\ session'[s].state = "open" =>
            session'[s].raced \/ Foreign(q, s, session[s].user)'
    BY <1>1 DEF AuthInv, AuthTypeOK, At, Foreign, Settles, Approve, Ends, NoRequest
  <2> QED
    BY <1>1, <2>1, <2>2, <2>3, ChangerFrame
<1> QED
  BY <1>1, <1>2, <1>3, <1>4, <1>5 DEF AuthInv

(* An account that is activated has no sessions from before.               *)
LEMMA ActivateKeeps ==
    ASSUME AuthInv, NEW r \in Requests, Activate(r)
    PROVE  AuthInv'
<1>1. AuthTypeOK'
  BY AuthAssumption, EndsType DEF AuthInv, AuthTypeOK, Activate, Account
<1>2. OpenGood'
  <2>1. Fades
    BY DEF AuthInv, AuthTypeOK, Account, Fades, Activate, Ends, NoRequest
  <2>2. \A u \in Users : /\ account[u].exists => account'[u].exists
                         /\ account[u].active => account'[u].active
    BY DEF AuthInv, AuthTypeOK, Account, Activate, Ends, NoRequest
  <2>3. \A s \in Sessions : session'[s].state = "open" /\ ~session'[s].raced =>
          LET u == session[s].user IN
          /\ Deactivating(u)' => Deactivating(u)
          /\ \/ Settling(u) => Settling(u)'
             \/ session[s].password = account[u].password
    BY <1>1 DEF AuthInv, AuthTypeOK, At, Settles, Settling, Deactivating, Activate, Ends,
       NoRequest
  <2> QED
    BY <1>1, <2>1, <2>2, <2>3, OpenFrame
<1>3. LoginGood'
  <2>1. \A u \in Users : /\ account[u].exists => account'[u].exists
                         /\ account'[u].password = account[u].password
                         /\ account[u].active /\ ~Deactivating(u) => account'[u].active
    BY DEF AuthInv, AuthTypeOK, Account, Deactivating, At, Activate
  <2>2. \A v \in Users : /\ Deactivating(v)' => Deactivating(v)
                         /\ Settling(v) => Settling(v)'
    BY DEF AuthInv, AuthTypeOK, Deactivating, Settling, Settles, At, NoRequest, Ends, Activate
  <2>3. \A q \in Requests : At(q, "login")' => At(q, "login") /\ request'[q] = request[q]
    BY DEF AuthInv, AuthTypeOK, At, NoRequest, Ends, Activate
  <2> QED
    BY <1>1, <2>1, <2>2, <2>3, LoginFrame DEF AuthInv, AuthTypeOK, Request
<1>4. OwnerGood'
  BY <1>1 DEF AuthInv, OwnerGood, Own, AuthTypeOK, At, Activate, Ends, NoRequest, Request,
     Account
<1>5. ChangerGood'
  <2>1. Fades
    BY DEF AuthInv, AuthTypeOK, Account, Fades, Activate, Ends, NoRequest
  <2>2. \A q \in Requests : At(q, "changing")' =>
          /\ At(q, "changing")
          /\ request'[q].user = request[q].user /\ request'[q].by = request[q].by
    BY <1>1 DEF AuthInv, AuthTypeOK, At, Activate, Ends, NoRequest
  <2>3. \A q \in Requests, s \in Sessions :
          Foreign(q, s, session[s].user) /\ session'[s].state = "open" =>
            session'[s].raced \/ Foreign(q, s, session[s].user)'
    BY <1>1 DEF AuthInv, AuthTypeOK, At, Foreign, Settles, Activate, Ends, NoRequest
  <2> QED
    BY <1>1, <2>1, <2>2, <2>3, ChangerFrame
<1> QED
  BY <1>1, <1>2, <1>3, <1>4, <1>5 DEF AuthInv

(* No session of the account is left open, and no login of it in time.     *)
LEMMA DeactivateRevokeKeeps ==
    ASSUME AuthInv, NEW r \in Requests, DeactivateRevoke(r)
    PROVE  AuthInv'
<1>1. AuthTypeOK'
  BY AuthAssumption, OvertakesType, RevokedType, StepType DEF AuthInv, AuthTypeOK,
     DeactivateRevoke, Steps, LateSteps
<1>a. \A q \in Requests \ {r} :
         /\ request'[q].step = request[q].step /\ request'[q].user = request[q].user
         /\ request'[q].by = request[q].by /\ request'[q].password = request[q].password
         /\ request'[q].raced \/ request'[q].raced = request[q].raced
  BY DEF AuthInv, AuthTypeOK, Request, DeactivateRevoke, Overtakes
<1>b. request'[r].step = "deactivating" /\ request'[r].user = request[r].user
  BY DEF AuthInv, AuthTypeOK, At, NoRequest, Request, DeactivateRevoke, Overtakes
<1>c. \A v \in Users \ {request[r].user} :
         /\ Deactivating(v)' => Deactivating(v)
         /\ Settling(v) => Settling(v)'
  BY <1>a, <1>b DEF Deactivating, Settling, Settles, At
<1>d. \A s \in Sessions : session'[s].state = "open" =>
         /\ session'[s] = session[s]
         /\ session[s].user # request[r].user
  BY DEF AuthInv, AuthTypeOK, DeactivateRevoke, Revoked, Live, RevokedRow, NoRow, Sessions,
     NoSession, Overtakes, Request, Session
<1>e. Fades
  BY <1>d DEF AuthInv, AuthTypeOK, Account, Fades, DeactivateRevoke
<1>f. account' = account
  BY DEF DeactivateRevoke
<1>2. OpenGood'
  <2>1. \A s \in Sessions : session'[s].state = "open" /\ ~session'[s].raced =>
          LET u == session[s].user IN
          /\ Deactivating(u)' => Deactivating(u)
          /\ \/ Settling(u) => Settling(u)'
             \/ session[s].password = account[u].password
    BY <1>c, <1>d DEF AuthInv, AuthTypeOK, Session
  <2> QED
    BY <1>1, <1>e, <1>f, <2>1, OpenFrame
<1>3. LoginGood'
  <2> SUFFICES ASSUME NEW q \in Requests, At(q, "login")'
               PROVE  LET u == request[q].user IN
                      /\ At(q, "login") /\ request'[q].user = u
                      /\ request'[q].password = request[q].password
                      /\ \/ request'[q].raced
                         \/ /\ ~request[q].raced
                            /\ Deactivating(u)' => Deactivating(u)
                            /\ Settling(u) => Settling(u)'
    BY <1>1, <1>f, LoginFrame
  <2>1. q # r /\ At(q, "login")
    BY <1>a, <1>b DEF At
  <2>2. CASE request[q].user = request[r].user
    <3>1. request'[q].raced
      BY <2>1, <2>2 DEF AuthInv, AuthTypeOK, At, Request, DeactivateRevoke, Overtakes
    <3> QED
      BY <1>a, <2>1, <3>1
  <2>3. CASE request[q].user # request[r].user
    BY <1>a, <1>c, <2>1, <2>3 DEF AuthInv, AuthTypeOK, Request
  <2> QED
    BY <2>2, <2>3
<1>4. OwnerGood'
  BY <1>1 DEF AuthInv, OwnerGood, Own, AuthTypeOK, At, DeactivateRevoke, Revoked, Live,
     RevokedRow, NoRow, Overtakes, Request, Session
<1>5. ChangerGood'
  <2>1. \A q \in Requests : At(q, "changing")' =>
          /\ At(q, "changing")
          /\ request'[q].user = request[q].user /\ request'[q].by = request[q].by
    BY <1>a, <1>b DEF At
  <2>2. \A q \in Requests, s \in Sessions :
          Foreign(q, s, session[s].user) /\ session'[s].state = "open" =>
            session'[s].raced \/ Foreign(q, s, session[s].user)'
    BY <1>a, <1>b, <1>d DEF Foreign, Settles, At, DeactivateRevoke
  <2> QED
    BY <1>1, <1>e, <2>1, <2>2, ChangerFrame
<1> QED
  BY <1>1, <1>2, <1>3, <1>4, <1>5 DEF AuthInv

(* When the account is cleared, no session relies on it.                   *)
LEMMA DeactivateClearKeeps ==
    ASSUME AuthInv, NEW r \in Requests, DeactivateClear(r)
    PROVE  AuthInv'
<1>1. AuthTypeOK'
  BY AuthAssumption, EndsType DEF AuthInv, AuthTypeOK, DeactivateClear, Account
<1>2. OpenGood'
  BY <1>1, SMTT(60) DEF AuthInv, OpenGood, LoginGood, AuthTypeOK, At, Settles, Settling, Deactivating,
     GoodFor, DeactivateClear, Ends, NoRequest, Request, Account
<1>3. LoginGood'
  <2>1. \A u \in Users : /\ account[u].exists => account'[u].exists
                         /\ account'[u].password = account[u].password
                         /\ account[u].active /\ ~Deactivating(u) => account'[u].active
    BY DEF AuthInv, AuthTypeOK, Account, Deactivating, At, DeactivateClear
  <2>2. \A v \in Users : /\ Deactivating(v)' => Deactivating(v)
                         /\ Settling(v) => Settling(v)'
    BY DEF AuthInv, AuthTypeOK, Deactivating, Settling, Settles, At, NoRequest, Ends,
       DeactivateClear
  <2>3. \A q \in Requests : At(q, "login")' => At(q, "login") /\ request'[q] = request[q]
    BY DEF AuthInv, AuthTypeOK, At, NoRequest, Ends, DeactivateClear
  <2> QED
    BY <1>1, <2>1, <2>2, <2>3, LoginFrame DEF AuthInv, AuthTypeOK, Request
<1>4. OwnerGood'
  BY <1>1 DEF AuthInv, OwnerGood, Own, AuthTypeOK, At, DeactivateClear, Ends, NoRequest,
     Request, Account
<1>5. ChangerGood'
  <2>1. Fades
    BY DEF AuthInv, AuthTypeOK, Account, Fades, DeactivateClear, Ends, NoRequest
  <2>2. \A q \in Requests : At(q, "changing")' =>
          /\ At(q, "changing")
          /\ request'[q].user = request[q].user /\ request'[q].by = request[q].by
    BY <1>1 DEF AuthInv, AuthTypeOK, At, DeactivateClear, Ends, NoRequest
  <2>3. \A q \in Requests, s \in Sessions :
          Foreign(q, s, session[s].user) /\ session'[s].state = "open" =>
            session'[s].raced \/ Foreign(q, s, session[s].user)'
    BY <1>1 DEF AuthInv, AuthTypeOK, At, Foreign, Settles, DeactivateClear, Ends, NoRequest
  <2> QED
    BY <1>1, <2>1, <2>2, <2>3, ChangerFrame
<1> QED
  BY <1>1, <1>2, <1>3, <1>4, <1>5 DEF AuthInv

(* From now on the request is about to revoke.                             *)
LEMMA ResetStoreKeeps ==
    ASSUME AuthInv, NEW r \in Requests, ResetStore(r)
    PROVE  AuthInv'
<1>1. AuthTypeOK'
  BY AuthAssumption, GoesType DEF AuthInv, AuthTypeOK, ResetStore, Steps, LateSteps,
     Account, Request
<1>2. OpenGood'
  BY <1>1 DEF AuthInv, OpenGood, LoginGood, AuthTypeOK, At, Settles, Settling, Deactivating,
     GoodFor, ResetStore, Goes, Request, Account
<1>3. LoginGood'
  BY <1>1 DEF AuthInv, LoginGood, AuthTypeOK, At, Settles, Settling, Deactivating, GoodFor,
     ResetStore, Goes, Request, Account
<1>4. OwnerGood'
  BY <1>1 DEF AuthInv, OwnerGood, Own, AuthTypeOK, At, ResetStore, Goes, Request, Account
<1>5. ChangerGood'
  BY <1>1 DEF AuthInv, ChangerGood, OwnerGood, Own, AuthTypeOK, At, Foreign, Settles,
     ResetStore, Goes, Request, Account
<1> QED
  BY <1>1, <1>2, <1>3, <1>4, <1>5 DEF AuthInv

(* No session is left open that the old password has opened.               *)
LEMMA ResetRevokeKeeps ==
    ASSUME AuthInv, NEW r \in Requests, ResetRevoke(r)
    PROVE  AuthInv'
<1>1. AuthTypeOK'
  BY AuthAssumption, BlankSays, OvertakesType, RevokedType DEF AuthInv, AuthTypeOK, ResetRevoke
<1>a. \A q \in Requests \ {r} :
         /\ request'[q].step = request[q].step /\ request'[q].user = request[q].user
         /\ request'[q].by = request[q].by /\ request'[q].password = request[q].password
         /\ request'[q].raced \/ request'[q].raced = request[q].raced
  BY DEF AuthInv, AuthTypeOK, Request, ResetRevoke, Overtakes
<1>b. request'[r].step = "idle"
  BY DEF AuthInv, AuthTypeOK, At, NoRequest, Request, ResetRevoke, Overtakes
<1>c. \A v \in Users \ {request[r].user} :
         /\ Deactivating(v)' => Deactivating(v)
         /\ Settling(v) => Settling(v)'
  BY <1>a, <1>b DEF Deactivating, Settling, Settles, At
<1>d. \A s \in Sessions : session'[s].state = "open" =>
         /\ session'[s] = session[s]
         /\ session[s].user # request[r].user
  BY DEF AuthInv, AuthTypeOK, ResetRevoke, Revoked, Live, RevokedRow, NoRow, Sessions,
     NoSession, Overtakes, NoRequest, Request, Session
<1>e. Fades
  BY <1>d DEF AuthInv, AuthTypeOK, Account, Fades, ResetRevoke
<1>f. account' = account
  BY DEF ResetRevoke
<1>2. OpenGood'
  <2>1. \A s \in Sessions : session'[s].state = "open" /\ ~session'[s].raced =>
          LET u == session[s].user IN
          /\ Deactivating(u)' => Deactivating(u)
          /\ \/ Settling(u) => Settling(u)'
             \/ session[s].password = account[u].password
    BY <1>c, <1>d DEF AuthInv, AuthTypeOK, Session
  <2> QED
    BY <1>1, <1>e, <1>f, <2>1, OpenFrame
<1>3. LoginGood'
  <2> SUFFICES ASSUME NEW q \in Requests, At(q, "login")'
               PROVE  LET u == request[q].user IN
                      /\ At(q, "login") /\ request'[q].user = u
                      /\ request'[q].password = request[q].password
                      /\ \/ request'[q].raced
                         \/ /\ ~request[q].raced
                            /\ Deactivating(u)' => Deactivating(u)
                            /\ Settling(u) => Settling(u)'
    BY <1>1, <1>f, LoginFrame
  <2>1. q # r /\ At(q, "login")
    BY <1>a, <1>b DEF At
  <2>2. CASE request[q].user = request[r].user
    <3>1. request'[q].raced
      BY <2>1, <2>2 DEF AuthInv, AuthTypeOK, At, Request, ResetRevoke, Overtakes
    <3> QED
      BY <1>a, <2>1, <3>1
  <2>3. CASE request[q].user # request[r].user
    BY <1>a, <1>c, <2>1, <2>3 DEF AuthInv, AuthTypeOK, Request
  <2> QED
    BY <2>2, <2>3
<1>4. OwnerGood'
  BY <1>1 DEF AuthInv, OwnerGood, Own, AuthTypeOK, At, ResetRevoke, Revoked, Live,
     RevokedRow, NoRow, Overtakes, NoRequest, Request, Session
<1>5. ChangerGood'
  <2>1. \A q \in Requests : At(q, "changing")' =>
          /\ At(q, "changing")
          /\ request'[q].user = request[q].user /\ request'[q].by = request[q].by
    BY <1>a, <1>b DEF At
  <2>2. \A q \in Requests, s \in Sessions :
          Foreign(q, s, session[s].user) /\ session'[s].state = "open" =>
            session'[s].raced \/ Foreign(q, s, session[s].user)'
    BY <1>a, <1>b, <1>d DEF Foreign, Settles, At, ResetRevoke
  <2> QED
    BY <1>1, <1>e, <2>1, <2>2, ChangerFrame
<1> QED
  BY <1>1, <1>2, <1>3, <1>4, <1>5 DEF AuthInv

(* Nothing is written yet.                                                 *)
LEMMA ChangeVerifyKeeps ==
    ASSUME AuthInv, NEW r \in Requests, ChangeVerify(r)
    PROVE  AuthInv'
<1>1. AuthTypeOK'
  BY AuthAssumption, GoesType DEF AuthInv, AuthTypeOK, ChangeVerify, Steps, LateSteps
<1>2. OpenGood'
  BY <1>1 DEF AuthInv, OpenGood, LoginGood, AuthTypeOK, At, Settles, Settling, Deactivating,
     GoodFor, ChangeVerify, Goes, Request
<1>3. LoginGood'
  BY <1>1 DEF AuthInv, LoginGood, AuthTypeOK, At, Settles, Settling, Deactivating, GoodFor,
     ChangeVerify, Goes, Request
<1>4. OwnerGood'
  BY <1>1 DEF AuthInv, OwnerGood, Own, AuthTypeOK, At, ChangeVerify, Goes, Request
<1>5. ChangerGood'
  BY <1>1, SMTT(60) DEF AuthInv, ChangerGood, OwnerGood, Own, AuthTypeOK, At, Foreign, Settles,
     ChangeVerify, Goes, Request
<1> QED
  BY <1>1, <1>2, <1>3, <1>4, <1>5 DEF AuthInv

(* The session that changes the password has the new one, and the others   *)
(* are about to be revoked.                                                *)
LEMMA ChangeStoreKeeps ==
    ASSUME AuthInv, NEW r \in Requests, ChangeStore(r)
    PROVE  AuthInv'
<1> DEFINE u == request[r].user
           p == request[r].password
           by == request[r].by
<1>a. /\ At(r, "verified") /\ Goes(r, "changing")
      /\ account' = [account EXCEPT ![u].password = p]
      /\ session' = [session EXCEPT ![by].password =
                        IF session[by].state = "open" THEN p ELSE @]
  BY DEF ChangeStore
<1>b. u \in Users /\ p \in Passwords /\ by \in Sessions
  BY <1>a DEF AuthInv, AuthTypeOK, Request, OwnerGood, Own
<1>c. \A s \in Sessions :
         /\ session'[s].state = session[s].state /\ session'[s].user = session[s].user
         /\ session'[s].raced = session[s].raced
         /\ s # by => session'[s].password = session[s].password
  BY <1>a DEF AuthInv, AuthTypeOK, Session
<1>d. \A v \in Users : v # u => account'[v] = account[v]
  BY <1>a DEF AuthInv, AuthTypeOK
<1>e. /\ account'[u].exists = account[u].exists /\ account'[u].active = account[u].active
  BY <1>a, <1>b DEF AuthInv, AuthTypeOK, Account
<1>f. /\ \A v \in Users : Deactivating(v)' => Deactivating(v)
      /\ \A v \in Users : Settling(v) => Settling(v)'
      /\ \A v \in Users : v = u => Settling(v)'
  BY <1>a DEF Goes, AuthInv, AuthTypeOK, Request, Deactivating, Settling, Settles, At
<1>1. AuthTypeOK'
  <2>1. account' \in [Users -> Account]
    BY <1>a, <1>b DEF AuthInv, AuthTypeOK, Account
  <2>2. session' \in [Sessions -> Session]
    <3>1. CASE session[by].state = "open"
      <4>1. session' = [session EXCEPT ![by] = [session[by] EXCEPT !.password = p]]
        BY <1>a, <3>1 DEF AuthInv, AuthTypeOK
      <4> QED
        BY <1>b, <4>1, PasswordType DEF AuthInv, AuthTypeOK
    <3>2. CASE session[by].state # "open"
      <4>1. session' = session
        BY <1>a, <1>b, <3>2 DEF AuthInv, AuthTypeOK, Session
      <4> QED
        BY <4>1 DEF AuthInv, AuthTypeOK
    <3> QED
      BY <3>1, <3>2
  <2>3. request' \in [Requests -> Request]
    BY <1>a, GoesType DEF AuthInv, AuthTypeOK, Steps, LateSteps
  <2> QED
    BY <2>1, <2>2, <2>3 DEF AuthTypeOK
<1>2. OpenGood'
  <2> SUFFICES ASSUME NEW s \in Sessions, session'[s].state = "open"
               PROVE  /\ account'[session'[s].user].exists
                      /\ session'[s].raced \/ GoodFor(session[s].user, session[s].password)'
    BY DEF OpenGood
  <2>1. /\ session[s].state = "open" /\ session'[s].user = session[s].user
        /\ session'[s].raced = session[s].raced /\ session[s].user \in Users
    BY <1>c DEF AuthInv, AuthTypeOK, Session
  <2>2. /\ account[session[s].user].exists
        /\ session[s].raced \/ GoodFor(session[s].user, session[s].password)
    BY <2>1 DEF AuthInv, OpenGood
  <2>3. CASE session[s].user = u
    BY <1>e, <1>f, <2>1, <2>2, <2>3 DEF GoodFor
  <2>4. CASE session[s].user # u
    <3>1. session'[s].password = session[s].password
      BY <1>a, <1>c, <2>1, <2>4 DEF AuthInv, OwnerGood, Own
    <3> QED
      BY <1>d, <1>f, <2>1, <2>2, <2>4, <3>1 DEF GoodFor
  <2> QED
    BY <2>3, <2>4
<1>g. \A q \in Requests : q # r => request'[q] = request[q]
  BY <1>a DEF Goes, AuthInv, AuthTypeOK
<1>h. request'[r].step = "changing" /\ request'[r].user = u /\ request'[r].by = by
  BY <1>a DEF Goes, AuthInv, AuthTypeOK, Request
<1>3. LoginGood'
  <2> SUFFICES ASSUME NEW q \in Requests, request'[q].step = "login"
               PROVE  /\ account'[request'[q].user].exists
                      /\ request'[q].raced \/ GoodFor(request[q].user, request[q].password)'
    BY DEF LoginGood, At
  <2>1. request'[q] = request[q] /\ request[q].user \in Users
    BY <1>g, <1>h DEF AuthInv, AuthTypeOK, Request
  <2>2. /\ account[request[q].user].exists
        /\ request[q].raced \/ GoodFor(request[q].user, request[q].password)
    BY <2>1 DEF AuthInv, LoginGood, At
  <2>3. CASE request[q].user = u
    BY <1>e, <1>f, <2>1, <2>2, <2>3 DEF GoodFor
  <2>4. CASE request[q].user # u
    BY <1>d, <1>f, <2>1, <2>2, <2>4 DEF GoodFor
  <2> QED
    BY <2>3, <2>4
<1>4. OwnerGood'
  BY <1>1 DEF AuthInv, OwnerGood, Own, AuthTypeOK, At, ChangeStore, Goes, Request, Session,
     Account
<1>5. ChangerGood'
  <2> SUFFICES ASSUME NEW q \in Requests, request'[q].step = "changing",
                      session'[request'[q].by].state = "open"
               PROVE  \/ session'[request'[q].by].raced
                      \/ session'[request'[q].by].password = account'[request'[q].user].password
                      \/ \E x \in Requests : Foreign(x, request[q].by, request[q].user)'
    BY DEF ChangerGood, At
  <2>1. session[by].state = "open" => /\ session'[by].password = p
                                      /\ account'[u].password = p
                                      /\ session[by].user = u
    BY <1>a, <1>b DEF AuthInv, AuthTypeOK, OwnerGood, Own, Account, Session
  <2>2. CASE q = r
    BY <1>b, <1>c, <1>h, <2>1, <2>2
  <2>3. CASE q # r
    <3> DEFINE s == request[q].by
               v == request[q].user
    <3>1. /\ request'[q] = request[q] /\ request[q].step = "changing"
          /\ s \in Sessions /\ v \in Users
          /\ session[s].state = "open" /\ session[s].user = v
      BY <1>c, <1>g, <2>3 DEF AuthInv, AuthTypeOK, Request, OwnerGood, Own, At
    <3>2. \/ session[s].raced
          \/ session[s].password = account[v].password
          \/ \E x \in Requests : Foreign(x, s, v)
      BY <3>1 DEF AuthInv, ChangerGood, At
    <3>3. CASE session[s].raced
      BY <1>c, <3>1, <3>3
    <3>4. CASE s = by
      BY <2>1, <3>1, <3>4
    <3>5. CASE s # by /\ v = u
      <4>1. Foreign(r, request[q].by, request[q].user)'
        BY <1>h, <3>1, <3>5 DEF Foreign, Settles, At
      <4> QED
        BY <4>1
    <3>6. CASE s # by /\ v # u /\ session[s].password = account[v].password
      BY <1>c, <1>d, <3>1, <3>6
    <3>7. ASSUME NEW x \in Requests, Foreign(x, s, v)
          PROVE  Foreign(x, request[q].by, request[q].user)'
      <4>1. x # r
        BY <1>a, <3>7 DEF Foreign, Settles, At
      <4> QED
        BY <1>g, <3>1, <3>7, <4>1 DEF Foreign, Settles, At
    <3> QED
      BY <3>2, <3>3, <3>4, <3>5, <3>6, <3>7
  <2> QED
    BY <2>2, <2>3
<1> QED
  BY <1>1, <1>2, <1>3, <1>4, <1>5 DEF AuthInv

(* The one session left has the password of the account, unless another    *)
(* request that stored one is still to revoke.                             *)
LEMMA ChangeRevokeKeeps ==
    ASSUME AuthInv, NEW r \in Requests, ChangeRevoke(r)
    PROVE  AuthInv'
<1>1. AuthTypeOK'
  BY AuthAssumption, BlankSays, OvertakesType, RevokedType DEF AuthInv, AuthTypeOK, ChangeRevoke
<1>a. \A q \in Requests \ {r} :
         /\ request'[q].step = request[q].step /\ request'[q].user = request[q].user
         /\ request'[q].by = request[q].by /\ request'[q].password = request[q].password
         /\ request'[q].raced \/ request'[q].raced = request[q].raced
  BY DEF AuthInv, AuthTypeOK, Request, ChangeRevoke, Overtakes
<1>b. request'[r].step = "idle" /\ At(r, "changing")
  BY DEF AuthInv, AuthTypeOK, At, NoRequest, Request, ChangeRevoke, Overtakes
<1>c. \A v \in Users \ {request[r].user} :
         /\ Deactivating(v)' => Deactivating(v)
         /\ Settling(v) => Settling(v)'
  BY <1>a, <1>b DEF Deactivating, Settling, Settles, At
<1>d. \A s \in Sessions : session'[s].state = "open" =>
         /\ session'[s] = session[s]
         /\ session[s].user # request[r].user \/ s = request[r].by
  BY DEF AuthInv, AuthTypeOK, ChangeRevoke, Revoked, Live, RevokedRow, NoRow, Overtakes,
     NoRequest, Request, Session
<1>e. Fades
  BY <1>d DEF AuthInv, AuthTypeOK, Account, Fades, ChangeRevoke
<1>f. account' = account
  BY DEF ChangeRevoke
<1>2. OpenGood'
  <2>1. ASSUME NEW s \in Sessions, session'[s].state = "open", ~session'[s].raced
        PROVE  LET u == session[s].user IN
               /\ Deactivating(u)' => Deactivating(u)
               /\ \/ Settling(u) => Settling(u)'
                  \/ session[s].password = account[u].password
    <3> DEFINE u == session[s].user
    <3>1. session'[s] = session[s] /\ u \in Users
      BY <1>d, <2>1 DEF AuthInv, AuthTypeOK, Session
    <3>2. CASE u # request[r].user
      BY <1>c, <3>1, <3>2
    <3>3. CASE u = request[r].user
      <4>1. s = request[r].by
        BY <1>d, <2>1, <3>3
      <4>2. Deactivating(u)' => Deactivating(u)
        BY <1>a, <1>b, <3>1 DEF Deactivating, At
      <4>3. \/ session[s].password = account[u].password
            \/ \E q \in Requests : Foreign(q, s, u)
        BY <1>b, <2>1, <3>1, <3>3, <4>1 DEF AuthInv, ChangerGood
      <4>4. ASSUME NEW q \in Requests, Foreign(q, s, u)
            PROVE  Settling(u)'
        <5>1. q # r
          BY <1>b, <4>1, <4>4 DEF Foreign
        <5>2. Settles(q, u)'
          BY <1>a, <3>1, <4>4, <5>1 DEF Foreign, Settles, At
        <5> QED
          BY <5>2 DEF Settling
      <4> QED
        BY <4>2, <4>3, <4>4
    <3> QED
      BY <3>2, <3>3
  <2> QED
    BY <1>1, <1>e, <1>f, <2>1, OpenFrame
<1>3. LoginGood'
  <2> SUFFICES ASSUME NEW q \in Requests, At(q, "login")'
               PROVE  LET u == request[q].user IN
                      /\ At(q, "login") /\ request'[q].user = u
                      /\ request'[q].password = request[q].password
                      /\ \/ request'[q].raced
                         \/ /\ ~request[q].raced
                            /\ Deactivating(u)' => Deactivating(u)
                            /\ Settling(u) => Settling(u)'
    BY <1>1, <1>f, LoginFrame
  <2>1. q # r /\ At(q, "login")
    BY <1>a, <1>b DEF At
  <2>2. CASE request[q].user = request[r].user
    <3>1. request'[q].raced
      BY <2>1, <2>2 DEF AuthInv, AuthTypeOK, At, Request, ChangeRevoke, Overtakes
    <3> QED
      BY <1>a, <2>1, <3>1
  <2>3. CASE request[q].user # request[r].user
    BY <1>a, <1>c, <2>1, <2>3 DEF AuthInv, AuthTypeOK, Request
  <2> QED
    BY <2>2, <2>3
<1>4. OwnerGood'
  BY <1>1 DEF AuthInv, OwnerGood, Own, AuthTypeOK, At, ChangeRevoke, Revoked, Live,
     RevokedRow, NoRow, Overtakes, NoRequest, Request, Session
<1>5. ChangerGood'
  <2>1. \A q \in Requests : At(q, "changing")' =>
          /\ At(q, "changing")
          /\ request'[q].user = request[q].user /\ request'[q].by = request[q].by
    BY <1>a, <1>b DEF At
  <2>2. \A q \in Requests, s \in Sessions :
          Foreign(q, s, session[s].user) /\ session'[s].state = "open" =>
            session'[s].raced \/ Foreign(q, s, session[s].user)'
    BY <1>a, <1>b, <1>d DEF Foreign, Settles, At, ChangeRevoke
  <2> QED
    BY <1>1, <1>e, <2>1, <2>2, ChangerFrame
<1> QED
  BY <1>1, <1>2, <1>3, <1>4, <1>5 DEF AuthInv

(* One session less.                                                       *)
LEMMA RevokeOneKeeps ==
    ASSUME AuthInv, NEW r \in Requests, RevokeOne(r)
    PROVE  AuthInv'
<1>1. AuthTypeOK'
  BY AuthAssumption, BlankSays, EndsType DEF AuthInv, AuthTypeOK, RevokeOne
<1>2. OpenGood'
  <2>1. Fades
    BY DEF AuthInv, AuthTypeOK, Account, Fades, RevokeOne, Live, Ends, NoRequest,
       RevokedRow, NoRow, Request, Session
  <2>2. \A u \in Users : /\ account[u].exists => account'[u].exists
                         /\ account[u].active => account'[u].active
    BY DEF AuthInv, AuthTypeOK, Account, RevokeOne, Live, Ends, NoRequest, RevokedRow,
       NoRow, Request, Session
  <2>3. \A s \in Sessions : session'[s].state = "open" /\ ~session'[s].raced =>
          LET u == session[s].user IN
          /\ Deactivating(u)' => Deactivating(u)
          /\ \/ Settling(u) => Settling(u)'
             \/ session[s].password = account[u].password
    BY <1>1, SMTT(60) DEF AuthInv, AuthTypeOK, At, Settles, Settling, Deactivating, RevokeOne, Live,
       Ends, NoRequest, RevokedRow, NoRow, Request, Session
  <2> QED
    BY <1>1, <2>1, <2>2, <2>3, OpenFrame
<1>3. LoginGood'
  BY <1>1, SMTT(60) DEF AuthInv, LoginGood, AuthTypeOK, At, Settles, Settling, Deactivating, GoodFor,
     RevokeOne, Live, Ends, NoRequest, RevokedRow, NoRow, Request, Session
<1>4. OwnerGood'
  BY <1>1 DEF AuthInv, OwnerGood, Own, AuthTypeOK, At, RevokeOne, Live, Ends, NoRequest,
     RevokedRow, NoRow, Request, Session
<1>5. ChangerGood'
  BY <1>1 DEF AuthInv, ChangerGood, OwnerGood, Own, AuthTypeOK, At, Foreign, Settles,
     RevokeOne, Live, Ends, NoRequest, RevokedRow, NoRow, Request, Session
<1> QED
  BY <1>1, <1>2, <1>3, <1>4, <1>5 DEF AuthInv

(* Nothing is written yet.                                                 *)
LEMMA LeaveAllFindKeeps ==
    ASSUME AuthInv, NEW r \in Requests, LeaveAllFind(r)
    PROVE  AuthInv'
<1>1. AuthTypeOK'
  BY AuthAssumption, GoesType DEF AuthInv, AuthTypeOK, LeaveAllFind, Steps, LateSteps
<1>2. OpenGood'
  BY <1>1 DEF AuthInv, OpenGood, LoginGood, AuthTypeOK, At, Settles, Settling, Deactivating,
     GoodFor, LeaveAllFind, Goes, Request
<1>3. LoginGood'
  BY <1>1 DEF AuthInv, LoginGood, AuthTypeOK, At, Settles, Settling, Deactivating, GoodFor,
     LeaveAllFind, Goes, Request
<1>4. OwnerGood'
  BY <1>1 DEF AuthInv, OwnerGood, Own, AuthTypeOK, At, LeaveAllFind, Goes, Request
<1>5. ChangerGood'
  BY <1>1 DEF AuthInv, ChangerGood, OwnerGood, Own, AuthTypeOK, At, Foreign, Settles,
     LeaveAllFind, Goes, Request
<1> QED
  BY <1>1, <1>2, <1>3, <1>4, <1>5 DEF AuthInv

(* No session of the account is left.                                      *)
LEMMA LeaveAllRevokeKeeps ==
    ASSUME AuthInv, NEW r \in Requests, LeaveAllRevoke(r)
    PROVE  AuthInv'
<1>1. AuthTypeOK'
  BY AuthAssumption, EndsType, RevokedType DEF AuthInv, AuthTypeOK, LeaveAllRevoke
<1>2. OpenGood'
  BY <1>1 DEF AuthInv, OpenGood, LoginGood, AuthTypeOK, At, Settles, Settling, Deactivating,
     GoodFor, LeaveAllRevoke, Revoked, Live, RevokedRow, NoRow, Ends, NoRequest, Request,
     Session
<1>3. LoginGood'
  BY <1>1 DEF AuthInv, LoginGood, AuthTypeOK, At, Settles, Settling, Deactivating, GoodFor,
     LeaveAllRevoke, Revoked, Live, RevokedRow, NoRow, Ends, NoRequest, Request, Session
<1>4. OwnerGood'
  BY <1>1 DEF AuthInv, OwnerGood, Own, AuthTypeOK, At, LeaveAllRevoke, Revoked, Live,
     RevokedRow, NoRow, Ends, NoRequest, Request, Session
<1>5. ChangerGood'
  BY <1>1 DEF AuthInv, ChangerGood, OwnerGood, Own, AuthTypeOK, At, Foreign, Settles,
     LeaveAllRevoke, Revoked, Live, RevokedRow, NoRow, Ends, NoRequest, Request, Session
<1> QED
  BY <1>1, <1>2, <1>3, <1>4, <1>5 DEF AuthInv

(* What a request that fails was about to revoke counts as raced.          *)
LEMMA FailKeeps ==
    ASSUME AuthInv, NEW r \in Requests, Fail(r)
    PROVE  AuthInv'
<1>1. AuthTypeOK'
  BY AuthAssumption, LeftOverType DEF AuthInv, AuthTypeOK, Fail
<1>a. \A q \in Requests \ {r} :
         /\ request'[q].step = request[q].step /\ request'[q].user = request[q].user
         /\ request'[q].by = request[q].by /\ request'[q].password = request[q].password
         /\ request'[q].raced \/ request'[q].raced = request[q].raced
  BY DEF AuthInv, AuthTypeOK, Request, Fail, LeftOver
<1>b. request'[r].step = "idle"
  BY DEF AuthInv, AuthTypeOK, At, NoRequest, Request, Fail, LeftOver
<1>c. \A v \in Users : /\ Deactivating(v)' => Deactivating(v)
                       /\ Settling(v) => Settling(v)' \/ Settles(r, v)
  BY <1>a, <1>b DEF Deactivating, Settling, Settles, At
<1>d. \A s \in Sessions : session'[s].state = "open" =>
         /\ session[s].state = "open" /\ session'[s].user = session[s].user
         /\ session'[s].raced \/ (session'[s] = session[s] /\ ~Settles(r, session[s].user))
  BY DEF AuthInv, AuthTypeOK, Session, Settles, Fail, LeftOver
<1>e. Fades
  BY <1>d DEF AuthInv, AuthTypeOK, Account, Fades, Fail
<1>f. account' = account
  BY DEF Fail
<1>2. OpenGood'
  <2>1. \A s \in Sessions : session'[s].state = "open" /\ ~session'[s].raced =>
          LET u == session[s].user IN
          /\ Deactivating(u)' => Deactivating(u)
          /\ \/ Settling(u) => Settling(u)'
             \/ session[s].password = account[u].password
    BY <1>c, <1>d DEF AuthInv, AuthTypeOK, Session
  <2> QED
    BY <1>1, <1>e, <1>f, <2>1, OpenFrame
<1>3. LoginGood'
  <2> SUFFICES ASSUME NEW q \in Requests, At(q, "login")'
               PROVE  LET u == request[q].user IN
                      /\ At(q, "login") /\ request'[q].user = u
                      /\ request'[q].password = request[q].password
                      /\ \/ request'[q].raced
                         \/ /\ ~request[q].raced
                            /\ Deactivating(u)' => Deactivating(u)
                            /\ Settling(u) => Settling(u)'
    BY <1>1, <1>f, LoginFrame
  <2>1. q # r /\ At(q, "login")
    BY <1>a, <1>b DEF At
  <2>2. CASE Settles(r, request[q].user)
    <3>1. request'[q].raced
      BY <2>1, <2>2 DEF AuthInv, AuthTypeOK, At, Settles, Request, Fail, LeftOver
    <3> QED
      BY <1>a, <2>1, <3>1
  <2>3. CASE ~Settles(r, request[q].user)
    BY <1>a, <1>c, <2>1, <2>3 DEF AuthInv, AuthTypeOK, Request
  <2> QED
    BY <2>2, <2>3
<1>4. OwnerGood'
  BY <1>1, SMTT(60) DEF AuthInv, OwnerGood, Own, AuthTypeOK, At, Fail, LeftOver, NoRequest, Request,
     Session
<1>5. ChangerGood'
  <2>1. \A q \in Requests : At(q, "changing")' =>
          /\ At(q, "changing")
          /\ request'[q].user = request[q].user /\ request'[q].by = request[q].by
    BY <1>a, <1>b DEF At
  <2>2. \A q \in Requests, s \in Sessions :
          Foreign(q, s, session[s].user) /\ session'[s].state = "open" =>
            session'[s].raced \/ Foreign(q, s, session[s].user)'
    BY <1>a, <1>b, <1>d DEF Foreign, Settles, At
  <2> QED
    BY <1>1, <1>e, <2>1, <2>2, ChangerFrame
<1> QED
  BY <1>1, <1>2, <1>3, <1>4, <1>5 DEF AuthInv

(* An expired session is of no use.                                        *)
LEMMA ExpireKeeps ==
    ASSUME AuthInv, NEW s \in Sessions, Expire(s)
    PROVE  AuthInv'
<1>1. AuthTypeOK'
  BY AuthAssumption DEF AuthInv, AuthTypeOK, Expire, NoRow, Session
<1>2. OpenGood'
  BY <1>1 DEF AuthInv, OpenGood, LoginGood, AuthTypeOK, At, Settles, Settling, Deactivating,
     GoodFor, Expire, NoRow, Session
<1>3. LoginGood'
  BY <1>1 DEF AuthInv, LoginGood, AuthTypeOK, At, Settles, Settling, Deactivating, GoodFor,
     Expire, NoRow, Session
<1>4. OwnerGood'
  BY <1>1 DEF AuthInv, OwnerGood, Own, AuthTypeOK, At, Expire, NoRow, Session
<1>5. ChangerGood'
  BY <1>1 DEF AuthInv, ChangerGood, OwnerGood, Own, AuthTypeOK, At, Foreign, Settles,
     Expire, NoRow, Session
<1> QED
  BY <1>1, <1>2, <1>3, <1>4, <1>5 DEF AuthInv

(* So does what the requests had begun when the backend restarts.          *)
LEMMA RestartKeeps ==
    ASSUME AuthInv, Restart
    PROVE  AuthInv'
<1>1. AuthTypeOK'
  BY AuthAssumption, LeftOverType DEF AuthInv, AuthTypeOK, Restart, Account
<1>a. \A q \in Requests : request'[q].step = "idle"
  BY DEF Restart, LeftOver, NoRequest
<1>d. \A s \in Sessions : session'[s].state = "open" =>
         /\ session[s].state = "open" /\ session'[s].user = session[s].user
         /\ session'[s].raced \/ (session'[s] = session[s] /\ ~Settling(session[s].user))
  BY DEF AuthInv, AuthTypeOK, Session, Settling, Settles, Restart, LeftOver
<1>e. Fades
  BY <1>d DEF AuthInv, AuthTypeOK, Account, Fades, Restart
<1>2. OpenGood'
  <2>1. \A u \in Users : /\ account[u].exists => account'[u].exists
                         /\ account[u].active => account'[u].active
    BY DEF AuthInv, AuthTypeOK, Account, Restart
  <2>2. \A s \in Sessions : session'[s].state = "open" /\ ~session'[s].raced =>
          LET u == session[s].user IN
          /\ Deactivating(u)' => Deactivating(u)
          /\ \/ Settling(u) => Settling(u)'
             \/ session[s].password = account[u].password
    BY <1>a, <1>d DEF Deactivating, At
  <2> QED
    BY <1>1, <1>e, <2>1, <2>2, OpenFrame
<1>3. LoginGood'
  BY <1>1 DEF AuthInv, LoginGood, AuthTypeOK, At, Settles, Settling, Deactivating, GoodFor,
     Restart, LeftOver, NoRequest, Request, Session, Account
<1>4. OwnerGood'
  BY <1>1 DEF AuthInv, OwnerGood, Own, AuthTypeOK, At, Restart, LeftOver, NoRequest,
     Request, Session, Account
<1>5. ChangerGood'
  BY <1>1 DEF AuthInv, ChangerGood, OwnerGood, Own, AuthTypeOK, At, Foreign, Settles,
     Restart, LeftOver, NoRequest, Request, Session, Account
<1> QED
  BY <1>1, <1>2, <1>3, <1>4, <1>5 DEF AuthInv

-----------------------------------------------------------------------------
LEMMA HandleKeeps ==
    ASSUME AuthInv, NEW r \in Requests, Handle(r)
    PROVE  AuthInv'
BY LoginCreateKeeps, ApproveKeeps, ActivateKeeps, DeactivateRevokeKeeps, DeactivateClearKeeps,
   ResetStoreKeeps, ResetRevokeKeeps, ChangeVerifyKeeps, ChangeStoreKeeps, ChangeRevokeKeeps,
   RevokeOneKeeps, LeaveAllFindKeeps, LeaveAllRevokeKeeps, FailKeeps DEF Handle

LEMMA StutterKeeps ==
    ASSUME AuthInv, UNCHANGED authVars
    PROVE  AuthInv'
BY DEF AuthInv, AuthTypeOK, OpenGood, LoginGood, OwnerGood, ChangerGood, Own, Foreign, GoodFor,
       Settles, Settling, Deactivating, At, authVars

(* The inductive invariant.                                                *)
THEOREM AuthInvariance == AuthSpec => []AuthInv
<1>1. ASSUME AuthInit
      PROVE  AuthInv
  <2>1. AuthTypeOK
    BY <1>1, BlankSays, AuthAssumption DEF AuthInit, AuthTypeOK, Account
  <2>2. /\ \A s \in Sessions : session[s].state = "unused"
        /\ \A r \in Requests : request[r].step = "idle"
    BY <1>1 DEF AuthInit, NoRow, NoRequest
  <2> QED
    BY <2>1, <2>2 DEF AuthInv, OpenGood, LoginGood, OwnerGood, ChangerGood, Own, At
<1>2. ASSUME AuthInv, [AuthNext]_authVars
      PROVE  AuthInv'
  <2>1. CASE \E u \in Users, p \in Passwords : Register(u, p)
    BY <1>2, <2>1, RegisterKeeps
  <2>2. CASE \E r \in Requests, u \in Users : LoginCheck(r, u)
    BY <1>2, <2>2, LoginCheckKeeps
  <2>3. CASE \E r \in Requests, s \in Sessions, op \in AdminOps \cup OwnOps, u \in Users,
                p \in Passwords : Admit(r, s, op, u, p)
    BY <1>2, <2>3, AdmitKeeps
  <2>4. CASE \E r \in Requests : Handle(r)
    BY <1>2, <2>4, HandleKeeps
  <2>5. CASE \E s \in Sessions : Expire(s)
    BY <1>2, <2>5, ExpireKeeps
  <2>6. CASE Restart
    BY <1>2, <2>6, RestartKeeps
  <2>7. CASE UNCHANGED authVars
    BY <1>2, <2>7, StutterKeeps
  <2> QED
    BY <1>2, <2>1, <2>2, <2>3, <2>4, <2>5, <2>6, <2>7 DEF AuthNext
<1> QED
  BY <1>1, <1>2, PTL DEF AuthSpec

(* Tables and requests keep their types.                                   *)
THEOREM AuthTypeCorrect == AuthSpec => []AuthTypeOK
<1>1. AuthInv => AuthTypeOK
  BY DEF AuthInv
<1> QED
  BY <1>1, AuthInvariance, PTL

(* Whoever is deactivated or gets a new password loses every session.      *)
THEOREM AccessStaysCurrent == AuthSpec => []AccessIsCurrent
<1>1. AuthInv => AccessIsCurrent
  <2> SUFFICES ASSUME AuthInv, NEW s \in Sessions, session[s].state = "open", ~session[s].raced
               PROVE  LET a == account[session[s].user] IN
                      /\ a.active
                      /\ ~Settling(session[s].user) => session[s].password = a.password
    BY DEF AccessIsCurrent
  <2>1. GoodFor(session[s].user, session[s].password)
    BY DEF AuthInv, OpenGood
  <2> QED
    BY <2>1 DEF GoodFor
<1> QED
  BY <1>1, AuthInvariance, PTL

=============================================================================
