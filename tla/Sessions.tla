------------------------------- MODULE Sessions -------------------------------
(* One account: registration, sign-in, rotation of the refresh token,       *)
(* logout, password reset and e-mail verification (services/auth,           *)
(* api/routes/auth.py, api/routes/email.py).  A request reads the users     *)
(* row, awaits, and writes the columns it changed: the last commit wins.    *)
EXTENDS Naturals

CONSTANTS Devices,      \* clients of the account
          MaxTokens,    \* bound: refresh tokens issued
          MaxEpochs     \* bound: logouts and password resets

ASSUME BoundsAssumption == MaxTokens \in Nat /\ MaxEpochs \in Nat

VARIABLES row,       \* the users row (and whether a subscription exists)
          request,   \* the request each device has in flight, with the row it read
          held,      \* the refresh token each device holds (0: none)
          issued,    \* tokens issued so far; a token is its number
          opened,    \* history: the epoch in which the chain of a token was opened
          epoch,     \* history: logouts and resets committed
          raced      \* history: since the last of them, a write over an unread change

sessionVars == <<row, request, held, issued, opened, epoch, raced>>

User == [account : BOOLEAN, session : 0..MaxTokens, password : {"first", "second"},
         verified : BOOLEAN, plan : BOOLEAN]
Ops == {"idle", "register", "firstlogin", "provision", "login", "oauth",
        "refresh", "logout", "reset", "change", "verify"}

NoUser == [account |-> FALSE, session |-> 0, password |-> "first",
           verified |-> FALSE, plan |-> FALSE]
Idle == [op |-> "idle", read |-> NoUser]

SessionInit ==
  /\ row = NoUser /\ request = [d \in Devices |-> Idle]
  /\ held = [d \in Devices |-> 0]
  /\ issued = 0 /\ opened = [t \in 1..MaxTokens |-> 0]
  /\ epoch = 0 /\ raced = FALSE

Op(d, op) == request[d].op = op
Read(d) == request[d].read
Stale(d) == row # Read(d)
Becomes(d, op) == request' = [request EXCEPT ![d] = [op |-> op, read |-> row]]
Done(d) == request' = [request EXCEPT ![d] = Idle]

\* The dependency that loads the account, or the query of the handler.
Begin(d, op) ==
  /\ Op(d, "idle") /\ op \in Ops
  /\ Becomes(d, op)
  /\ UNCHANGED <<row, held, issued, opened, epoch, raced>>

\* create_refresh_token: a token nobody has seen; the row keeps its hash.
CreateRefreshToken(d, since) ==
  /\ issued < MaxTokens
  /\ issued' = issued + 1 /\ opened' = [opened EXCEPT ![issued + 1] = since]
  /\ held' = [held EXCEPT ![d] = issued + 1]

StartRegister(d) == ~ row.account /\ Begin(d, "register")
StartLogin(d) == row.account /\ Begin(d, "login")
StartOauth(d) == Begin(d, "oauth")

\* register: the account is committed first; the unique e-mail refuses a second.
Register(d) ==
  /\ Op(d, "register")
  /\ IF row.account THEN Done(d) /\ UNCHANGED row
     ELSE /\ row' = [row EXCEPT !.account = TRUE]
          /\ request' = [request EXCEPT ![d] = [op |-> "firstlogin", read |-> row']]
  /\ UNCHANGED <<held, issued, opened, epoch, raced>>

\* login: also the second commit of a registration.
Login(d) ==
  /\ Op(d, "login") \/ Op(d, "firstlogin")
  /\ CreateRefreshToken(d, epoch)
  /\ row' = [row EXCEPT !.session = issued + 1]
  /\ IF Op(d, "firstlogin")
     THEN request' = [request EXCEPT ![d] = [op |-> "provision", read |-> row']]
     ELSE Done(d)
  /\ UNCHANGED <<epoch, raced>>

\* The free subscription, in a savepoint of its own: its failure is not fatal.
Provision(d) ==
  /\ Op(d, "provision")
  /\ row' = [row EXCEPT !.plan = TRUE] \/ UNCHANGED row
  /\ Done(d) /\ UNCHANGED <<held, issued, opened, epoch, raced>>

\* oauth_login: finds the account or creates it, verified, in one commit.
OauthLogin(d) ==
  /\ Op(d, "oauth")
  /\ IF ~ Read(d).account /\ row.account
     THEN Done(d) /\ UNCHANGED <<row, held, issued, opened>>
     ELSE /\ CreateRefreshToken(d, epoch)
          /\ \E plan \in {row.plan, row.plan \/ ~ Read(d).account} :
               row' = [row EXCEPT !.account = TRUE, !.session = issued + 1, !.plan = plan,
                                  !.verified = @ \/ ~ Read(d).account]
          /\ Done(d)
  /\ UNCHANGED <<epoch, raced>>

StartRefresh(d) == held[d] # 0 /\ Begin(d, "refresh")

\* refresh with the token of the row: rotation.
Refresh(d) ==
  /\ Op(d, "refresh") /\ Read(d).session = held[d]
  /\ CreateRefreshToken(d, opened[held[d]])
  /\ row' = [row EXCEPT !.session = issued + 1]
  /\ raced' = (raced \/ Stale(d)) /\ Done(d) /\ UNCHANGED epoch

\* No session, or another token: AuthError becomes an HTTPException, with which
\* get_db_session rolls back what was flushed; the client signs in again.
RefreshRefused(d) ==
  /\ Op(d, "refresh") /\ Read(d).session # held[d]
  /\ held' = [held EXCEPT ![d] = 0]
  /\ Done(d) /\ UNCHANGED <<row, issued, opened, epoch, raced>>

\* The response of a request that was committed is lost: the token with it.
ResponseLost(d) ==
  /\ held[d] # 0 /\ Op(d, "idle")
  /\ held' = [held EXCEPT ![d] = 0]
  /\ UNCHANGED <<row, request, issued, opened, epoch, raced>>

StartSignedIn(d, op) == held[d] # 0 /\ op \in {"logout", "change"} /\ Begin(d, op)
StartFromMail(d, op) == row.account /\ op \in {"reset", "verify"} /\ Begin(d, op)

Ends(d) == /\ epoch < MaxEpochs /\ epoch' = epoch + 1 /\ raced' = Stale(d)
\* Setting a column to the value that was read writes nothing.
Cleared(d) == IF Read(d).session = 0 THEN row.session ELSE 0

\* logout
Logout(d) ==
  /\ Op(d, "logout") /\ Ends(d)
  /\ row' = [row EXCEPT !.session = Cleared(d)]
  /\ held' = [held EXCEPT ![d] = 0]
  /\ Done(d) /\ UNCHANGED <<issued, opened>>

\* Mistake: a reset only sets the password.
ResetPasswordOnly(d) ==
  /\ Op(d, "reset") /\ Ends(d)
  /\ \E p \in {"first", "second"} : row' = [row EXCEPT !.password = p]
  /\ Done(d) /\ UNCHANGED <<held, issued, opened>>

\* reset_password: the link is checked without the database, so it may be used
\* again while it lasts.
ResetPassword(d) ==
  /\ Op(d, "reset") /\ Ends(d)
  /\ \E p \in {"first", "second"} :
       row' = [row EXCEPT !.password = p, !.session = Cleared(d)]
  /\ Done(d) /\ UNCHANGED <<held, issued, opened>>

\* change_password leaves the session as it is.
ChangePassword(d) ==
  /\ Op(d, "change")
  /\ \E p \in {"first", "second"} : row' = [row EXCEPT !.password = p]
  /\ Done(d) /\ UNCHANGED <<held, issued, opened, epoch, raced>>

\* verify_email
VerifyEmail(d) ==
  /\ Op(d, "verify")
  /\ row' = [row EXCEPT !.verified = TRUE]
  /\ Done(d) /\ UNCHANGED <<held, issued, opened, epoch, raced>>

SessionNext == \E d \in Devices :
  \/ StartRegister(d) \/ Register(d) \/ StartLogin(d) \/ Login(d) \/ Provision(d)
  \/ StartOauth(d) \/ OauthLogin(d)
  \/ StartRefresh(d) \/ Refresh(d) \/ RefreshRefused(d) \/ ResponseLost(d)
  \/ \E op \in {"logout", "change"} : StartSignedIn(d, op)
  \/ \E op \in {"reset", "verify"} : StartFromMail(d, op)
  \/ Logout(d) \/ ResetPassword(d) \/ ChangePassword(d) \/ VerifyEmail(d)

SessionSpec == SessionInit /\ [][SessionNext]_sessionVars

-----------------------------------------------------------------------------
SessionTypeOK ==
  /\ row \in User
  /\ request \in [Devices -> [op : Ops, read : User]]
  /\ held \in [Devices -> 0..MaxTokens] /\ issued \in 0..MaxTokens
  /\ opened \in [1..MaxTokens -> 0..MaxEpochs]
  /\ epoch \in 0..MaxEpochs /\ raced \in BOOLEAN

\* After a logout or a reset the only session there can be was opened by a
\* sign-in that committed later, along whatever chain of rotations it goes on:
\* unless, since, a refresh or the logout itself wrote over a change of the row
\* it had not read (auth_service.py:114-152, email.py:233-237).
SessionAfterLogout ==
  row.session # 0 => raced \/ opened[row.session] = epoch
=============================================================================
