---------------------------- MODULE AccountProofs ----------------------------
(* Sessions, the wipe of a user's data, the mailbox and the profiles, for   *)
(* any number of devices, tables, messages, scans, requests and versions.   *)
EXTENDS Sessions, UserWipe, Mailbox, Profiles, FiniteSetTheorems, TLAPS

-----------------------------------------------------------------------------
(* Sessions.                                                               *)

\* A device has a token to rotate as long as its refresh is in flight.
RefreshHasToken == \A d \in Devices : Op(d, "refresh") => held[d] # 0

SessionInv == SessionTypeOK /\ RefreshHasToken /\ SessionAfterLogout

LEMMA SessionInitInv == SessionInit => SessionInv
<1> SUFFICES ASSUME SessionInit PROVE SessionInv
  OBVIOUS
<1>1. NoUser \in User /\ NoUser.session = 0
  BY BoundsAssumption DEF NoUser, User
<1>2. Idle \in [op : Ops, read : User] /\ Idle.op = "idle"
  BY <1>1 DEF Idle, Ops
<1>3. SessionTypeOK
  <2>1. 0 \in 0..MaxTokens /\ 0 \in 0..MaxEpochs
    BY BoundsAssumption
  <2>2. QED
    BY <1>1, <1>2, <2>1 DEF SessionInit, SessionTypeOK
<1>4. RefreshHasToken
  BY <1>2 DEF SessionInit, RefreshHasToken, Op
<1>5. SessionAfterLogout
  BY <1>1 DEF SessionInit, SessionAfterLogout
<1>6. QED
  BY <1>3, <1>4, <1>5 DEF SessionInv

\* A new token in the row belongs to the epoch it is given, and that epoch is
\* the current one unless the row was written over.
LEMMA NewToken ==
    ASSUME SessionInv, NEW d \in Devices, NEW since \in 0..MaxEpochs,
           CreateRefreshToken(d, since), NEW r \in User, row' = r, r.session = issued + 1,
           request' \in [Devices -> [op : Ops, read : User]],
           \A e \in Devices : Op(e, "refresh")' => e # d /\ Op(e, "refresh"),
           epoch' = epoch, raced' \in BOOLEAN, since = epoch \/ raced'
    PROVE  SessionInv'
<1> USE DEF SessionInv
<1>1. /\ issued' = issued + 1 /\ issued < MaxTokens /\ issued \in 0..MaxTokens
      /\ opened' = [opened EXCEPT ![issued + 1] = since]
      /\ held' = [held EXCEPT ![d] = issued + 1]
  BY DEF CreateRefreshToken, SessionTypeOK
<1>2. SessionTypeOK'
  BY <1>1, BoundsAssumption DEF SessionTypeOK
<1>3. RefreshHasToken'
  BY <1>1 DEF RefreshHasToken, SessionTypeOK
<1>4. opened'[row'.session] = since
  BY <1>1, BoundsAssumption DEF SessionTypeOK
<1>5. SessionAfterLogout'
  BY <1>4 DEF SessionAfterLogout
<1>6. QED
  BY <1>2, <1>3, <1>5

\* A step that changes neither the token of the row nor the history.
LEMMA SameSession ==
    ASSUME SessionInv, row' \in User, row'.session = row.session,
           request' \in [Devices -> [op : Ops, read : User]],
           held' \in [Devices -> 0..MaxTokens],
           \A d \in Devices : Op(d, "refresh")' => held'[d] # 0,
           UNCHANGED <<issued, opened, epoch, raced>>
    PROVE  SessionInv'
<1>1. SessionTypeOK'
  BY DEF SessionInv, SessionTypeOK
<1>2. RefreshHasToken'
  BY DEF RefreshHasToken
<1>3. SessionAfterLogout'
  BY DEF SessionInv, SessionAfterLogout
<1>4. QED
  BY <1>1, <1>2, <1>3 DEF SessionInv

\* A request that begins, and one that is done.
LEMMA BecomesTypes ==
    ASSUME SessionInv, NEW d \in Devices, NEW op \in Ops, Becomes(d, op)
    PROVE  /\ request' \in [Devices -> [op : Ops, read : User]]
           /\ \A e \in Devices : Op(e, "refresh")' =>
                 IF e = d THEN op = "refresh" ELSE Op(e, "refresh")
BY DEF SessionInv, SessionTypeOK, Becomes, Op

LEMMA DoneTypes ==
    ASSUME SessionInv, NEW d \in Devices, Done(d)
    PROVE  /\ request' \in [Devices -> [op : Ops, read : User]]
           /\ \A e \in Devices : Op(e, "refresh")' => e # d /\ Op(e, "refresh")
<1>1. Idle \in [op : Ops, read : User] /\ Idle.op # "refresh"
  BY BoundsAssumption DEF Idle, NoUser, Ops, User
<1>2. QED
  BY <1>1 DEF SessionInv, SessionTypeOK, Done, Op

LEMMA BeginKeeps ==
    ASSUME SessionInv, NEW d \in Devices, NEW op \in Ops, Begin(d, op),
           op = "refresh" => held[d] # 0
    PROVE  SessionInv'
<1>1. Becomes(d, op) /\ UNCHANGED <<row, held, issued, opened, epoch, raced>>
  BY DEF Begin
<1>2. /\ request' \in [Devices -> [op : Ops, read : User]]
      /\ \A e \in Devices : Op(e, "refresh")' =>
            IF e = d THEN op = "refresh" ELSE Op(e, "refresh")
  BY <1>1, BecomesTypes
<1>3. /\ row' \in User /\ row'.session = row.session /\ held' \in [Devices -> 0..MaxTokens]
      /\ \A e \in Devices : Op(e, "refresh")' => held'[e] # 0
  BY <1>1, <1>2 DEF SessionInv, SessionTypeOK, RefreshHasToken
<1>4. QED
  BY <1>1, <1>2, <1>3, SameSession

\* A request that ends and writes another column, or nothing.
LEMMA DoneKeeps ==
    ASSUME SessionInv, NEW d \in Devices, Done(d), row' \in User, row'.session = row.session,
           UNCHANGED <<held, issued, opened, epoch, raced>>
    PROVE  SessionInv'
<1>1. /\ request' \in [Devices -> [op : Ops, read : User]]
      /\ \A e \in Devices : Op(e, "refresh")' => Op(e, "refresh")
  BY DoneTypes
<1>2. held' \in [Devices -> 0..MaxTokens] /\ \A e \in Devices : Op(e, "refresh")' => held'[e] # 0
  BY <1>1 DEF SessionInv, SessionTypeOK, RefreshHasToken
<1>3. QED
  BY <1>1, <1>2, SameSession

\* A logout or a reset that wrote over nothing leaves no session.
LEMMA EndsClears ==
    ASSUME SessionInv, NEW d \in Devices, Ends(d), Done(d), row' \in User,
           row'.session = Cleared(d), UNCHANGED <<issued, opened>>,
           held' \in [Devices -> 0..MaxTokens],
           \A e \in Devices \ {d} : held'[e] = held[e]
    PROVE  SessionInv'
<1>1. /\ request' \in [Devices -> [op : Ops, read : User]]
      /\ \A e \in Devices : Op(e, "refresh")' => e # d /\ Op(e, "refresh")
  BY DoneTypes
<1>2. SessionTypeOK'
  BY <1>1, BoundsAssumption DEF Ends, Stale, SessionInv, SessionTypeOK
<1>3. RefreshHasToken'
  BY <1>1 DEF SessionInv, RefreshHasToken
<1>4. SessionAfterLogout'
  BY DEF Ends, Stale, Cleared, SessionAfterLogout
<1>5. QED
  BY <1>2, <1>3, <1>4 DEF SessionInv

LEMMA SessionStep == SessionInv /\ [SessionNext]_sessionVars => SessionInv'
<1> SUFFICES ASSUME SessionInv, [SessionNext]_sessionVars PROVE SessionInv'
  OBVIOUS
<1>0. /\ row \in User /\ issued \in Nat /\ held \in [Devices -> 0..MaxTokens]
      /\ epoch \in 0..MaxEpochs /\ raced \in BOOLEAN
  BY DEF SessionInv, SessionTypeOK
<1> SUFFICES ASSUME NEW d \in Devices,
                    \/ StartRegister(d) \/ Register(d) \/ StartLogin(d) \/ Login(d) \/ Provision(d)
                    \/ StartOauth(d) \/ OauthLogin(d)
                    \/ StartRefresh(d) \/ Refresh(d) \/ RefreshRefused(d) \/ ResponseLost(d)
                    \/ \E op \in {"logout", "change"} : StartSignedIn(d, op)
                    \/ \E op \in {"reset", "verify"} : StartFromMail(d, op)
                    \/ Logout(d) \/ ResetPassword(d) \/ ChangePassword(d) \/ VerifyEmail(d)
             PROVE  SessionInv'
  <2>1. CASE UNCHANGED sessionVars
    BY <2>1 DEF sessionVars, SessionInv, SessionTypeOK, RefreshHasToken, Op, SessionAfterLogout
  <2>2. QED
    BY <2>1 DEF SessionNext
<1>1. CASE StartRegister(d) \/ StartLogin(d) \/ StartOauth(d) \/ StartRefresh(d)
           \/ (\E op \in {"logout", "change"} : StartSignedIn(d, op))
           \/ (\E op \in {"reset", "verify"} : StartFromMail(d, op))
  <2>1. PICK op \in Ops : Begin(d, op) /\ (op = "refresh" => held[d] # 0)
    BY <1>1 DEF StartRegister, StartLogin, StartOauth, StartRefresh, StartSignedIn,
                StartFromMail, Ops
  <2>2. QED
    BY <2>1, BeginKeeps
<1>2. CASE Register(d)
  <2>1. CASE row.account
    BY <1>0, <1>2, <2>1, DoneKeeps DEF Register
  <2>2. CASE ~ row.account
    <3>1. /\ row' = [row EXCEPT !.account = TRUE]
          /\ request' = [request EXCEPT ![d] = [op |-> "firstlogin", read |-> row']]
          /\ UNCHANGED <<held, issued, opened, epoch, raced>>
      BY <1>2, <2>2 DEF Register
    <3>2. row' \in User /\ row'.session = row.session
      BY <1>0, <3>1 DEF User
    <3>3. /\ request' \in [Devices -> [op : Ops, read : User]]
          /\ \A e \in Devices : Op(e, "refresh")' => Op(e, "refresh")
      BY <3>1, <3>2 DEF SessionInv, SessionTypeOK, Op, Ops
    <3>4. held' \in [Devices -> 0..MaxTokens] /\ \A e \in Devices : Op(e, "refresh")' => held'[e] # 0
      BY <3>1, <3>3 DEF SessionInv, SessionTypeOK, RefreshHasToken
    <3>5. QED
      BY <3>1, <3>2, <3>3, <3>4, SameSession
  <2>3. QED
    BY <2>1, <2>2
<1>3. CASE Login(d)
  <2>1. /\ CreateRefreshToken(d, epoch) /\ row' = [row EXCEPT !.session = issued + 1]
        /\ UNCHANGED <<epoch, raced>> /\ issued + 1 \in 0..MaxTokens
    BY <1>0, <1>3, BoundsAssumption DEF Login, CreateRefreshToken
  <2>2. row' \in User /\ row'.session = issued + 1
    BY <1>0, <2>1 DEF User
  <2>3. /\ request' \in [Devices -> [op : Ops, read : User]]
        /\ \A e \in Devices : Op(e, "refresh")' => e # d /\ Op(e, "refresh")
    <3>1. CASE Op(d, "firstlogin")
      <4>1. request' = [request EXCEPT ![d] = [op |-> "provision", read |-> row']]
        BY <1>3, <3>1 DEF Login
      <4>2. [op |-> "provision", read |-> row'] \in [op : Ops, read : User]
        BY <2>2 DEF Ops
      <4>3. QED
        BY <4>1, <4>2 DEF SessionInv, SessionTypeOK, Op
    <3>2. CASE ~ Op(d, "firstlogin")
      BY <1>3, <3>2, DoneTypes DEF Login
    <3>3. QED
      BY <3>1, <3>2
  <2>4. QED
    BY <1>0, <2>1, <2>2, <2>3, NewToken
<1>4. CASE Provision(d)
  <2>1. row' \in User /\ row'.session = row.session
    BY <1>0, <1>4 DEF Provision, User
  <2>2. QED
    BY <1>4, <2>1, DoneKeeps DEF Provision
<1>5. CASE OauthLogin(d)
  <2>1. CASE ~ Read(d).account /\ row.account
    BY <1>0, <1>5, <2>1, DoneKeeps DEF OauthLogin
  <2>2. CASE ~ (~ Read(d).account /\ row.account)
    <3>1. PICK plan \in {row.plan, row.plan \/ ~ Read(d).account} :
             row' = [row EXCEPT !.account = TRUE, !.session = issued + 1, !.plan = plan,
                                !.verified = @ \/ ~ Read(d).account]
      BY <1>5, <2>2 DEF OauthLogin
    <3>2. /\ CreateRefreshToken(d, epoch) /\ Done(d) /\ UNCHANGED <<epoch, raced>>
          /\ issued + 1 \in 0..MaxTokens
      BY <1>0, <1>5, <2>2, BoundsAssumption DEF OauthLogin, CreateRefreshToken
    <3>3. row' \in User /\ row'.session = issued + 1
      BY <1>0, <3>1, <3>2 DEF User
    <3>4. /\ request' \in [Devices -> [op : Ops, read : User]]
          /\ \A e \in Devices : Op(e, "refresh")' => e # d /\ Op(e, "refresh")
      BY <3>2, DoneTypes
    <3>5. QED
      BY <1>0, <3>2, <3>3, <3>4, NewToken
  <2>3. QED
    BY <2>1, <2>2
<1>6. CASE Refresh(d)
  <2>1. /\ held[d] # 0 /\ Read(d).session = held[d]
        /\ CreateRefreshToken(d, opened[held[d]]) /\ row' = [row EXCEPT !.session = issued + 1]
        /\ raced' = (raced \/ Stale(d)) /\ Done(d) /\ epoch' = epoch
        /\ issued + 1 \in 0..MaxTokens
    BY <1>0, <1>6, BoundsAssumption
       DEF Refresh, SessionInv, RefreshHasToken, CreateRefreshToken
  <2>2. row' \in User /\ row'.session = issued + 1
    BY <1>0, <2>1 DEF User
  <2>3. opened[held[d]] \in 0..MaxEpochs
    BY <2>1 DEF SessionInv, SessionTypeOK
  <2>4. opened[held[d]] = epoch \/ raced'
    BY <2>1 DEF Stale, SessionInv, SessionAfterLogout
  <2>5. /\ request' \in [Devices -> [op : Ops, read : User]]
        /\ \A e \in Devices : Op(e, "refresh")' => e # d /\ Op(e, "refresh")
    BY <2>1, DoneTypes
  <2>6. raced' \in BOOLEAN
    BY <2>1 DEF Stale
  <2>7. QED
    BY <2>1, <2>2, <2>3, <2>4, <2>5, <2>6, NewToken
<1>7. CASE RefreshRefused(d)
  <2>1. /\ held' = [held EXCEPT ![d] = 0] /\ Done(d) /\ UNCHANGED <<row, issued, opened, epoch, raced>>
    BY <1>7 DEF RefreshRefused
  <2>2. /\ request' \in [Devices -> [op : Ops, read : User]]
        /\ \A e \in Devices : Op(e, "refresh")' => e # d /\ Op(e, "refresh")
    BY <2>1, DoneTypes
  <2>3. held' \in [Devices -> 0..MaxTokens] /\ \A e \in Devices : Op(e, "refresh")' => held'[e] # 0
    BY <1>0, <2>1, <2>2, BoundsAssumption DEF SessionInv, RefreshHasToken
  <2>4. QED
    BY <1>0, <2>1, <2>2, <2>3, SameSession
<1>8. CASE ResponseLost(d)
  <2>1. /\ held' = [held EXCEPT ![d] = 0] /\ Op(d, "idle")
        /\ UNCHANGED <<row, request, issued, opened, epoch, raced>>
    BY <1>8 DEF ResponseLost
  <2>2. request' \in [Devices -> [op : Ops, read : User]] /\ held' \in [Devices -> 0..MaxTokens]
    BY <1>0, <2>1, BoundsAssumption DEF SessionInv, SessionTypeOK
  <2>3. \A e \in Devices : Op(e, "refresh")' => held'[e] # 0
    BY <1>0, <2>1 DEF SessionInv, RefreshHasToken, Op
  <2>4. QED
    BY <1>0, <2>1, <2>2, <2>3, SameSession
<1>9. CASE Logout(d)
  <2>1. /\ Ends(d) /\ row' = [row EXCEPT !.session = Cleared(d)] /\ Done(d)
        /\ held' = [held EXCEPT ![d] = 0] /\ UNCHANGED <<issued, opened>>
    BY <1>9 DEF Logout
  <2>2. row' \in User /\ row'.session = Cleared(d)
    BY <1>0, <2>1, BoundsAssumption DEF User, Cleared
  <2>3. held' \in [Devices -> 0..MaxTokens] /\ \A e \in Devices \ {d} : held'[e] = held[e]
    BY <1>0, <2>1, BoundsAssumption
  <2>4. QED
    BY <2>1, <2>2, <2>3, EndsClears
<1>10. CASE ResetPassword(d)
  <2>1. PICK p \in {"first", "second"} : row' = [row EXCEPT !.password = p, !.session = Cleared(d)]
    BY <1>10 DEF ResetPassword
  <2>2. Cleared(d) \in 0..MaxTokens
    BY <1>0, BoundsAssumption DEF User, Cleared
  <2>3. row' \in User /\ row'.session = Cleared(d)
    BY <1>0, <2>1, <2>2, ZenonT(60) DEF User
  <2>4. QED
    BY <1>0, <1>10, <2>3, EndsClears DEF ResetPassword
<1>11. CASE ChangePassword(d)
  <2>1. row' \in User /\ row'.session = row.session
    BY <1>0, <1>11 DEF ChangePassword, User
  <2>2. QED
    BY <1>11, <2>1, DoneKeeps DEF ChangePassword
<1>12. CASE VerifyEmail(d)
  <2>1. row' \in User /\ row'.session = row.session
    BY <1>0, <1>12 DEF VerifyEmail, User
  <2>2. QED
    BY <1>12, <2>1, DoneKeeps DEF VerifyEmail
<1>13. QED
  BY <1>1, <1>2, <1>3, <1>4, <1>5, <1>6, <1>7, <1>8, <1>9, <1>10, <1>11, <1>12

\* Whatever chain of rotations it comes from, the session of the row was opened
\* after the last logout or reset, unless a write went over an unread change: for
\* any number of devices, tokens and logouts.
THEOREM NoSessionOutlivesLogout == SessionSpec => []SessionAfterLogout
<1>1. SessionInv => SessionAfterLogout
  BY DEF SessionInv
<1>2. QED
  BY <1>1, SessionInitInv, SessionStep, PTL DEF SessionSpec

-----------------------------------------------------------------------------
(* The wipe.                                                               *)

\* A transaction that no statement has failed in has emptied every table before
\* the next one.
WipeInv ==
  /\ rows \subseteq Tables
  /\ txn \in [next : Nat, gone : SUBSET Tables, aborted : BOOLEAN]
  /\ txn.next # 0 /\ ~ txn.aborted => txn.gone = {t \in Tables : t < txn.next}

LEMMA WipeStep == WipeInv /\ [WipeNext]_wipeVars =>
                    WipeInv' /\ (rows \subseteq rows' \/ rows' = {})
<1> SUFFICES ASSUME WipeInv, [WipeNext]_wipeVars
             PROVE  WipeInv' /\ (rows \subseteq rows' \/ rows' = {})
  OBVIOUS
<1>0. PICK n \in Nat : Tables = 1..n
  <2>1. Cardinality(Tables) \in Nat
    BY FS_CardinalityType, TablesAssumption
  <2>2. QED
    BY <2>1, TablesAssumption
<1>1. CASE StartWipe
  BY <1>0, <1>1 DEF StartWipe, WipeInv
<1>2. CASE DeleteTable
  <2>1. txn.next \in Tables /\ rows' = rows /\ txn.next \in Nat
    BY <1>2 DEF DeleteTable, WipeInv
  <2>2. CASE ~ txn.aborted /\ txn' = [txn EXCEPT !.next = @ + 1, !.gone = @ \cup {txn.next}]
    <3>1. txn'.next = txn.next + 1 /\ txn'.gone = txn.gone \cup {txn.next} /\ txn'.aborted = txn.aborted
      BY <2>2 DEF WipeInv
    <3>2. txn.gone = {t \in Tables : t < txn.next}
      BY <1>0, <2>1, <2>2 DEF WipeInv
    <3>3. txn.gone \cup {txn.next} = {t \in Tables : t < txn.next + 1}
      BY <1>0, <2>1, <3>2
    <3>4. txn' \in [next : Nat, gone : SUBSET Tables, aborted : BOOLEAN]
      BY <2>1, <2>2, txn.next + 1 \in Nat, txn.gone \cup {txn.next} \in SUBSET Tables DEF WipeInv
    <3>5. QED
      BY <2>1, <3>1, <3>3, <3>4 DEF WipeInv
  <2>3. CASE txn' = [txn EXCEPT !.next = @ + 1, !.aborted = TRUE]
    <3>1. txn'.next = txn.next + 1 /\ txn'.aborted
      BY <2>3 DEF WipeInv
    <3>2. txn' \in [next : Nat, gone : SUBSET Tables, aborted : BOOLEAN]
      BY <2>1, <2>3, txn.next + 1 \in Nat DEF WipeInv
    <3>3. QED
      BY <2>1, <3>1, <3>2 DEF WipeInv
  <2>4. QED
    BY <1>2, <2>2, <2>3 DEF DeleteTable
<1>3. CASE CommitWipe
  <2>1. Cardinality(Tables) = n
    BY <1>0, FS_Interval
  <2>2. txn' = [next |-> 0, gone |-> {}, aborted |-> FALSE] /\ txn.next = n + 1
        /\ rows' = IF txn.aborted THEN rows ELSE rows \ txn.gone
    BY <1>3, <2>1 DEF CommitWipe
  <2>3. ~ txn.aborted => txn.gone = Tables
    <3>1. txn.next = n + 1 /\ n + 1 # 0
      BY <1>0, <2>2
    <3>2. ~ txn.aborted => txn.gone = {t \in Tables : t < n + 1}
      BY <3>1 DEF WipeInv
    <3>3. {t \in Tables : t < n + 1} = Tables
      BY <1>0
    <3>4. QED
      BY <3>2, <3>3
  <2>4. QED
    BY <2>2, <2>3 DEF WipeInv
<1>4. CASE WipeCrash
  BY <1>4 DEF WipeCrash, WipeInv
<1>5. CASE UserWorks
  BY <1>5 DEF UserWorks, WipeInv
<1>6. CASE UNCHANGED wipeVars
  BY <1>6 DEF wipeVars, WipeInv
<1>7. QED
  BY <1>1, <1>2, <1>3, <1>4, <1>5, <1>6 DEF WipeNext

\* A wipe takes every row of the user or none, for any number of tables and
\* wherever it fails.
THEOREM WipeIsAtomic == WipeSpec => WipeIsAllOrNothing
<1>1. WipeInit => WipeInv
  BY DEF WipeInit, WipeInv
<1>2. WipeInv /\ [WipeNext]_wipeVars => WipeInv' /\ [rows \subseteq rows' \/ rows' = {}]_wipeVars
  BY WipeStep
<1>3. QED
  BY <1>1, <1>2, PTL DEF WipeSpec, WipeIsAllOrNothing

-----------------------------------------------------------------------------
(* The mailbox.                                                            *)

\* Whoever is between the read of the row and its write has read what the row
\* still says of the mailbox and its refresh token, unless it was crossed; from
\* its lock on a sync holds the row, and it fetches with tokens it can renew.
SyncsReadTrue ==
  \A s \in Syncs : sync[s].at \in {"read", "locked", "fetched"} =>
    s \in crossed \/ (account.active /\ account.refresh = sync[s].read.refresh)

EditsReadTrue ==
  \A r \in Edits : edits[r].at # None =>
    r \in crossed \/ (edits[r].active = account.active /\ edits[r].refresh = account.refresh)

LockIsHeld == \A s \in Syncs : sync[s].at \in {"locked", "fetched"} => locked = s

FetchedWithTokens == \A s \in Syncs : sync[s].at = "fetched" /\ NeedsToken(s) => sync[s].read.refresh

SyncState == [at : {None, "queued", "read", "locked", "fetched"}, read : Account \cup {None},
              rows : SUBSET Messages, tries : Nat]
EditState == [at : {None, "connect", "disconnect"}, active : BOOLEAN, refresh : BOOLEAN]

TokenInv ==
  /\ account \in Account /\ sync \in [Syncs -> SyncState] /\ edits \in [Edits -> EditState]
  /\ overtaken \in BOOLEAN
  /\ SyncsReadTrue /\ EditsReadTrue /\ LockIsHeld /\ FetchedWithTokens /\ LiveTokensNeedARace

LEMMA TokenInitInv == MailInit => TokenInv
<1> SUFFICES ASSUME MailInit PROVE TokenInv
  OBVIOUS
<1>1. PICK p \in {"gmail", "outlook"} :
         account = [active |-> FALSE, provider |-> p, access |-> None, expired |-> FALSE, refresh |-> FALSE]
  BY DEF MailInit
<1>2. account \in Account
  BY <1>1 DEF Account, None
<1>3. /\ SyncResting \in SyncState /\ SyncResting.at = None
      /\ EditResting \in EditState /\ EditResting.at = None
  BY DEF SyncResting, SyncState, EditResting, EditState, None
<1>4. /\ sync = [s \in Syncs |-> SyncResting] /\ edits = [r \in Edits |-> EditResting]
      /\ overtaken = FALSE
  BY DEF MailInit
<1>5. LiveTokensNeedARace
  BY <1>1 DEF LiveTokensNeedARace, None
<1>6. QED
  BY <1>2, <1>3, <1>4, <1>5
     DEF TokenInv, SyncsReadTrue, EditsReadTrue, LockIsHeld, FetchedWithTokens, None

\* The syncs other than s, and s itself unless it stays between its read and its end, as they were.
OthersRest(s) ==
  /\ sync' \in [Syncs -> SyncState] /\ sync'[s].at \notin {"read", "locked", "fetched"}
  /\ \A q \in Syncs \ {s} : sync'[q] = sync[q]

\* What becomes of a sync whose execution ends, retried or not.
LEMMA EndedSync ==
    ASSUME TokenInv, NEW s \in Syncs,
           \/ sync' = Retried(sync, s, SyncResting)
           \/ sync' = [sync EXCEPT ![s] = SyncResting]
    PROVE  OthersRest(s)
<1>1. SyncResting \in SyncState /\ SyncResting.at = None
  BY DEF SyncResting, SyncState, None
<1>2. /\ [SyncResting EXCEPT !.at = "queued", !.tries = sync[s].tries] \in SyncState
      /\ [SyncResting EXCEPT !.at = "queued", !.tries = sync[s].tries].at = "queued"
  BY <1>1 DEF TokenInv, SyncState
<1>3. PICK e \in SyncState : sync' = [sync EXCEPT ![s] = e] /\ e.at \in {None, "queued"}
  BY <1>1, <1>2 DEF Retried
<1>4. QED
  BY <1>3 DEF TokenInv, OthersRest, None

\* A sync that ends without new tokens leaves the mailbox as it was, and so
\* does one that renews them, unless it was crossed.
LEMMA EndedTokens ==
    ASSUME TokenInv, NEW s \in Syncs, sync[s].at \in {"locked", "fetched"},
           OthersRest(s), edits' = edits, locked' = None,
           NotRenewed \/ (NeedsToken(s) /\ sync[s].read.refresh /\ Renewed(s))
    PROVE  TokenInv'
<1>0. /\ account \in Account /\ sync \in [Syncs -> SyncState] /\ edits \in [Edits -> EditState]
      /\ overtaken \in BOOLEAN
      /\ SyncsReadTrue /\ EditsReadTrue /\ LockIsHeld /\ FetchedWithTokens /\ LiveTokensNeedARace
  BY DEF TokenInv
<1>1. /\ sync' \in [Syncs -> SyncState] /\ sync'[s].at \notin {"read", "locked", "fetched"}
      /\ \A q \in Syncs \ {s} : sync'[q] = sync[q]
  BY DEF OthersRest
<1>2. \A q \in Syncs : q # s => sync[q].at \notin {"locked", "fetched"}
  BY <1>0 DEF LockIsHeld
<1>3. LockIsHeld' /\ FetchedWithTokens'
  BY <1>1, <1>2 DEF LockIsHeld, FetchedWithTokens
<1>4. CASE NotRenewed
  <2>1. UNCHANGED <<account, crossed, overtaken>>
    BY <1>4 DEF NotRenewed
  <2>2. QED
    BY <1>0, <1>1, <1>3, <2>1
       DEF TokenInv, SyncsReadTrue, EditsReadTrue, LiveTokensNeedARace
<1>5. ASSUME sync[s].read.refresh, Renewed(s) PROVE TokenInv'
  <2>1. /\ account' = [account EXCEPT !.access = "issued", !.expired = FALSE, !.refresh = TRUE]
        /\ overtaken' = (overtaken \/ s \in crossed)
        /\ crossed' = IF s \in crossed THEN crossed \cup Readers ELSE crossed
    BY <1>5 DEF Renewed, Refreshed
  <2>2. /\ account' \in Account /\ account'.active = account.active /\ account'.refresh
        /\ overtaken' \in BOOLEAN
    BY <1>0, <2>1 DEF Account
  <2>3. CASE s \in crossed
    <3>1. overtaken' /\ crossed' = crossed \cup Readers
      BY <2>1, <2>3
    <3>2. SyncsReadTrue'
      BY <1>1, <1>2, <3>1 DEF SyncsReadTrue, Readers
    <3>3. EditsReadTrue'
      BY <3>1 DEF EditsReadTrue, Readers
    <3>4. QED
      BY <1>0, <1>1, <1>3, <2>2, <3>1, <3>2, <3>3 DEF TokenInv, LiveTokensNeedARace
  <2>4. CASE s \notin crossed
    <3>1. account.active /\ account.refresh = sync[s].read.refresh
      BY <1>0, <2>4 DEF SyncsReadTrue
    <3>2. account'.active = account.active /\ account'.refresh = account.refresh /\ account'.active
      BY <1>0, <1>5, <2>2, <3>1 DEF Account
    <3>3. crossed' = crossed
      BY <2>1, <2>4
    <3>4. SyncsReadTrue' /\ EditsReadTrue' /\ LiveTokensNeedARace'
      BY <1>0, <1>1, <3>2, <3>3 DEF SyncsReadTrue, EditsReadTrue, LiveTokensNeedARace
    <3>5. QED
      BY <1>0, <1>1, <1>3, <2>2, <3>4 DEF TokenInv
  <2>5. QED
    BY <2>3, <2>4
<1>6. QED
  BY <1>4, <1>5

\* A request that writes the row: whoever else has read it is crossed.
LEMMA EditedRow ==
    ASSUME TokenInv, NEW r \in Edits, EditWritten(r), locked' = locked,
           account' \in Account, LiveTokensNeedARace', sync' \in [Syncs -> SyncState],
           \A s \in Syncs : sync'[s].at \in {"read", "locked", "fetched"} => sync'[s] = sync[s]
    PROVE  TokenInv'
<1>0. /\ sync \in [Syncs -> SyncState] /\ edits \in [Edits -> EditState]
      /\ LockIsHeld /\ FetchedWithTokens
  BY DEF TokenInv
<1>1. /\ locked = None /\ edits' = [edits EXCEPT ![r] = EditResting]
      /\ overtaken' = (r \in crossed) /\ crossed' = (crossed \cup Readers) \ {r}
  BY DEF EditWritten
<1>2. \A s \in Syncs : sync[s].at \notin {"locked", "fetched"}
  BY <1>0, <1>1, SyncsAssumption DEF LockIsHeld
<1>3. LockIsHeld' /\ FetchedWithTokens'
  BY <1>2 DEF LockIsHeld, FetchedWithTokens
<1>4. SyncsReadTrue'
  BY <1>1, <1>2, SyncsAssumption DEF SyncsReadTrue, Readers
<1>5. EditResting \in EditState /\ EditResting.at = None
  BY DEF EditResting, EditState
<1>6. EditsReadTrue' /\ edits' \in [Edits -> EditState]
  BY <1>0, <1>1, <1>5 DEF EditsReadTrue, Readers
<1>7. QED
  BY <1>1, <1>3, <1>4, <1>6 DEF TokenInv

\* A request or a sync that reads the row is true to it.
LEMMA ReadRow ==
    ASSUME TokenInv, NEW r \in Edits, NEW what \in {"connect", "disconnect"}, EditRead(r, what)
    PROVE  TokenInv'
<1>0. /\ account \in Account /\ sync \in [Syncs -> SyncState] /\ edits \in [Edits -> EditState]
      /\ SyncsReadTrue /\ EditsReadTrue
  BY DEF TokenInv
<1> DEFINE e == [at |-> what, active |-> account.active, refresh |-> account.refresh]
<1>1. /\ edits' = [edits EXCEPT ![r] = e] /\ crossed' = crossed \ {r}
      /\ UNCHANGED <<account, sync, locked, overtaken>>
  BY DEF EditRead
<1>2. e \in EditState /\ e.active = account.active /\ e.refresh = account.refresh
  BY <1>0 DEF EditState, Account
<1> HIDE DEF e
<1>3. edits' \in [Edits -> EditState] /\ EditsReadTrue'
  BY <1>0, <1>1, <1>2 DEF EditsReadTrue
<1>4. SyncsReadTrue'
  BY <1>0, <1>1, SyncsAssumption DEF SyncsReadTrue
<1>5. QED
  BY <1>1, <1>3, <1>4 DEF TokenInv, LockIsHeld, FetchedWithTokens, NeedsToken, LiveTokensNeedARace

LEMMA TokenStep == TokenInv /\ [MailNext]_mailVars => TokenInv'
<1> SUFFICES ASSUME TokenInv, [MailNext]_mailVars PROVE TokenInv'
  OBVIOUS
<1>0. /\ account \in Account /\ sync \in [Syncs -> SyncState] /\ edits \in [Edits -> EditState]
      /\ overtaken \in BOOLEAN
      /\ SyncsReadTrue /\ EditsReadTrue /\ LockIsHeld /\ FetchedWithTokens /\ LiveTokensNeedARace
  BY DEF TokenInv
<1>1. ASSUME NEW r \in Edits, ConnectRead(r) \/ DisconnectRead(r) PROVE TokenInv'
  BY <1>1, ReadRow DEF ConnectRead, DisconnectRead
<1>2. ASSUME NEW r \in Edits, ConnectWrite(r) PROVE TokenInv'
  <2>1. PICK refresh \in BOOLEAN :
           account' = [account EXCEPT !.active = @ \/ ~edits[r].active, !.access = "issued",
                                      !.expired = FALSE, !.refresh = @ \/ refresh]
    BY <1>2 DEF ConnectWrite
  <2>2. /\ account' \in Account /\ account'.active = (account.active \/ ~edits[r].active)
    BY <1>0, <2>1 DEF Account
  <2>3. /\ edits[r].at = "connect" /\ locked' = locked /\ EditWritten(r)
    BY <1>2 DEF ConnectWrite
  <2>4. overtaken' = (r \in crossed)
    BY <2>3 DEF EditWritten
  <2>5. r \in crossed \/ edits[r].active = account.active
    BY <1>0, <2>3 DEF EditsReadTrue, None
  <2>6. LiveTokensNeedARace'
    BY <1>0, <2>2, <2>4, <2>5 DEF LiveTokensNeedARace, Account, EditState
  <2>7. sync' = sync \/ \E s \in Syncs : sync' = [sync EXCEPT ![s].at = "queued"]
    BY <1>2 DEF ConnectWrite, Queued
  <2>8. /\ sync' \in [Syncs -> SyncState]
        /\ \A s \in Syncs : sync'[s].at \in {"read", "locked", "fetched"} => sync'[s] = sync[s]
    BY <1>0, <2>7 DEF SyncState
  <2>9. QED
    BY <2>2, <2>3, <2>6, <2>8, EditedRow
<1>3. ASSUME NEW r \in Edits, DisconnectWrite(r) PROVE TokenInv'
  <2>1. /\ account' = Revoked(edits[r]) /\ sync' = sync
        /\ edits[r].at = "disconnect" /\ locked' = locked /\ EditWritten(r)
    BY <1>3 DEF DisconnectWrite
  <2>2. /\ account' \in Account /\ account'.access = "revoked"
        /\ account'.refresh = (account.refresh /\ ~edits[r].refresh)
    BY <1>0, <2>1 DEF Account, Revoked
  <2>3. overtaken' = (r \in crossed)
    BY <2>1 DEF EditWritten
  <2>4. r \in crossed \/ edits[r].refresh = account.refresh
    BY <1>0, <2>1 DEF EditsReadTrue, None
  <2>5. LiveTokensNeedARace'
    BY <1>0, <2>2, <2>3, <2>4 DEF LiveTokensNeedARace, Account, EditState
  <2>6. QED
    BY <1>0, <2>1, <2>2, <2>5, EditedRow
<1>4. CASE TokenExpires
  <2>1. /\ account' = [account EXCEPT !.expired = TRUE]
        /\ UNCHANGED <<edits, sync, locked, crossed, overtaken>>
    BY <1>4 DEF TokenExpires
  <2>2. /\ account' \in Account /\ account'.active = account.active
        /\ account'.refresh = account.refresh /\ account'.access = account.access
    BY <1>0, <2>1 DEF Account
  <2>3. QED
    BY <1>0, <2>1, <2>2 DEF TokenInv, SyncsReadTrue, EditsReadTrue, LockIsHeld, FetchedWithTokens,
                            NeedsToken, LiveTokensNeedARace
<1>5. CASE StartSync
  <2>1. PICK s \in Syncs : sync' = [sync EXCEPT ![s].at = "queued"]
    BY <1>5 DEF StartSync, Queued
  <2>2. /\ sync' \in [Syncs -> SyncState]
        /\ \A q \in Syncs : sync'[q].at \in {"read", "locked", "fetched"} => sync'[q] = sync[q]
    BY <1>0, <2>1 DEF SyncState
  <2>3. UNCHANGED <<account, edits, locked, crossed, overtaken>>
    BY <1>5 DEF StartSync
  <2>4. QED
    BY <1>0, <2>2, <2>3 DEF TokenInv, SyncsReadTrue, EditsReadTrue, LockIsHeld, FetchedWithTokens,
                            NeedsToken, LiveTokensNeedARace
<1>6. ASSUME NEW s \in Syncs, SyncRead(s) PROVE TokenInv'
  <2>1. UNCHANGED <<account, edits, locked, overtaken>> /\ crossed' = crossed \ {s}
    BY <1>6 DEF SyncRead
  <2>2. EditsReadTrue'
    BY <1>0, <2>1, SyncsAssumption DEF EditsReadTrue
  <2>3. CASE account.active
    <3> DEFINE e == [at |-> "read", read |-> account, rows |-> {}, tries |-> sync[s].tries + 1]
    <3>1. sync' = [sync EXCEPT ![s] = e]
      BY <1>6, <2>3 DEF SyncRead
    <3>2. sync[s].tries \in Nat
      BY <1>0 DEF SyncState
    <3>3. e \in SyncState /\ e.at = "read" /\ e.read = account
      BY <1>0, <3>2 DEF SyncState
    <3> HIDE DEF e
    <3>4. /\ sync' \in [Syncs -> SyncState] /\ sync'[s].at = "read" /\ sync'[s].read = account
          /\ \A q \in Syncs \ {s} : sync'[q] = sync[q]
      BY <1>0, <3>1, <3>3
    <3>5. SyncsReadTrue'
      BY <1>0, <2>1, <2>3, <3>4 DEF SyncsReadTrue
    <3>6. LockIsHeld' /\ FetchedWithTokens' /\ LiveTokensNeedARace'
      BY <1>0, <2>1, <3>4 DEF LockIsHeld, FetchedWithTokens, NeedsToken, LiveTokensNeedARace
    <3>7. QED
      BY <1>0, <2>1, <2>2, <3>4, <3>5, <3>6 DEF TokenInv
  <2>4. CASE ~ account.active
    <3>1. sync' = [sync EXCEPT ![s] = SyncResting]
      BY <1>6, <2>4 DEF SyncRead
    <3>2. OthersRest(s)
      BY <3>1, EndedSync
    <3>3. SyncsReadTrue' /\ LockIsHeld' /\ FetchedWithTokens' /\ LiveTokensNeedARace'
      BY <1>0, <2>1, <3>2 DEF OthersRest, SyncsReadTrue, LockIsHeld, FetchedWithTokens, NeedsToken,
                              LiveTokensNeedARace
    <3>4. QED
      BY <1>0, <2>1, <2>2, <3>2, <3>3 DEF OthersRest, TokenInv
  <2>5. QED
    BY <2>3, <2>4
<1>7. ASSUME NEW s \in Syncs, SyncLock(s) PROVE TokenInv'
  <2>1. /\ sync[s].at = "read" /\ locked = None /\ locked' = s
        /\ sync' = [sync EXCEPT ![s].at = "locked"] /\ UNCHANGED <<account, edits, crossed, overtaken>>
    BY <1>7 DEF SyncLock
  <2>2. /\ sync' \in [Syncs -> SyncState] /\ sync'[s].at = "locked" /\ sync'[s].read = sync[s].read
        /\ \A q \in Syncs \ {s} : sync'[q] = sync[q]
    BY <1>0, <2>1 DEF SyncState
  <2>3. \A q \in Syncs : sync[q].at \notin {"locked", "fetched"}
    BY <1>0, <2>1, SyncsAssumption DEF LockIsHeld
  <2>4. SyncsReadTrue' /\ EditsReadTrue' /\ LiveTokensNeedARace'
    BY <1>0, <2>1, <2>2 DEF SyncsReadTrue, EditsReadTrue, LiveTokensNeedARace
  <2>5. LockIsHeld' /\ FetchedWithTokens'
    BY <2>1, <2>2, <2>3 DEF LockIsHeld, FetchedWithTokens
  <2>6. QED
    BY <1>0, <2>1, <2>2, <2>4, <2>5 DEF TokenInv
<1>8. ASSUME NEW s \in Syncs, SyncFetch(s) PROVE TokenInv'
  <2>1. PICK found \in FetchedMail :
           sync' = [sync EXCEPT ![s].at = "fetched",
                                ![s].rows = {m \in found \ Seen : ExtractSignal(m) # None}]
    BY <1>8 DEF SyncFetch
  <2> DEFINE new == {m \in found \ Seen : ExtractSignal(m) # None}
  <2>2. new \in SUBSET Messages
    BY DEF FetchedMail, GmailMessages, OutlookMessages
  <2>3. sync' = [sync EXCEPT ![s].at = "fetched", ![s].rows = new]
    BY <2>1
  <2> HIDE DEF new
  <2>4. /\ sync' \in [Syncs -> SyncState] /\ sync'[s].at = "fetched" /\ sync'[s].read = sync[s].read
        /\ \A q \in Syncs \ {s} : sync'[q] = sync[q]
    BY <1>0, <2>2, <2>3 DEF SyncState
  <2>5. /\ UNCHANGED <<account, edits, locked, crossed, overtaken>> /\ sync[s].at = "locked"
        /\ NeedsToken(s) => sync[s].read.refresh
    BY <1>8 DEF SyncFetch
  <2>6. SyncsReadTrue' /\ EditsReadTrue' /\ LockIsHeld' /\ LiveTokensNeedARace'
    BY <1>0, <2>4, <2>5 DEF SyncsReadTrue, EditsReadTrue, LockIsHeld, LiveTokensNeedARace
  <2>7. FetchedWithTokens'
    BY <1>0, <2>4, <2>5 DEF FetchedWithTokens, NeedsToken
  <2>8. QED
    BY <1>0, <2>4, <2>5, <2>6, <2>7 DEF TokenInv
<1>9. ASSUME NEW s \in Syncs, SyncCommit(s) \/ SyncFails(s) \/ SyncConflict(s) PROVE TokenInv'
  <2>1. /\ sync[s].at \in {"locked", "fetched"} /\ edits' = edits /\ locked' = None
    BY <1>9 DEF SyncCommit, SyncFails, SyncConflict
  <2>2. OthersRest(s)
    BY <1>9, EndedSync DEF SyncCommit, SyncFails, SyncConflict
  <2>3. NotRenewed \/ (NeedsToken(s) /\ sync[s].read.refresh /\ Renewed(s))
    <3>1. CASE SyncCommit(s)
      BY <1>0, <3>1 DEF SyncCommit, SyncStored, FetchedWithTokens
    <3>2. CASE SyncFails(s)
      BY <3>2 DEF SyncFails
    <3>3. CASE SyncConflict(s)
      BY <3>3 DEF SyncConflict, NotRenewed
    <3>4. QED
      BY <1>9, <3>1, <3>2, <3>3
  <2>4. QED
    BY <2>1, <2>2, <2>3, EndedTokens
<1>10. CASE UNCHANGED <<account, edits, sync, locked, crossed, overtaken>>
  BY <1>0, <1>10 DEF TokenInv, SyncsReadTrue, EditsReadTrue, LockIsHeld, FetchedWithTokens, NeedsToken,
                     LiveTokensNeedARace
<1>11. ASSUME \/ AskDeepScan \/ LinkScan \/ DismissScan
              \/ \E d \in DeepScans :
                    \/ MarkScanning(d) \/ PublishScan(d) \/ ScanLost(d) \/ DeepStart(d)
                    \/ DeepNoAccounts(d) \/ DeepFetch(d) \/ DeepCommit(d) \/ DeepStore(d) \/ DeepFails(d)
       PROVE  UNCHANGED <<account, edits, sync, locked, crossed, overtaken>>
  BY <1>11 DEF AskDeepScan, LinkScan, DismissScan, MarkScanning, PublishScan, ScanLost, DeepStart,
               DeepNoAccounts, DeepFetch, DeepCommit, DeepStore, DeepFails
<1>12. CASE UNCHANGED mailVars
  BY <1>10, <1>12 DEF mailVars
<1>13. QED
  BY <1>1, <1>2, <1>3, <1>4, <1>5, <1>6, <1>7, <1>8, <1>9, <1>10, <1>11, <1>12 DEF MailNext

\* A disconnected mailbox has live tokens only if whoever wrote it last, or a
\* sync since, was crossed by another write, for any number of messages, requests,
\* syncs and deep scans.
THEOREM LiveTokensAreOvertaken == MailSpec => []LiveTokensNeedARace
<1>1. TokenInv => LiveTokensNeedARace
  BY DEF TokenInv
<1>2. QED
  BY <1>1, TokenInitInv, TokenStep, PTL DEF MailSpec

\* The status "scanning" and the scan that answers for it.
ScanInv ==
  /\ deep \in [DeepScans ->
        [at : {None, "asked", "marked", "queued", "started", "fetched", "analysing"},
         rows : SUBSET Messages, tries : Nat]]
  /\ ScanningIsAttended

LEMMA ScanInitInv == MailInit => ScanInv
BY DEF MailInit, ScanInv, ScanningIsAttended, MailResting, None

\* A step that moves no scan back, or ends it with its status.
LEMMA ScanMoved ==
    ASSUME ScanInv, NEW d \in DeepScans, NEW e,
           e \in [at : {None, "asked", "marked", "queued", "started", "fetched", "analysing"},
                 rows : SUBSET Messages, tries : Nat],
           deep' = [deep EXCEPT ![d] = e], unattended => unattended',
           \/ intelligence' # "scanning"
           \/ unattended'
           \/ e.at \notin {None, "asked"}
           \/ intelligence' = intelligence /\ deep[d].at \in {None, "asked"}
    PROVE  ScanInv'
<1>1. \A c \in DeepScans \ {d} : deep'[c] = deep[c]
  BY DEF ScanInv
<1>2. deep'[d] = e
  BY DEF ScanInv
<1>3. ScanningIsAttended'
  BY <1>1, <1>2 DEF ScanInv, ScanningIsAttended
<1>4. QED
  BY <1>3 DEF ScanInv

LEMMA ScanStep == ScanInv /\ [MailNext]_mailVars => ScanInv'
<1> SUFFICES ASSUME ScanInv, [MailNext]_mailVars PROVE ScanInv'
  OBVIOUS
<1> DEFINE DeepState == [at : {None, "asked", "marked", "queued", "started", "fetched", "analysing"},
                         rows : SUBSET Messages, tries : Nat]
<1>0. /\ deep \in [DeepScans -> DeepState] /\ MailResting \in DeepState /\ MailResting.at = None
  BY DEF ScanInv, MailResting
<1>1. ASSUME NEW d \in DeepScans, NEW to \in {"asked", "marked", "queued"},
             deep' = [deep EXCEPT ![d].at = to], unattended' = unattended,
             \/ to # "asked"
             \/ intelligence' = intelligence /\ deep[d].at = None
      PROVE  ScanInv'
  <2> DEFINE e == [deep[d] EXCEPT !.at = to]
  <2>1. deep' = [deep EXCEPT ![d] = e] /\ e \in DeepState /\ e.at = to
    BY <1>0, <1>1
  <2> HIDE DEF e
  <2>2. QED
    BY <1>1, <2>1, ScanMoved DEF None
<1>2. ASSUME NEW r \in Edits, ConnectWrite(r) PROVE ScanInv'
  <2>1. intelligence' = intelligence /\ unattended' = unattended
    BY <1>2 DEF ConnectWrite
  <2>2. CASE deep' = deep
    BY <2>1, <2>2 DEF ScanInv, ScanningIsAttended
  <2>3. ASSUME NEW d \in DeepScans, deep' = [deep EXCEPT ![d].at = "queued"] PROVE ScanInv'
    BY <1>1, <2>1, <2>3
  <2>4. QED
    BY <1>2, <2>2, <2>3 DEF ConnectWrite, Queued
<1>3. CASE AskDeepScan
  <2>1. PICK d \in DeepScans : deep[d].at = None /\ deep' = [deep EXCEPT ![d].at = "asked"]
    BY <1>3 DEF AskDeepScan, Queued
  <2>2. intelligence' = intelligence /\ unattended' = unattended
    BY <1>3 DEF AskDeepScan
  <2>3. QED
    BY <1>1, <2>1, <2>2
<1>4. ASSUME NEW d \in DeepScans, MarkScanning(d) PROVE ScanInv'
  BY <1>1, <1>4 DEF MarkScanning
<1>5. ASSUME NEW d \in DeepScans, PublishScan(d) PROVE ScanInv'
  BY <1>1, <1>5 DEF PublishScan
<1>6. ASSUME NEW d \in DeepScans, ScanLost(d) PROVE ScanInv'
  BY <1>0, <1>6, ScanMoved DEF ScanLost
<1>7. ASSUME NEW d \in DeepScans, DeepNoAccounts(d) \/ DeepStore(d) PROVE ScanInv'
  BY <1>0, <1>7, ScanMoved DEF DeepNoAccounts, DeepStore
<1>8. ASSUME NEW d \in DeepScans, DeepFails(d) PROVE ScanInv'
  <2>1. deep' = Retried(deep, d, MailResting) /\ intelligence' = "failed" /\ unattended' = unattended
    BY <1>8 DEF DeepFails, MarkFailed
  <2>2. [MailResting EXCEPT !.at = "queued", !.tries = deep[d].tries] \in DeepState
    BY <1>0
  <2>3. PICK e \in DeepState : deep' = [deep EXCEPT ![d] = e]
    BY <1>0, <2>1, <2>2 DEF Retried
  <2>4. QED
    BY <2>1, <2>3, ScanMoved
<1>9. ASSUME NEW d \in DeepScans, DeepStart(d) PROVE ScanInv'
  <2> DEFINE e == [deep[d] EXCEPT !.at = "started", !.tries = @ + 1]
  <2>1. deep' = [deep EXCEPT ![d] = e] /\ e \in DeepState /\ e.at = "started"
    BY <1>0, <1>9 DEF DeepStart
  <2>2. unattended' = unattended
    BY <1>9 DEF DeepStart
  <2> HIDE DEF e
  <2>3. QED
    BY <2>1, <2>2, ScanMoved DEF None
<1>10. ASSUME NEW d \in DeepScans, NEW new \in SUBSET Messages, NEW to \in {"fetched", "analysing"},
              deep' = [deep EXCEPT ![d].at = to, ![d].rows = new], unattended' = unattended
       PROVE  ScanInv'
  <2> DEFINE e == [deep[d] EXCEPT !.at = to, !.rows = new]
  <2>1. deep' = [deep EXCEPT ![d] = e] /\ e \in DeepState /\ e.at = to
    BY <1>0, <1>10
  <2> HIDE DEF e
  <2>2. QED
    BY <1>10, <2>1, ScanMoved DEF None
<1>11. ASSUME NEW d \in DeepScans, DeepFetch(d) PROVE ScanInv'
  <2>1. PICK found \in FetchedAll \cup {{}} :
           deep' = [deep EXCEPT ![d].at = "fetched", ![d].rows = found \ Seen]
    BY <1>11 DEF DeepFetch
  <2>2. found \ Seen \in SUBSET Messages /\ unattended' = unattended
    BY <1>11 DEF DeepFetch, FetchedAll, AllGmailMessages, AllOutlookMessages
  <2>3. QED
    BY <1>10, <2>1, <2>2
<1>12. ASSUME NEW d \in DeepScans, DeepCommit(d) PROVE ScanInv'
  BY <1>10, <1>12, {} \in SUBSET Messages DEF DeepCommit
<1>13. CASE UNCHANGED <<deep, intelligence, unattended>>
  BY <1>13 DEF ScanInv, ScanningIsAttended
<1>14. ASSUME \/ \E r \in Edits : ConnectRead(r) \/ DisconnectRead(r) \/ DisconnectWrite(r)
              \/ TokenExpires \/ StartSync \/ LinkScan \/ DismissScan
              \/ \E s \in Syncs : \/ SyncRead(s) \/ SyncLock(s) \/ SyncFetch(s) \/ SyncCommit(s)
                                  \/ SyncFails(s) \/ SyncConflict(s)
       PROVE  UNCHANGED <<deep, intelligence, unattended>>
  BY <1>14 DEF ConnectRead, DisconnectRead, EditRead, DisconnectWrite, TokenExpires, StartSync, LinkScan, DismissScan, SyncRead, SyncLock,
               SyncFetch, SyncCommit, SyncFails, SyncConflict
<1>15. QED
  BY <1>2, <1>3, <1>4, <1>5, <1>6, <1>7, <1>8, <1>9, <1>11, <1>12, <1>13, <1>14
     DEF MailNext, mailVars

\* While POST /scan refuses, a scan is under way or was lost, for any number of
\* deep scans and syncs.
THEOREM ScansAreAttended == MailSpec => []ScanningIsAttended
<1>1. ScanInv => ScanningIsAttended
  BY DEF ScanInv
<1>2. QED
  BY <1>1, ScanInitInv, ScanStep, PTL DEF MailSpec

-----------------------------------------------------------------------------
(* The profiles.                                                           *)

\* There is one active profile at most.
Alone(p) == \A v, w \in ActiveIn(p) : v = w

LEMMA ActiveCount ==
    ASSUME NEW p
    PROVE  Cardinality(ActiveIn(p)) > 1 <=> ~ Alone(p)
<1>1. IsFiniteSet(Versions)
  BY MaxVersionAssumption, FS_Interval DEF Versions
<1>2. IsFiniteSet(ActiveIn(p)) /\ Cardinality(ActiveIn(p)) \in Nat
  BY <1>1, FS_Subset, FS_CardinalityType DEF ActiveIn
<1>3. ASSUME Alone(p) PROVE ~ (Cardinality(ActiveIn(p)) > 1)
  <2>1. ActiveIn(p) = {} \/ \E v : ActiveIn(p) = {v}
    BY <1>3 DEF Alone
  <2>2. Cardinality(ActiveIn(p)) = 0 \/ Cardinality(ActiveIn(p)) = 1
    BY <1>2, <2>1, FS_EmptySet, FS_Singleton
  <2>3. QED
    BY <2>2
<1>4. ASSUME ~ (Cardinality(ActiveIn(p)) > 1) PROVE Alone(p)
  <2>1. Cardinality(ActiveIn(p)) = 0 \/ Cardinality(ActiveIn(p)) = 1
    BY <1>2, <1>4
  <2>2. ActiveIn(p) = {} \/ \E v : ActiveIn(p) = {v}
    BY <1>2, <2>1, FS_EmptySet, FS_Singleton
  <2>3. QED
    BY <2>2 DEF Alone
<1>5. QED
  BY <1>3, <1>4

LEMMA ActiveNat == ASSUME NEW p PROVE Cardinality(ActiveIn(p)) \in Nat
<1>1. IsFiniteSet(Versions)
  BY MaxVersionAssumption, FS_Interval DEF Versions
<1>2. QED
  BY <1>1, FS_Subset, FS_CardinalityType DEF ActiveIn

\* The version a request takes for the active one is the active one.
LEMMA MaxOfOne ==
    ASSUME NEW S \in SUBSET Versions, \A v, w \in S : v = w
    PROVE  /\ S \subseteq {Max(S \cup {0})}
           /\ S # {} => S = {Max(S)}
<1>1. SUFFICES ASSUME NEW v \in Versions, S = {v} PROVE Max({v, 0}) = v /\ Max({v}) = v
  <2>1. S = {} \/ \E v \in Versions : S = {v}
    OBVIOUS
  <2>2. \A v : {v} \cup {0} = {v, 0}
    OBVIOUS
  <2>3. QED
    BY <1>1, <2>1, <2>2
<1>2. v \in Nat /\ v > 0
  BY MaxVersionAssumption DEF Versions
<1>3. Max({v, 0}) = v
  <2>1. \E x \in {v, 0} : \A y \in {v, 0} : x >= y
    BY <1>2
  <2>2. Max({v, 0}) \in {v, 0} /\ \A y \in {v, 0} : Max({v, 0}) >= y
    BY <2>1 DEF Max
  <2>3. QED
    BY <1>2, <2>2
<1>4. Max({v}) = v
  <2>1. \E x \in {v} : \A y \in {v} : x >= y
    BY <1>2
  <2>2. QED
    BY <2>1 DEF Max
<1>5. QED
  BY <1>3, <1>4

\* What a request has read is still so, as far as it decides who is active.
Current(r) ==
  CASE asked[r].op = "create" -> asked[r].was = "active" => ActiveIn(profile) = {}
    [] asked[r].op = "activate" -> ActiveIn(profile) \subseteq {asked[r].old}
    [] asked[r].op = "quick" -> ActiveIn(profile) \subseteq {asked[r].at}
    [] OTHER -> TRUE

ProfileOps == {"none", "create", "activate", "import", "quick", "parse"}
Statuses == {"none", "draft", "active", "archived"}
AskedWith(At) ==
  [ProfileRequests -> [op : ProfileOps, at : At, was : At, old : At, dirty : BOOLEAN]]

ProfileInv ==
  /\ profile \in [Versions -> ProfileRow]
  /\ \E At : asked \in AskedWith(At)
  /\ why \subseteq {"import", "overlap"}
  /\ ~ Alone(profile) => why # {}
  /\ \A r \in ProfileRequests : ~ asked[r].dirty => Current(r)
  /\ \A r \in ProfileRequests : asked[r].op = "create" => asked[r].was \in Statuses

LEMMA ProfileInitInv == ProfileInit => ProfileInv
<1> SUFFICES ASSUME ProfileInit PROVE ProfileInv
  OBVIOUS
<1>1. /\ profile = [v \in Versions |-> NoProfile] /\ why = {}
      /\ asked = [r \in ProfileRequests |-> Resting]
  BY DEF ProfileInit
<1>2. profile \in [Versions -> ProfileRow] /\ ActiveIn(profile) = {}
  BY <1>1 DEF NoProfile, ProfileRow, ActiveIn
<1>3. asked \in AskedWith({0, "none"}) /\ \A r \in ProfileRequests : Current(r)
  BY <1>1 DEF Resting, AskedWith, ProfileOps, Statuses, Current
<1>4. \A r \in ProfileRequests : asked[r].op = "none"
  BY <1>1 DEF Resting
<1>5. QED
  BY <1>1, <1>2, <1>3, <1>4 DEF ProfileInv, Alone

\* A request that begins has read what is so.
LEMMA AskKeeps ==
    ASSUME ProfileInv, NEW r \in ProfileRequests, NEW op \in ProfileOps, NEW v, NEW was, NEW old,
           Ask(r, op, v, was, old), op = "create" => was \in Statuses,
           op = "create" /\ was = "active" => ActiveIn(profile) = {},
           op = "activate" => ActiveIn(profile) \subseteq {old},
           op = "quick" => ActiveIn(profile) \subseteq {v}
    PROVE  ProfileInv'
<1> DEFINE e == [op |-> op, at |-> v, was |-> was, old |-> old, dirty |-> FALSE]
<1>1. asked' = [asked EXCEPT ![r] = e] /\ profile' = profile /\ why' = why
  BY DEF Ask
<1>2. PICK At : asked \in AskedWith(At)
  BY DEF ProfileInv
<1>3. asked' \in AskedWith(At \cup {v, was, old})
  BY <1>1, <1>2 DEF AskedWith
<1>4. ActiveIn(profile)' = ActiveIn(profile)
  BY <1>1 DEF ActiveIn
<1>5. asked'[r] = e /\ \A q \in ProfileRequests \ {r} : asked'[q] = asked[q]
  BY <1>1, <1>2 DEF AskedWith
<1>6. \A q \in ProfileRequests : ~ asked'[q].dirty => Current(q)'
  <2>1. ASSUME NEW q \in ProfileRequests \ {r}, ~ asked'[q].dirty PROVE Current(q)'
    BY <1>4, <1>5, <2>1 DEF Current, ProfileInv
  <2>2. Current(r)'
    BY <1>4, <1>5 DEF Current
  <2>3. QED
    BY <2>1, <2>2
<1>7. Alone(profile)' <=> Alone(profile)
  BY <1>4 DEF Alone
<1>8. \A q \in ProfileRequests : asked'[q].op = "create" => asked'[q].was \in Statuses
  BY <1>5 DEF ProfileInv
<1>9. QED
  BY <1>1, <1>3, <1>6, <1>7, <1>8 DEF ProfileInv

\* A commit makes a second profile active only if its request was an import or
\* had read what is no longer so.
LEMMA CommittedKeeps ==
    ASSUME ProfileInv, NEW r \in ProfileRequests, NEW p \in [Versions -> ProfileRow],
           Committed(r, p), asked[r].op # "none",
           ~ asked[r].dirty /\ asked[r].op # "import" =>
              Alone(p) \/ ActiveIn(p) = ActiveIn(profile)
    PROVE  ProfileInv'
<1>1. PICK At : asked \in AskedWith(At)
  BY DEF ProfileInv
<1>2. /\ profile' = p
      /\ asked' = [q \in ProfileRequests |->
                      IF q = r THEN Resting
                      ELSE [asked[q] EXCEPT !.dirty = @ \/ (asked[q].op # "none" /\ p # profile)]]
      /\ why' = IF Cardinality(ActiveIn(p)) > 1 /\ ActiveIn(p) # ActiveIn(profile)
                THEN why \cup {IF asked[r].dirty THEN "overlap" ELSE asked[r].op} ELSE why
  BY DEF Committed
<1>3. asked' \in AskedWith(At \cup {0, "none"})
  <2>1. Resting \in [op : ProfileOps, at : At \cup {0, "none"}, was : At \cup {0, "none"},
                    old : At \cup {0, "none"}, dirty : BOOLEAN]
    BY DEF Resting, ProfileOps
  <2>2. QED
    BY <1>1, <1>2, <2>1 DEF AskedWith
<1>4. \A q \in ProfileRequests : ~ asked'[q].dirty => Current(q)'
  <2>1. CASE p = profile
    <3>1. ActiveIn(profile)' = ActiveIn(profile)
      BY <1>2, <2>1 DEF ActiveIn
    <3>2. \A q \in ProfileRequests \ {r} :
             /\ asked'[q].op = asked[q].op /\ asked'[q].at = asked[q].at
             /\ asked'[q].was = asked[q].was /\ asked'[q].old = asked[q].old
             /\ asked[q].dirty => asked'[q].dirty
      BY <1>1, <1>2 DEF AskedWith
    <3>3. ASSUME NEW q \in ProfileRequests \ {r}, ~ asked'[q].dirty PROVE Current(q)'
      BY <3>1, <3>2, <3>3 DEF Current, ProfileInv
    <3>4. Current(r)'
      BY <1>2 DEF Current, Resting
    <3>5. QED
      BY <3>3, <3>4
  <2>2. CASE p # profile
    <3>1. \A q \in ProfileRequests : ~ asked'[q].dirty => asked'[q].op = "none"
      BY <1>1, <1>2, <2>2 DEF AskedWith, Resting
    <3>2. QED
      BY <3>1 DEF Current
  <2>3. QED
    BY <2>1, <2>2
<1>5. Alone(profile)' <=> Alone(p)
  BY <1>2 DEF Alone, ActiveIn
<1>6. why' \subseteq {"import", "overlap"} /\ (~ Alone(p) => why' # {})
  <2>1. CASE Cardinality(ActiveIn(p)) > 1 /\ ActiveIn(p) # ActiveIn(profile)
    <3>1. asked[r].dirty \/ asked[r].op = "import"
      BY <2>1, ActiveCount
    <3>2. why' = why \cup {IF asked[r].dirty THEN "overlap" ELSE asked[r].op}
      BY <1>2, <2>1
    <3>3. QED
      BY <3>1, <3>2 DEF ProfileInv
  <2>2. CASE ~ (Cardinality(ActiveIn(p)) > 1 /\ ActiveIn(p) # ActiveIn(profile))
    <3>1. why' = why
      BY <1>2, <2>2
    <3>2. ~ Alone(p) => ActiveIn(p) = ActiveIn(profile)
      BY <2>2, ActiveCount
    <3>3. ~ Alone(p) => ~ Alone(profile)
      BY <3>2 DEF Alone
    <3>4. QED
      BY <3>1, <3>3 DEF ProfileInv
  <2>3. QED
    BY <2>1, <2>2
<1>7. \A q \in ProfileRequests : asked'[q].op = "create" => asked'[q].was \in Statuses
  BY <1>1, <1>2 DEF AskedWith, Resting, ProfileInv
<1>8. QED
  BY <1>2, <1>3, <1>4, <1>5, <1>6, <1>7 DEF ProfileInv

\* A new draft activates nothing.
LEMMA DraftRow ==
    ASSUME ProfileInv, NEW v, NEW status \in Statuses, NEW withCv \in BOOLEAN
    PROVE  LET p == WithRow(v, Draft(status, withCv)) IN
           /\ p \in [Versions -> ProfileRow]
           /\ status # "active" => ActiveIn(p) = ActiveIn(profile)
           /\ ActiveIn(p) \subseteq ActiveIn(profile) \cup {v}
<1>1. Draft(status, withCv) \in ProfileRow /\ Draft(status, withCv).status = status
  BY DEF Draft, ProfileRow, Statuses
<1>2. profile \in [Versions -> ProfileRow]
  BY DEF ProfileInv
<1>3. QED
  BY <1>1, <1>2 DEF WithRow, ActiveIn

\* An import activates its version and touches no other.
LEMMA FilledRow ==
    ASSUME ProfileInv, NEW r \in ProfileRequests, NEW exps \in SUBSET {"done", "open"}
    PROVE  /\ Filled(r, exps) \in [Versions -> ProfileRow]
           /\ ActiveIn(Filled(r, exps)) \subseteq ActiveIn(profile) \cup {asked[r].at}
<1>1. profile \in [Versions -> ProfileRow]
  BY DEF ProfileInv
<1> DEFINE at == asked[r].at
           status == IF asked[r].was = "active" THEN profile[at].status ELSE "active"
           new == [profile[at] EXCEPT !.exps = exps, !.status = status]
<1>2. CASE at \in Versions
  <2>1. Filled(r, exps) = [profile EXCEPT ![at] = new]
    BY DEF Filled
  <2>2. new \in ProfileRow
    <3>1. profile[at] \in ProfileRow /\ status \in {"none", "draft", "active", "archived"}
      BY <1>1, <1>2 DEF ProfileRow
    <3> HIDE DEF status
    <3>2. QED
      BY <3>1 DEF ProfileRow
  <2> HIDE DEF new
  <2>3. QED
    BY <1>1, <1>2, <2>1, <2>2 DEF ActiveIn
<1>3. CASE at \notin Versions
  BY <1>1, <1>3 DEF Filled, ActiveIn
<1>4. QED
  BY <1>2, <1>3

\* What an extraction gives: an import or one of the two errors.
LEMMA ExtractionTypes == Extractions \subseteq Import \cup {Refused, Unread}
<1>1. ExtractProfileWithClaude \subseteq Import \cup {Refused, Unread}
  <2>1. DemoImport \in Import
    BY DEF DemoImport, Import
  <2>2. QED
    BY <2>1 DEF ExtractProfileWithClaude, CallClaudeForProfile
<1>2. ASSUME NEW content, NEW ext PROVE Extraction(content, ext) \subseteq Import \cup {Refused, Unread}
  BY <1>1 DEF Extraction
<1>3. QED
  BY <1>2 DEF Extractions

LEMMA ProfileStep == ProfileInv /\ [ProfileNext]_profileVars => ProfileInv'
<1> SUFFICES ASSUME ProfileInv, [ProfileNext]_profileVars PROVE ProfileInv'
  OBVIOUS
<1>0. /\ profile \in [Versions -> ProfileRow]
      /\ \A r \in ProfileRequests : ~ asked[r].dirty => Current(r)
      /\ ActiveIn(profile) \in SUBSET Versions
  BY DEF ProfileInv, ActiveIn
<1>1. ASSUME NEW r \in ProfileRequests, BeginCreate(r) PROVE ProfileInv'
  <2>1. Ask(r, "create", Latest + 1, IF ActiveIn(profile) = {} THEN "active" ELSE "draft", 0)
    BY <1>1 DEF BeginCreate
  <2>2. QED
    BY <2>1, AskKeeps DEF ProfileOps, Statuses
<1>2. ASSUME NEW r \in ProfileRequests, CommitCreate(r) PROVE ProfileInv'
  <2> DEFINE p == WithRow(asked[r].at, Draft(asked[r].was, FALSE))
  <2>1. asked[r].op = "create" /\ Committed(r, p)
    BY <1>2 DEF CommitCreate
  <2>2. asked[r].was \in Statuses
    BY <2>1 DEF ProfileInv
  <2>3. /\ p \in [Versions -> ProfileRow]
        /\ asked[r].was # "active" => ActiveIn(p) = ActiveIn(profile)
        /\ ActiveIn(p) \subseteq ActiveIn(profile) \cup {asked[r].at}
    BY <2>2, DraftRow
  <2>4. ~ asked[r].dirty => Alone(p) \/ ActiveIn(p) = ActiveIn(profile)
    BY <1>0, <2>1, <2>3 DEF Current, Alone
  <2>5. QED
    BY <2>1, <2>3, <2>4, CommittedKeeps
<1>3. ASSUME NEW r \in ProfileRequests, BeginActivate(r) PROVE ProfileInv'
  <2>1. PICK v \in Existing :
           /\ Cardinality(ActiveIn(profile)) <= 1
           /\ Ask(r, "activate", v, "draft", Max(ActiveIn(profile) \cup {0}))
    BY <1>3 DEF BeginActivate
  <2>2. Alone(profile)
    BY <2>1, ActiveNat, ActiveCount
  <2>3. ActiveIn(profile) \subseteq {Max(ActiveIn(profile) \cup {0})}
    BY <1>0, <2>2, MaxOfOne DEF Alone
  <2>4. QED
    BY <2>1, <2>3, AskKeeps DEF ProfileOps, Statuses
<1>4. ASSUME NEW r \in ProfileRequests, CommitActivate(r) PROVE ProfileInv'
  <2>1. asked[r].op = "activate" /\ Committed(r, Activated(r))
    BY <1>4 DEF CommitActivate
  <2>2. /\ Activated(r) \in [Versions -> ProfileRow]
        /\ ActiveIn(Activated(r)) \subseteq (ActiveIn(profile) \ {asked[r].old}) \cup {asked[r].at}
    BY <1>0 DEF Activated, ActiveIn, ProfileRow
  <2>3. ~ asked[r].dirty => Alone(Activated(r))
    BY <1>0, <2>1, <2>2 DEF Current, Alone
  <2>4. QED
    BY <2>1, <2>2, <2>3, CommittedKeeps
<1>5. ASSUME NEW r \in ProfileRequests, BeginImport(r) PROVE ProfileInv'
  <2>1. PICK v \in Existing : Ask(r, "import", v, profile[v].status, 0)
    BY <1>5 DEF BeginImport
  <2>2. QED
    BY <2>1, AskKeeps DEF ProfileOps
<1>6. ASSUME NEW r \in ProfileRequests, CommitImport(r) PROVE ProfileInv'
  <2>1. PICK exps \in {{}, profile[asked[r].at].exps}, found \in SUBSET {"open"} :
           \/ Committed(r, Filled(r, exps \cup found))
           \/ Committed(r, [profile EXCEPT ![asked[r].at].exps = exps \cup found])
    BY <1>6 DEF CommitImport
  <2>2. asked[r].op = "import"
    BY <1>6 DEF CommitImport
  <2>3. CASE asked[r].at \in Versions
    <3>1. exps \cup found \in SUBSET {"done", "open"}
      BY <1>0, <2>3 DEF ProfileRow
    <3>2. Filled(r, exps \cup found) \in [Versions -> ProfileRow]
      BY <3>1, FilledRow
    <3>3. [profile EXCEPT ![asked[r].at].exps = exps \cup found] \in [Versions -> ProfileRow]
      BY <1>0, <2>3, <3>1 DEF ProfileRow
    <3>4. QED
      BY <2>1, <2>2, <3>2, <3>3, CommittedKeeps
  <2>4. CASE asked[r].at \notin Versions
    <3>1. \/ Committed(r, profile)
      BY <1>0, <2>1, <2>4 DEF Filled
    <3>2. QED
      BY <1>0, <2>2, <3>1, CommittedKeeps
  <2>5. QED
    BY <2>3, <2>4
<1>7. ASSUME NEW r \in ProfileRequests, BeginQuickStart(r) PROVE ProfileInv'
  <2> DEFINE v == IF ActiveIn(profile) # {} THEN Max(ActiveIn(profile))
                  ELSE IF Latest > 0 THEN Latest ELSE 1
  <2>1. Cardinality(ActiveIn(profile)) <= 1 /\ Ask(r, "quick", v, profile[v].status, 0)
    BY <1>7 DEF BeginQuickStart
  <2>2. Alone(profile)
    BY <2>1, ActiveNat, ActiveCount
  <2>3. ActiveIn(profile) \subseteq {v}
    BY <1>0, <2>2, MaxOfOne DEF Alone
  <2>4. QED
    BY <2>1, <2>3, AskKeeps DEF ProfileOps
<1>8. ASSUME NEW r \in ProfileRequests, CommitQuickStart(r) PROVE ProfileInv'
  <2>1. PICK imported \in Extractions \ {Refused} :
           Committed(r, IF imported = Unread THEN WithRow(asked[r].at, Draft("draft", FALSE))
                        ELSE Filled(r, imported.exps))
    BY <1>8 DEF CommitQuickStart
  <2>2. asked[r].op = "quick"
    BY <1>8 DEF CommitQuickStart
  <2>3. CASE imported # Unread
    <3> DEFINE p == Filled(r, imported.exps)
    <3>1. imported.exps \in SUBSET {"done", "open"}
      BY <2>1, <2>3, ExtractionTypes DEF Import
    <3>2. /\ p \in [Versions -> ProfileRow]
          /\ ActiveIn(p) \subseteq ActiveIn(profile) \cup {asked[r].at}
      BY <3>1, FilledRow
    <3>3. Committed(r, p)
      BY <2>1, <2>3
    <3> HIDE DEF p
    <3>4. ~ asked[r].dirty => Alone(p)
      BY <1>0, <2>2, <3>2 DEF Current, Alone
    <3>5. QED
      BY <2>2, <3>2, <3>3, <3>4, CommittedKeeps
  <2>4. CASE imported = Unread
    <3> DEFINE p == WithRow(asked[r].at, Draft("draft", FALSE))
    <3>1. p \in [Versions -> ProfileRow] /\ ActiveIn(p) = ActiveIn(profile)
      BY DraftRow DEF Statuses
    <3>2. Committed(r, p)
      BY <2>1, <2>4
    <3> HIDE DEF p
    <3>3. QED
      BY <2>2, <3>1, <3>2, CommittedKeeps
  <2>5. QED
    BY <2>3, <2>4
<1>9. ASSUME NEW r \in ProfileRequests, QuickStartFails(r) PROVE ProfileInv'
  BY <1>0, <1>9, CommittedKeeps DEF QuickStartFails
<1>10. ASSUME NEW r \in ProfileRequests, BeginParsed(r) PROVE ProfileInv'
  BY <1>10, AskKeeps DEF BeginParsed, ProfileOps, Statuses
<1>11. ASSUME NEW r \in ProfileRequests, CommitParsed(r) PROVE ProfileInv'
  <2> DEFINE p == WithRow(1, Draft("draft", TRUE))
  <2>1. p \in [Versions -> ProfileRow] /\ ActiveIn(p) = ActiveIn(profile)
    BY DraftRow DEF Statuses
  <2>2. asked[r].op = "parse" /\ Committed(r, p)
    BY <1>11 DEF CommitParsed
  <2> HIDE DEF p
  <2>3. QED
    BY <2>1, <2>2, CommittedKeeps
<1>12. ASSUME asked' = asked, why' = why, profile' \in [Versions -> ProfileRow],
              \A v \in Versions : profile'[v].status = profile[v].status
       PROVE  ProfileInv'
  <2>1. ActiveIn(profile)' = ActiveIn(profile)
    BY <1>12 DEF ActiveIn
  <2>2. \A r \in ProfileRequests : Current(r)' <=> Current(r)
    BY <1>12, <2>1 DEF Current
  <2>3. QED
    BY <1>12, <2>1, <2>2 DEF ProfileInv, Alone
<1>13. CASE LinkCv
  <2>1. PICK v \in Existing : profile' = [profile EXCEPT ![v].cv = TRUE]
    BY <1>13 DEF LinkCv
  <2>2. profile' \in [Versions -> ProfileRow] /\ \A u \in Versions : profile'[u].status = profile[u].status
    BY <1>0, <2>1 DEF Existing, ProfileRow
  <2>3. QED
    BY <1>12, <1>13, <2>2 DEF LinkCv
<1>14. CASE EditExperience
  <2>1. PICK v \in Existing, exps \in SUBSET {"done", "open"} : profile' = [profile EXCEPT ![v].exps = exps]
    BY <1>0, <1>14 DEF EditExperience, Existing, ProfileRow
  <2>2. profile' \in [Versions -> ProfileRow] /\ \A u \in Versions : profile'[u].status = profile[u].status
    BY <1>0, <2>1 DEF Existing, ProfileRow
  <2>3. QED
    BY <1>12, <1>14, <2>2 DEF EditExperience
<1>15. CASE UNCHANGED profileVars
  BY <1>0, <1>12, <1>15 DEF profileVars
<1>16. QED
  BY <1>1, <1>2, <1>3, <1>4, <1>5, <1>6, <1>7, <1>8, <1>9, <1>10, <1>11, <1>13, <1>14, <1>15
     DEF ProfileNext

\* A second profile becomes active by an import or by a request that acts on what
\* is no longer so, and in no other way: for any number of versions and requests.
THEOREM OnlyImportsAndOverlaps == ProfileSpec => []SecondActiveNeedsImportOrOverlap
<1>1. ProfileInv => SecondActiveNeedsImportOrOverlap
  BY ActiveCount DEF ProfileInv, SecondActiveNeedsImportOrOverlap
<1>2. QED
  BY <1>1, ProfileInitInv, ProfileStep, PTL DEF ProfileSpec
=============================================================================
