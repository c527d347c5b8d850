----------------------- MODULE AuthSessionsGuarantees -----------------------
(***************************************************************************)
(* What the answers of AuthEngine say about logouts, time, passwords and   *)
(* the other sessions of a user, for every set of requests, tokens and     *)
(* users and every ttl, idle timeout and bound; and that with an atomic    *)
(* touch the engine implements SessionLifecycle.                           *)
(***************************************************************************)
EXTENDS AuthSessionsProof

USE DEF Requests, Session, Credential, TokenOps, UserOps, Ops, Results,
        Minted, Stored, StorageIds

Own(p) ==
  Validate(p) \/ Revocation(p) \/ Login(p) \/ StoreFault(p) \/ Cancel(p)

\* Neither the control point nor the registers of request p change.
Quiet(p) == pc'[p] = pc[p] /\ req'[p] = req[p] /\ began'[p] = began[p]

-----------------------------------------------------------------------------
\* How one request moves.

\* Request q is given control point l, registers r and history h.
Writes(q, l, r, h) ==
  /\ pc' = [pc EXCEPT ![q] = l]
  /\ req' = [req EXCEPT ![q] = r]
  /\ began' = [began EXCEPT ![q] = h]

\* A request writes its own control point, registers and history only.
LEMMA OneWrites ==
  ASSUME TypeOK, NEW q \in Procs, Own(q)
  PROVE  \E l, r, h : Writes(q, l, r, h)
  <1> DEFINE Wrote == \E l, r, h : Writes(q, l, r, h)
  <1>1. ASSUME NEW v, Return(q, v) PROVE Wrote
    BY <1>1, Zenon DEF Return, Goto, Writes
  <1>2. ASSUME NEW l, NEW r, Proceed(q, l), req' = [req EXCEPT ![q] = r]
        PROVE  Wrote
    <2>1. began' = [began EXCEPT ![q] = began[q]]
      BY <1>2 DEF Proceed, TypeOK, RequestsOK
    <2> QED BY <1>2, <2>1, Zenon DEF Proceed, Goto, Writes
  <1>9. req = [req EXCEPT ![q] = req[q]]
    BY DEF TypeOK, RequestsOK
  <1>10. /\ \A l : Proceed(q, l) /\ UNCHANGED req => Wrote
         /\ \A l, s : Proceed(q, l) /\ req' = [req EXCEPT ![q].session = s] => Wrote
         /\ \A l, n : Proceed(q, l) /\ req' = [req EXCEPT ![q].now = n] => Wrote
         /\ \A l, a : Proceed(q, l) /\ req' = [req EXCEPT ![q].auth = a] => Wrote
    BY <1>2, <1>9, Zenon
  <1>3. ASSUME NEW l, NEW op, NEW t, CallOnToken(q, l, op, t) PROVE Wrote
    BY <1>3, Zenon DEF CallOnToken, Writes
  <1>4. ASSUME NEW l, NEW op, NEW u, NEW w, CallOnUser(q, l, op, u, w)
        PROVE  Wrote
    BY <1>4, Zenon DEF CallOnUser, Writes
  <1> SUFFICES Wrote
    OBVIOUS
  <1> HIDE DEF Wrote
  <1>5. CASE Validate(q)
    BY <1>1, <1>10, <1>3, <1>5, Zenon DEF Validate, CallValidate, ValidateFind,
         ValidateClock, ValidateUser, ValidateDelete, ValidateTouch,
         ValidateTouchFind, ValidateTouchSave
  <1>6. CASE Revocation(q)
    BY <1>1, <1>10, <1>3, <1>4, <1>6, Zenon DEF Revocation, CallLogout,
         LogoutFind, LogoutUser, LogoutDelete, CallRevoke, RevokeFind,
         RevokeDelete, CallRevokeAll, RevokeAll
  <1>7. CASE Login(q)
    BY <1>1, <1>10, <1>4, <1>7, Zenon DEF Login, CallLogin, LoginFind,
         LoginClock, LoginWipe, LoginSave, SaveSession
  <1>8. CASE StoreFault(q) \/ Cancel(q)
    BY <1>1, <1>10, <1>8, Zenon DEF StoreFault, Cancel
  <1> QED BY <1>5, <1>6, <1>7, <1>8 DEF Own

\* A step leaves a request alone or is a step of that request.
LEMMA OwnOrQuiet ==
  ASSUME TypeOK, [Next]_vars, NEW p \in Procs
  PROVE  Own(p) \/ Quiet(p)
  <1>1. CASE Environment \/ UNCHANGED vars
    BY <1>1 DEF Quiet, Environment, Tick, ClockStepBack, ChangePassword,
                SetActive, vars
  <1>2. ASSUME NEW q \in Procs, Own(q), q # p
        PROVE  Quiet(p)
    <2>1. PICK l, r, h : Writes(q, l, r, h)
      BY <1>2, OneWrites
    <2> QED BY <1>2, <2>1 DEF Writes, Quiet, TypeOK, RequestsOK
  <1> QED BY <1>1, <1>2 DEF Next, Own

\* A request that answers is idle, with nothing but its result.
LEMMA Returned ==
  ASSUME TypeOK, NEW p \in Procs, NEW v, Return(p, v)
  PROVE  /\ pc'[p] = "idle" /\ req'[p] = [NoRequest EXCEPT !.result = v]
         /\ req'[p].op = "none" /\ req'[p].result = v /\ began'[p] = NoHistory
         /\ req'[p].now = 0
  BY DEF Return, Goto, NoRequest, TypeOK, RequestsOK

\* A step that reads moves one request, in its registers only.
LEMMA Proceeded ==
  ASSUME TypeOK, NEW p \in Procs, NEW l, Proceed(p, l)
  PROVE  pc'[p] = l /\ began'[p] = began[p]
  BY DEF Proceed, Goto, TypeOK, RequestsOK

\* A call sets what its request was asked and the sessions it began with.
LEMMA Called ==
  ASSUME TypeOK, NEW p \in Procs, NEW l, NEW op
  PROVE  /\ \A t : CallOnToken(p, l, op, t) =>
              /\ pc[p] = "idle" /\ pc'[p] = l
              /\ req'[p] = [NoRequest EXCEPT !.op = op, !.token = t]
              /\ began'[p] = [NoHistory EXCEPT !.clock = clock,
                                !.hash = users[verified[t].user].hash]
         /\ \A u, w : CallOnUser(p, l, op, u, w) =>
              /\ pc[p] = "idle" /\ pc'[p] = l
              /\ req'[p] = [NoRequest EXCEPT !.op = op, !.user = u,
                                             !.password = w]
              /\ began'[p] = [NoHistory EXCEPT !.live = LiveTokens(u)]
  BY DEF CallOnToken, CallOnUser, TypeOK, RequestsOK

\* Where each step of a request leads.
LEMMA Targets ==
  ASSUME TypeOK, NEW p \in Procs
  PROVE  /\ CallValidate(p) => pc'[p] = "validate_find"
         /\ ValidateFind(p) => pc'[p] \in {"idle", "validate_clock"}
         /\ ValidateClock(p) => pc'[p] \in {"validate_delete", "validate_user"}
         /\ ValidateUser(p) =>
              pc'[p] \in {"idle", "validate_delete", "validate_touch"}
         /\ ValidateDelete(p) \/ ValidateTouch(p) \/ ValidateTouchSave(p) =>
              pc'[p] = "idle"
         /\ ValidateTouchFind(p) => pc'[p] \in {"idle", "validate_save"}
         /\ CallLogout(p) => pc'[p] = "logout_find"
         /\ LogoutFind(p) => pc'[p] \in {"idle", "logout_user"}
         /\ LogoutUser(p) => pc'[p] \in {"idle", "logout_delete"}
         /\ CallRevoke(p) => pc'[p] = "revoke_find"
         /\ RevokeFind(p) => pc'[p] \in {"idle", "revoke_delete"}
         /\ LogoutDelete(p) \/ RevokeDelete(p) \/ RevokeAll(p) =>
              pc'[p] = "idle"
         /\ CallRevokeAll(p) => pc'[p] = "revoke_all"
         /\ CallLogin(p) => pc'[p] = "login_find"
         /\ LoginFind(p) => pc'[p] \in {"idle", "login_clock"}
         /\ LoginClock(p) => pc'[p] \in {"idle", "login_wipe", "login_save"}
         /\ LoginWipe(p) => pc'[p] = "login_save"
         /\ LoginSave(p) \/ Cancel(p) => pc'[p] = "idle"
         /\ StoreFault(p) => pc'[p] = "idle" \/ pc'[p] = "login_save"
  <1>1. /\ \A v : Return(p, v) => pc'[p] = "idle"
        /\ \A l : Proceed(p, l) => pc'[p] = l
    BY Returned, Proceeded
  <1>2. /\ \A l, op, t : CallOnToken(p, l, op, t) => pc'[p] = l
        /\ \A l, op, u, w : CallOnUser(p, l, op, u, w) => pc'[p] = l
    BY Called
  <1> QED
    BY <1>1, <1>2, Zenon
       DEF CallValidate, ValidateFind, ValidateClock, ValidateUser,
           ValidateDelete, ValidateTouch, ValidateTouchFind, ValidateTouchSave,
           CallLogout, LogoutFind, LogoutUser, LogoutDelete, CallRevoke,
           RevokeFind, RevokeDelete, CallRevokeAll, RevokeAll, CallLogin,
           LoginFind, LoginClock, LoginWipe, LoginSave, SaveSession,
           StoreFault, Cancel

\* The steps that lead to each control point.
LEMMA Arrivals ==
  ASSUME TypeOK, NEW p \in Procs, Own(p)
  PROVE  /\ pc'[p] = "validate_find" => CallValidate(p)
         /\ pc'[p] = "validate_clock" => ValidateFind(p)
         /\ pc'[p] = "validate_user" => ValidateClock(p)
         /\ pc'[p] = "validate_delete" => ValidateClock(p) \/ ValidateUser(p)
         /\ pc'[p] = "validate_touch" => ValidateUser(p)
         /\ pc'[p] = "validate_save" => ValidateTouchFind(p)
         /\ pc'[p] = "logout_find" => CallLogout(p)
         /\ pc'[p] = "logout_user" => LogoutFind(p)
         /\ pc'[p] = "logout_delete" => LogoutUser(p)
         /\ pc'[p] = "revoke_find" => CallRevoke(p)
         /\ pc'[p] = "revoke_delete" => RevokeFind(p)
         /\ pc'[p] = "revoke_all" => CallRevokeAll(p)
         /\ pc'[p] = "login_find" => CallLogin(p)
         /\ pc'[p] = "login_clock" => LoginFind(p)
         /\ pc'[p] = "login_wipe" => LoginClock(p)
         /\ pc'[p] = "login_save" =>
              LoginClock(p) \/ LoginWipe(p) \/ StoreFault(p)
  BY Targets DEF Own, Validate, Revocation, Login

-----------------------------------------------------------------------------
\* What one step does to the shared variables.

\* Requests read the clock and the user table and never write them, and only
\* a failing store call counts as a fault.
LEMMA OwnFrame ==
  ASSUME NEW p \in Procs, Own(p)
  PROVE  /\ UNCHANGED <<clock, users>>
         /\ UNCHANGED faults \/ (StoreFault(p) /\ faults' = faults + 1)
  <1>1. CASE Validate(p)
    BY <1>1 DEF Validate, CallValidate, ValidateFind, ValidateClock,
         ValidateUser, ValidateDelete, ValidateTouch, ValidateTouchFind,
         ValidateTouchSave, CallOnToken, shared
  <1>2. CASE Revocation(p)
    BY <1>2 DEF Revocation, CallLogout, LogoutFind, LogoutUser,
         LogoutDelete, CallRevoke, RevokeFind, RevokeDelete, CallRevokeAll,
         RevokeAll, CallOnToken, CallOnUser, shared
  <1>3. CASE Login(p)
    BY <1>3 DEF Login, CallLogin, LoginFind, LoginClock, LoginWipe,
         LoginSave, SaveSession, CallOnUser, shared
  <1>4. CASE StoreFault(p) \/ Cancel(p)
    BY <1>4 DEF StoreFault, Cancel, shared
  <1> QED BY <1>1, <1>2, <1>3, <1>4 DEF Own

\* Faults and password changes are only ever added, and time passes forward
\* unless the clock may be set back.
LEMMA OnlyForward ==
  ASSUME TypeOK, [Next]_vars
  PROVE  /\ faults' \in Nat /\ faults <= faults'
         /\ \A u \in Users : users[u].hash <= users'[u].hash
         /\ ~ ClockMayStepBack => clock <= clock'
  <1> USE DEF TypeOK, SharedOK
  <1>1. CASE \E p \in Procs : Own(p)
    BY <1>1, OwnFrame
  <1>2. CASE Tick \/ ClockStepBack \/ UNCHANGED vars
    BY <1>2 DEF Tick, ClockStepBack, vars
  <1>3. ASSUME NEW v \in Users, ChangePassword(v) \/ SetActive(v)
        PROVE  /\ UNCHANGED <<clock, faults>>
               /\ \A u \in Users : users[u].hash <= users'[u].hash
    <2>1. UNCHANGED <<clock, faults>>
      BY <1>3 DEF ChangePassword, SetActive
    <2>2. ASSUME NEW u \in Users
          PROVE  users'[u].hash = users[u].hash \/ users'[u].hash = users[u].hash + 1
      BY <1>3 DEF ChangePassword, SetActive
    <2> QED BY <2>1, <2>2
  <1> QED BY <1>1, <1>2, <1>3 DEF Next, Own, Environment

\* The four ways a step treats the session of token t: it keeps or deletes
\* it, or a validation touches it, or it saves the copy it touched, or a
\* login stores a new session for a token nobody had.
Kept(t) == Stored(t)' \in {Stored(t), None} /\ verified'[t] = verified[t]

TouchedBy(p, t) ==
  /\ AtomicTouch /\ pc[p] = "validate_touch" /\ req[p].token = t
  /\ Stored(t) # None
  /\ Stored(t)' = Touched(p, Stored(t))
  /\ verified'[t] = verified[t]

SavedBy(p, t) ==
  /\ pc[p] = "validate_save" /\ req[p].token = t
  /\ Stored(t)' = req[p].session
  /\ verified'[t] = verified[t]

MintedBy(p, t) ==
  /\ pc[p] = "login_save" /\ t \notin Minted
  /\ Stored(t)' = NewSession(req[p].user, req[p].now, req[p].auth)
  /\ verified'[t] = [user |-> req[p].user, password |-> req[p].password]

\* What a step can make of a stored session.
LEMMA StoreStep ==
  ASSUME TypeOK, [Next]_vars, NEW t \in Tokens
  PROVE  \/ Kept(t)
         \/ \E p \in Procs : TouchedBy(p, t) \/ SavedBy(p, t) \/ MintedBy(p, t)
  <1> DEFINE id == hash_for_storage(t)
             Fate == \/ Kept(t)
                     \/ \E p \in Procs :
                          TouchedBy(p, t) \/ SavedBy(p, t) \/ MintedBy(p, t)
  <1>0. SUFFICES Fate
    OBVIOUS
  <1>1. id \in StorageIds /\ store \in [StorageIds -> Session \cup {None}]
        /\ verified \in [Tokens -> Credential \cup {None}]
    BY DEF TypeOK, SharedOK
  <1>2. UNCHANGED <<store, verified>> => Fate
    BY DEF Kept
  <1>3. ASSUME NEW ids, Delete(ids), UNCHANGED verified
        PROVE  Fate
    BY <1>1, <1>3 DEF Kept, Delete
  <1>4. ASSUME NEW p \in Procs, ValidateTouch(p)
        PROVE  Fate
    <2> DEFINE d == hash_for_storage(req[p].token)
    <2>1. /\ AtomicTouch /\ pc[p] = "validate_touch" /\ UNCHANGED verified
          /\ \/ store' = store
             \/ /\ store[d] # None
                /\ store' = [store EXCEPT ![d] = Touched(p, store[d])]
      BY <1>4, Zenon DEF ValidateTouch
    <2>2. CASE store' = store
      BY <1>2, <2>1, <2>2
    <2>3. CASE d # id /\ store' = [store EXCEPT ![d] = Touched(p, store[d])]
      BY <1>1, <2>1, <2>3 DEF Kept
    <2>4. CASE /\ d = id /\ store[d] # None
               /\ store' = [store EXCEPT ![d] = Touched(p, store[d])]
      <3>1. req[p].token = t
        BY <2>4, HashInjective
      <3> QED BY <1>1, <2>1, <2>4, <3>1 DEF TouchedBy
    <2> QED BY <2>1, <2>2, <2>3, <2>4
  <1>5. ASSUME NEW p \in Procs, ValidateTouchSave(p)
        PROVE  Fate
    <2> DEFINE d == hash_for_storage(req[p].token)
    <2>1. /\ pc[p] = "validate_save" /\ UNCHANGED verified
          /\ store' = [store EXCEPT ![d] = req[p].session]
      BY <1>5 DEF ValidateTouchSave
    <2>2. CASE d # id
      BY <1>1, <2>1, <2>2 DEF Kept
    <2>3. CASE d = id
      <3>1. req[p].token = t
        BY <2>3, HashInjective
      <3> QED BY <1>1, <2>1, <2>3, <3>1 DEF SavedBy
    <2> QED BY <2>2, <2>3
  <1>6. ASSUME NEW p \in Procs, LoginSave(p)
        PROVE  Fate
    <2>1. PICK u \in Tokens \ Minted : SaveSession(p, u, req[p].auth)
      BY <1>6 DEF LoginSave
    <2>2. CASE u # t
      <3>1. hash_for_storage(u) # id
        BY <2>2, HashInjective
      <3> QED BY <1>1, <2>1, <2>2, <3>1 DEF Kept, SaveSession
    <2>3. CASE u = t
      BY <1>1, <2>1, <2>3 DEF MintedBy, SaveSession
    <2> QED BY <2>2, <2>3
  <1> HIDE DEF Fate
  <1>7. ASSUME NEW p \in Procs, Validate(p)
        PROVE  Fate
    <2>1. CASE ValidateDelete(p)
      BY <1>3, <2>1 DEF ValidateDelete
    <2>2. CASE ValidateTouch(p) \/ ValidateTouchSave(p)
      BY <1>4, <1>5, <2>2
    <2>3. CASE CallValidate(p)
      BY <1>2, <2>3 DEF CallValidate, CallOnToken, shared
    <2>4. CASE \/ ValidateFind(p) \/ ValidateClock(p) \/ ValidateUser(p)
               \/ ValidateTouchFind(p)
      BY <1>2, <2>4
         DEF ValidateFind, ValidateClock, ValidateUser, ValidateTouchFind, shared
    <2> QED BY <1>7, <2>1, <2>2, <2>3, <2>4 DEF Validate
  <1>8. ASSUME NEW p \in Procs, Revocation(p)
        PROVE  Fate
    <2>1. CASE LogoutDelete(p) \/ RevokeDelete(p) \/ RevokeAll(p)
      BY <1>3, <2>1 DEF LogoutDelete, RevokeDelete, RevokeAll
    <2>2. CASE CallLogout(p) \/ CallRevoke(p) \/ CallRevokeAll(p)
      BY <1>2, <2>2 DEF CallLogout, CallRevoke, CallRevokeAll, CallOnToken,
                        CallOnUser, shared
    <2>3. CASE LogoutFind(p) \/ LogoutUser(p) \/ RevokeFind(p)
      BY <1>2, <2>3 DEF LogoutFind, LogoutUser, RevokeFind, shared
    <2> QED BY <1>8, <2>1, <2>2, <2>3 DEF Revocation
  <1>9. ASSUME NEW p \in Procs, Login(p)
        PROVE  Fate
    <2>1. CASE LoginWipe(p)
      BY <1>3, <2>1 DEF LoginWipe
    <2>2. CASE LoginSave(p)
      BY <1>6, <2>2
    <2>3. CASE CallLogin(p)
      BY <1>2, <2>3 DEF CallLogin, CallOnUser, shared
    <2>4. CASE LoginFind(p) \/ LoginClock(p)
      BY <1>2, <2>4 DEF LoginFind, LoginClock, shared
    <2> QED BY <1>9, <2>1, <2>2, <2>3, <2>4 DEF Login
  <1>10. ASSUME NEW p \in Procs, StoreFault(p) \/ Cancel(p)
         PROVE  Fate
    BY <1>2, <1>10 DEF StoreFault, Cancel, shared
  <1>11. CASE Environment \/ UNCHANGED vars
    BY <1>2, <1>11
       DEF Environment, Tick, ClockStepBack, ChangePassword, SetActive, vars
  <1> QED BY <1>7, <1>8, <1>9, <1>10, <1>11 DEF Next

\* What a login proved stays on record.
LEMMA MintedStays ==
  ASSUME TypeOK, [Next]_vars, NEW t \in Minted
  PROVE  t \in Minted' /\ verified'[t] = verified[t]
  BY StoreStep DEF Kept, TouchedBy, SavedBy, MintedBy

-----------------------------------------------------------------------------
\* What a request carries from one await to the next.

CallsOf(p) ==
  \/ CallValidate(p) \/ CallLogout(p) \/ CallRevoke(p)
  \/ CallRevokeAll(p) \/ CallLogin(p)

\* What a call records: on a token, when it was made and the password its
\* owner had then; on a user, the tokens that were live then.
LEMMA CallRecords ==
  ASSUME TypeOK, NEW p \in Procs
  PROVE  /\ CallValidate(p) \/ CallLogout(p) \/ CallRevoke(p) =>
              \E t \in Minted :
                /\ req'[p].op \in TokenOps /\ req'[p].token = t
                /\ req'[p].now = 0 /\ req'[p].result = "none"
                /\ began'[p].clock = clock
                /\ began'[p].hash = users[verified[t].user].hash
                /\ UNCHANGED shared
         /\ CallRevokeAll(p) \/ CallLogin(p) =>
              \E u \in Users :
                /\ req'[p].op \in UserOps /\ req'[p].user = u
                /\ req'[p].now = 0 /\ req'[p].result = "none"
                /\ began'[p].live = LiveTokens(u)
                /\ UNCHANGED shared
  <1>1. ASSUME NEW l, NEW op \in TokenOps, NEW t \in Tokens,
               CallOnToken(p, l, op, t)
        PROVE  /\ t \in Minted /\ UNCHANGED shared
               /\ req'[p].op \in TokenOps /\ req'[p].token = t
               /\ req'[p].now = 0 /\ req'[p].result = "none"
               /\ began'[p].clock = clock
               /\ began'[p].hash = users[verified[t].user].hash
    BY <1>1 DEF CallOnToken, NoRequest, NoHistory, TypeOK, RequestsOK
  <1>2. ASSUME NEW l, NEW op \in UserOps, NEW u \in Users, NEW w,
               CallOnUser(p, l, op, u, w)
        PROVE  /\ UNCHANGED shared
               /\ req'[p].op \in UserOps /\ req'[p].user = u
               /\ req'[p].now = 0 /\ req'[p].result = "none"
               /\ began'[p].live = LiveTokens(u)
    BY <1>2 DEF CallOnUser, NoRequest, NoHistory, TypeOK, RequestsOK
  <1>3. CASE CallValidate(p) \/ CallLogout(p) \/ CallRevoke(p)
    <2>1. PICK op \in TokenOps, t \in Tokens : \E l : CallOnToken(p, l, op, t)
      BY <1>3 DEF CallValidate, CallLogout, CallRevoke
    <2> HIDE DEF TokenOps, Minted
    <2>2. /\ t \in Minted /\ UNCHANGED shared
          /\ req'[p].op \in TokenOps /\ req'[p].token = t
          /\ req'[p].now = 0 /\ req'[p].result = "none"
          /\ began'[p].clock = clock
          /\ began'[p].hash = users[verified[t].user].hash
      BY <1>1, <2>1
    <2>3. ~ CallRevokeAll(p) /\ ~ CallLogin(p)
      <3>1. req'[p].op \notin UserOps
        BY <2>2 DEF TokenOps
      <3> QED BY <1>2, <3>1 DEF CallRevokeAll, CallLogin
    <2> QED BY <2>2, <2>3
  <1>4. CASE CallRevokeAll(p) \/ CallLogin(p)
    <2>1. PICK op \in UserOps, u \in Users :
           \E l, w : CallOnUser(p, l, op, u, w)
      BY <1>4 DEF CallRevokeAll, CallLogin
    <2> HIDE DEF UserOps
    <2>2. /\ UNCHANGED shared
          /\ req'[p].op \in UserOps /\ req'[p].user = u
          /\ req'[p].now = 0 /\ req'[p].result = "none"
          /\ began'[p].live = LiveTokens(u)
      BY <1>2, <2>1
    <2>3. ~ CallValidate(p) /\ ~ CallLogout(p) /\ ~ CallRevoke(p)
      <3>1. req'[p].op \notin TokenOps
        BY <2>2 DEF UserOps
      <3> QED BY <1>1, <3>1 DEF CallValidate, CallLogout, CallRevoke
    <2> QED BY <2>2, <2>3
  <1> QED BY <1>3, <1>4

\* A request under way keeps what it was asked, whatever it reads.
Carries(p) ==
  /\ pc[p] # "idle" /\ pc'[p] # "idle"
  /\ req'[p].op = req[p].op /\ req'[p].token = req[p].token
  /\ req'[p].user = req[p].user /\ req'[p].password = req[p].password
  /\ req'[p].now \in {req[p].now, clock} /\ req'[p].result = req[p].result
  /\ began'[p] = began[p]

Answered(p) ==
  /\ pc[p] # "idle" /\ pc'[p] = "idle"
  /\ req'[p].op = "none" /\ req'[p].now = 0 /\ began'[p] = NoHistory

\* A step of a request calls, carries on or answers.
LEMMA CallCarryAnswer ==
  ASSUME TypeOK, NEW p \in Procs, Own(p)
  PROVE  CallsOf(p) \/ Carries(p) \/ Answered(p)
  <1> DEFINE Goal == CallsOf(p) \/ Carries(p) \/ Answered(p)
  <1>0. SUFFICES Goal
    OBVIOUS
  <1>1. \A v : pc[p] # "idle" /\ Return(p, v) => Goal
    BY Returned DEF Answered
  <1>2. req[p] \in Requests /\ req \in [Procs -> Requests]
    BY DEF TypeOK, RequestsOK
  <1>3. ASSUME NEW l, l # "idle", pc[p] # "idle", Proceed(p, l)
        PROVE  /\ UNCHANGED req => Goal
               /\ \A s : req' = [req EXCEPT ![p].session = s] => Goal
               /\ req' = [req EXCEPT ![p].now = clock] => Goal
               /\ \A a : req' = [req EXCEPT ![p].auth = a] => Goal
    BY <1>2, <1>3, Proceeded DEF Carries
  <1>4. CallsOf(p) => Goal
    OBVIOUS
  <1> HIDE DEF Goal
  <1>5. CASE Validate(p)
    BY <1>1, <1>3, <1>4, <1>5, Zenon DEF CallsOf, Validate, ValidateFind,
         ValidateClock, ValidateUser, ValidateDelete, ValidateTouch,
         ValidateTouchFind, ValidateTouchSave
  <1>6. CASE Revocation(p)
    BY <1>1, <1>3, <1>4, <1>6, Zenon DEF CallsOf, Revocation, LogoutFind,
         LogoutUser, LogoutDelete, RevokeFind, RevokeDelete, RevokeAll
  <1>7. CASE Login(p)
    <2>1. CASE LoginClock(p)
      <3>1. pc[p] = "login_clock"
        BY <2>1 DEF LoginClock
      <3>2. CASE Return(p, "overflowed")
        BY <1>1, <3>1, <3>2
      <3>3. CASE /\ \E l \in {"login_wipe", "login_save"} : Proceed(p, l)
                 /\ req' = [req EXCEPT ![p].now = clock]
        BY <1>3, <3>1, <3>3
      <3> QED BY <2>1, <3>2, <3>3 DEF LoginClock
    <2>2. CASE LoginFind(p) \/ LoginWipe(p) \/ LoginSave(p) \/ CallLogin(p)
      BY <1>1, <1>3, <1>4, <2>2, Zenon DEF CallsOf, LoginFind, LoginWipe,
           LoginSave, SaveSession
    <2> QED BY <1>7, <2>1, <2>2 DEF Login
  <1>8. CASE StoreFault(p) \/ Cancel(p)
    <2>1. pc[p] # "idle"
      BY <1>8 DEF StoreFault, Cancel, Awaiting
    <2> QED BY <1>1, <1>3, <1>8, <2>1, Zenon DEF StoreFault, Cancel
  <1> QED BY <1>5, <1>6, <1>7, <1>8 DEF Own

\* The session a request holds after its step: the one it held, the stored
\* one, or the stored one as its touch rewrites it.
LEMMA Reads ==
  ASSUME TypeOK, NEW p \in Procs, Own(p), pc'[p] \in HoldsSession
  PROVE  /\ req'[p].token = req[p].token /\ req[p].token \in Tokens
         /\ \/ /\ pc[p] \in HoldsSession
               /\ req'[p].session = req[p].session
            \/ req'[p].session = Stored(req[p].token)
            \/ /\ pc[p] = "validate_touch" /\ Stored(req[p].token) # None
               /\ req'[p].session = Touched(p, Stored(req[p].token))
  <1> DEFINE s == Stored(req[p].token)
  <1>1. req[p] \in Requests /\ req \in [Procs -> Requests]
    BY DEF TypeOK, RequestsOK
  <1>2. \A r : /\ req' = [req EXCEPT ![p].session = r] =>
                    req'[p].token = req[p].token /\ req'[p].session = r
               /\ req' = [req EXCEPT ![p].now = r] =>
                    /\ req'[p].token = req[p].token
                    /\ req'[p].session = req[p].session
    BY <1>1
  <1>3. \A v : ~ Return(p, v)
    <2>1. "idle" \notin HoldsSession
      BY DEF HoldsSession
    <2> QED BY <2>1, Returned
  <1>4. req[p].op \in TokenOps => req[p].token \in Tokens
    BY Registers
  <1>5. CASE pc'[p] \in {"validate_clock", "logout_user"}
    <2>1. ValidateFind(p) \/ LogoutFind(p)
      BY <1>5, Arrivals
    <2>2. pc[p] \in LabelsOf("validate") \/ pc[p] \in LabelsOf("logout")
      BY <2>1 DEF ValidateFind, LogoutFind, LabelsOf
    <2>3. req[p].op \in TokenOps
      BY <2>2, OpAt
    <2>4. req' = [req EXCEPT ![p].session = s]
      BY <1>3, <2>1, Zenon DEF ValidateFind, LogoutFind
    <2> QED BY <1>2, <1>4, <2>3, <2>4
  <1>6. CASE pc'[p] \in {"validate_user", "validate_delete", "validate_touch",
                         "logout_delete"}
    <2>1. ValidateClock(p) \/ ValidateUser(p) \/ LogoutUser(p)
      BY <1>6, Arrivals
    <2>2. /\ pc[p] \in HoldsSession
          /\ pc[p] \in LabelsOf("validate") \/ pc[p] \in LabelsOf("logout")
      BY <2>1 DEF ValidateClock, ValidateUser, LogoutUser, LabelsOf, HoldsSession
    <2>3. req[p].op \in TokenOps
      BY <2>2, OpAt
    <2>4. UNCHANGED req \/ req' = [req EXCEPT ![p].now = clock]
      BY <1>3, <2>1, Zenon DEF ValidateClock, ValidateUser, LogoutUser
    <2> QED BY <1>2, <1>4, <2>2, <2>3, <2>4
  <1>7. CASE pc'[p] = "validate_save"
    <2>1. ValidateTouchFind(p)
      BY <1>7, Arrivals
    <2>2. pc[p] = "validate_touch" /\ pc[p] \in LabelsOf("validate")
      BY <2>1 DEF ValidateTouchFind, LabelsOf
    <2>3. req[p].op \in TokenOps
      BY <2>2, OpAt
    <2>4. s # None /\ req' = [req EXCEPT ![p].session = Touched(p, s)]
      BY <1>3, <2>1, Zenon DEF ValidateTouchFind
    <2> QED BY <1>2, <1>4, <2>2, <2>3, <2>4
  <1> QED BY <1>5, <1>6, <1>7 DEF HoldsSession

\* s is a session of token t: the stored one, or one that a request holds.
Copy(t, s) ==
  \/ s = Stored(t)
  \/ \E p \in Procs : /\ pc[p] \in HoldsSession
                      /\ req[p].token = t /\ req[p].session = s

\* Where the sessions of a token come from: every one of them is an earlier
\* one, an earlier one touched, or the session of the login that minted it.
LEMMA CopySources ==
  ASSUME TypeOK, [Next]_vars, NEW t \in Tokens, NEW s \in Session, Copy(t, s)'
  PROVE  \/ Copy(t, s)
         \/ \E p \in Procs, r \in Session :
              /\ pc[p] = "validate_touch" /\ req[p].token = t
              /\ Copy(t, r) /\ s = Touched(p, r)
         \/ \E p \in Procs :
              /\ MintedBy(p, t)
              /\ s = NewSession(req[p].user, req[p].now, req[p].auth)
  <1>1. Stored(t) \in Session \cup {None} /\ s # None /\ Copy(t, Stored(t))
    BY NoneAssumption DEF TypeOK, SharedOK, Copy
  <1>2. CASE s = Stored(t)'
    <2>1. CASE Kept(t)
      BY <1>1, <1>2, <2>1 DEF Kept
    <2>2. ASSUME NEW p \in Procs, TouchedBy(p, t)
          PROVE  \E r \in Session :
                   /\ pc[p] = "validate_touch" /\ req[p].token = t
                   /\ Copy(t, r) /\ s = Touched(p, r)
      BY <1>1, <1>2, <2>2 DEF TouchedBy
    <2>3. ASSUME NEW p \in Procs, SavedBy(p, t)
          PROVE  Copy(t, s)
      BY <1>2, <2>3 DEF SavedBy, Copy, HoldsSession
    <2>4. ASSUME NEW p \in Procs, MintedBy(p, t)
          PROVE  s = NewSession(req[p].user, req[p].now, req[p].auth)
      BY <1>2, <2>4 DEF MintedBy
    <2> QED BY <2>1, <2>2, <2>3, <2>4, StoreStep
  <1>3. ASSUME NEW p \in Procs, pc'[p] \in HoldsSession, req'[p].token = t,
               req'[p].session = s
        PROVE  \/ Copy(t, s)
               \/ \E r \in Session :
                    /\ pc[p] = "validate_touch" /\ req[p].token = t
                    /\ Copy(t, r) /\ s = Touched(p, r)
    <2>1. CASE Quiet(p)
      BY <1>3, <2>1 DEF Quiet, Copy
    <2>2. CASE Own(p)
      <3>1. req[p].token = t
        BY <1>3, <2>2, Reads
      <3>2. CASE pc[p] \in HoldsSession /\ req'[p].session = req[p].session
        BY <1>3, <3>1, <3>2 DEF Copy
      <3>3. CASE req'[p].session = Stored(t)
        BY <1>1, <1>3, <3>3
      <3>4. CASE /\ pc[p] = "validate_touch" /\ Stored(t) # None
                 /\ req'[p].session = Touched(p, Stored(t))
        BY <1>1, <1>3, <3>1, <3>4
      <3> QED BY <1>3, <2>2, <3>1, <3>2, <3>3, <3>4, Reads
    <2> QED BY <2>1, <2>2, OwnOrQuiet
  <1>4. \/ s = Stored(t)'
        \/ \E p \in Procs : /\ pc'[p] \in HoldsSession
                            /\ req'[p].token = t /\ req'[p].session = s
    BY DEF Copy, HoldsSession
  <1> QED BY <1>2, <1>3, <1>4

-----------------------------------------------------------------------------
\* Whose session it is, and which password it stands for.

\* Every session of a token, stored or held by a request, is one its login
\* proved: its user, and with session_auth_hash that user's password then.
CopyProven(t, s) ==
  /\ t \in Minted /\ s.user = verified[t].user
  /\ AuthHashBound => s.auth = verified[t].password

CopiesProven == \A t \in Tokens, s \in Session : Copy(t, s) => CopyProven(t, s)

\* A login carries the hash of the password it verified; a request about a
\* user remembers tokens of that user; and a validation past the auth-hash
\* check asks about a token no older than the password of its call.
RequestProven(p) ==
  /\ pc[p] \in {"login_clock", "login_wipe", "login_save"} /\ AuthHashBound
       => req[p].auth = req[p].password
  /\ req[p].op \in UserOps => \A t \in began[p].live :
       t \in Minted /\ verified[t].user = req[p].user
  /\ req[p].op = "validate" =>
       began[p].hash <= users[verified[req[p].token].user].hash
  /\ pc[p] \in {"validate_touch", "validate_save"} /\ AuthHashBound
       => began[p].hash <= verified[req[p].token].password

ProvenOK == CopiesProven /\ \A p \in Procs : RequestProven(p)

\* The session a request reads is stored, so it is one of its token.
LEMMA HeldIsCopy ==
  ASSUME TypeOK, NEW p \in Procs, pc[p] \in HoldsSession
  PROVE  /\ req[p].op \in TokenOps /\ req[p].token \in Tokens
         /\ req[p].session \in Session /\ Copy(req[p].token, req[p].session)
  <1>1. req[p].session \in Session /\ pc[p] \in LabelsOf(req[p].op)
        /\ req[p].op \in Ops
    BY Registers
  <1>2. req[p].op \in TokenOps
    BY <1>1 DEF LabelsOf, HoldsSession
  <1>3. req[p].token \in Tokens
    BY <1>2, Registers
  <1> QED BY <1>1, <1>2, <1>3 DEF Copy

\* The copies of a session that requests hold stay proven.
LEMMA CopiesStayProven ==
  ASSUME TypeOK, ProvenOK, [Next]_vars
  PROVE  CopiesProven'
  <1> SUFFICES ASSUME NEW t \in Tokens, NEW s \in Session, Copy(t, s)'
               PROVE  CopyProven(t, s)'
    BY DEF CopiesProven
  <1>1. ASSUME NEW r \in Session, Copy(t, r), s.user = r.user, s.auth = r.auth
        PROVE  CopyProven(t, s)'
    <2>1. CopyProven(t, r)
      BY <1>1 DEF ProvenOK, CopiesProven
    <2> QED BY <1>1, <2>1, MintedStays DEF CopyProven
  <1>2. ASSUME NEW p \in Procs, NEW r \in Session, Copy(t, r), s = Touched(p, r)
        PROVE  CopyProven(t, s)'
    <2>1. s.user = r.user /\ s.auth = r.auth
      BY <1>2 DEF Touched, set_expiry_and_last_active
    <2> QED BY <1>1, <1>2, <2>1
  <1>3. ASSUME NEW p \in Procs, MintedBy(p, t),
               s = NewSession(req[p].user, req[p].now, req[p].auth)
        PROVE  CopyProven(t, s)'
    <2>1. s.user = req[p].user /\ s.auth = req[p].auth
      BY <1>3 DEF NewSession
    <2>2. /\ verified'[t].user = req[p].user
          /\ verified'[t].password = req[p].password
      BY <1>3 DEF MintedBy
    <2>3. t \in Minted'
      <3>1. verified'[t] \in Credential
        <4>1. pc[p] \in LabelsOf("login")
          BY <1>3 DEF MintedBy, LabelsOf
        <4>2. req[p].user \in Users /\ req[p].password \in Nat
          BY <4>1, OpAt, Registers
        <4> QED BY <1>3, <4>2 DEF MintedBy
      <3> QED BY <3>1, NoneAssumption
    <2>4. AuthHashBound => req[p].auth = req[p].password
      BY <1>3 DEF MintedBy, ProvenOK, RequestProven
    <2> QED BY <2>1, <2>2, <2>3, <2>4 DEF CopyProven
  <1> QED BY <1>1, <1>2, <1>3, CopySources

\* A login that was verified before a password change carries the old hash.
LEMMA RequestsStayProven ==
  ASSUME TypeOK, ProvenOK, [Next]_vars, NEW p \in Procs
  PROVE  RequestProven(p)'
  <1> DEFINE AuthProven ==
               pc[p] \in {"login_clock", "login_wipe", "login_save"}
               /\ AuthHashBound => req[p].auth = req[p].password
             LiveProven ==
               req[p].op \in UserOps => \A t \in began[p].live :
                 t \in Minted /\ verified[t].user = req[p].user
             HashProven ==
               req[p].op = "validate" =>
                 began[p].hash <= users[verified[req[p].token].user].hash
             TouchProven ==
               pc[p] \in {"validate_touch", "validate_save"} /\ AuthHashBound
                 => began[p].hash <= verified[req[p].token].password
  <1>1. AuthProven /\ LiveProven /\ HashProven /\ TouchProven
    BY DEF ProvenOK, RequestProven
  <1>2. TypeOK'
    BY NextKeepsType
  <1>3. AuthProven'
    <2>1. CASE Quiet(p)
      BY <1>1, <2>1 DEF Quiet
    <2>2. CASE Own(p) /\ pc'[p] = "login_clock"
      <3>1. LoginFind(p) /\ pc[p] = "login_find"
        BY <2>2, Arrivals DEF LoginFind
      <3>2. req[p].op = "login" /\ req[p] \in Requests
        BY <3>1, OpAt, Registers DEF LabelsOf
      <3>3. /\ users[req[p].user].hash = req[p].password
            /\ req' = [req EXCEPT ![p].auth = session_auth_hash(req[p].user)]
        <4>1. ~ Return(p, "error")
          BY <2>2, Returned
        <4> QED BY <3>1, <4>1 DEF LoginFind
      <3>4. /\ req'[p].auth = session_auth_hash(req[p].user)
            /\ req'[p].password = req[p].password
        BY <3>2, <3>3 DEF TypeOK, RequestsOK
      <3> QED BY <3>3, <3>4 DEF session_auth_hash
    <2>3. CASE Own(p) /\ pc'[p] \in {"login_wipe", "login_save"}
      <3>1. LoginClock(p) \/ LoginWipe(p) \/ StoreFault(p)
        BY <2>3, Arrivals
      <3>2. ~ \E v : Return(p, v)
        BY <2>3, Returned
      <3>3. /\ pc[p] \in {"login_clock", "login_wipe"}
            /\ UNCHANGED req \/ req' = [req EXCEPT ![p].now = clock]
        BY <3>1, <3>2, Zenon DEF LoginClock, LoginWipe, StoreFault
      <3>4. req'[p].auth = req[p].auth /\ req'[p].password = req[p].password
        BY <3>3 DEF TypeOK, RequestsOK
      <3> QED BY <1>1, <3>3, <3>4
    <2> QED BY <2>1, <2>2, <2>3, OwnOrQuiet
  <1>4. \A t \in Minted : t \in Minted' /\ verified'[t] = verified[t]
    BY MintedStays
  <1>5. LiveProven'
    <2>1. CASE Quiet(p) \/ Carries(p)
      BY <1>1, <1>4, <2>1 DEF Quiet, Carries
    <2>2. CASE Answered(p)
      BY <2>2 DEF Answered
    <2>3. CASE CallValidate(p) \/ CallLogout(p) \/ CallRevoke(p)
      BY <2>3, CallRecords
    <2>4. CASE CallRevokeAll(p) \/ CallLogin(p)
      <3>3. PICK u \in Users :
              began'[p].live = LiveTokens(u) /\ req'[p].user = u
        BY <2>4, CallRecords
      <3>4. ASSUME NEW t \in LiveTokens(u)
            PROVE  t \in Minted /\ verified[t].user = u
        <4>1. /\ t \in Tokens /\ Stored(t) \in Session
              /\ Stored(t).user = u /\ Copy(t, Stored(t))
          BY DEF LiveTokens, SessionsOf, TypeOK, SharedOK, Copy
        <4> QED BY <4>1 DEF ProvenOK, CopiesProven, CopyProven
      <3> QED BY <1>4, <3>3, <3>4
    <2> QED BY <2>1, <2>2, <2>3, <2>4, OwnOrQuiet, CallCarryAnswer DEF CallsOf
  <1>6. \A u \in Users : /\ users[u].hash \in Nat /\ users'[u].hash \in Nat
                         /\ users[u].hash <= users'[u].hash
    BY <1>2, OnlyForward DEF TypeOK, SharedOK
  <1>7. began[p].hash \in Nat
    BY DEF TypeOK, RequestsOK
  <1>8. HashProven'
    <2>1. CASE Quiet(p) \/ Carries(p)
      <3> SUFFICES ASSUME req'[p].op = "validate"
                   PROVE  began'[p].hash <= users'[verified'[req'[p].token].user].hash
        OBVIOUS
      <3>1. /\ req[p].op = "validate" /\ req'[p].token = req[p].token
            /\ began'[p] = began[p]
        BY <2>1 DEF Quiet, Carries
      <3>2. req[p].token \in Minted
        BY <3>1, Registers
      <3>3. verified[req[p].token].user \in Users
        BY <3>2 DEF TypeOK, SharedOK
      <3> QED BY <1>1, <1>4, <1>6, <1>7, <3>1, <3>2, <3>3
    <2>2. CASE Answered(p)
      BY <2>2 DEF Answered
    <2>3. CASE CallRevokeAll(p) \/ CallLogin(p)
      BY <2>3, CallRecords
    <2>4. CASE CallValidate(p) \/ CallLogout(p) \/ CallRevoke(p)
      <3>3. PICK t \in Minted :
              /\ began'[p].hash = users[verified[t].user].hash
              /\ req'[p].token = t /\ UNCHANGED shared
        BY <2>4, CallRecords
      <3>4. UNCHANGED <<users, verified>>
        BY <3>3 DEF shared
      <3>5. verified[t].user \in Users
        BY <3>4 DEF TypeOK, SharedOK
      <3> QED BY <1>6, <3>3, <3>4, <3>5
    <2> QED BY <2>1, <2>2, <2>3, <2>4, OwnOrQuiet, CallCarryAnswer DEF CallsOf
  <1>9. TouchProven'
    <2>1. CASE Quiet(p)
      <3> SUFFICES ASSUME pc[p] \in {"validate_touch", "validate_save"}
                   PROVE  TouchProven'
        BY <2>1 DEF Quiet
      <3>1. pc[p] \in LabelsOf("validate")
        BY DEF LabelsOf
      <3>2. req[p].token \in Minted
        BY <3>1, OpAt, Registers
      <3> QED BY <1>1, <1>4, <2>1, <3>2 DEF Quiet
    <2>2. CASE Own(p) /\ pc'[p] \in {"validate_touch", "validate_save"}
      <3>1. ValidateUser(p) \/ ValidateTouchFind(p)
        BY <2>2, Arrivals
      <3>2. /\ pc[p] \in {"validate_user", "validate_touch"}
            /\ pc[p] \in HoldsSession /\ pc[p] \in LabelsOf("validate")
        BY <3>1 DEF ValidateUser, ValidateTouchFind, HoldsSession, LabelsOf
      <3>3. /\ req[p].op = "validate" /\ req[p].token \in Minted
            /\ req[p].session \in Session /\ Copy(req[p].token, req[p].session)
        BY <3>2, OpAt, Registers, HeldIsCopy
      <3>4. Carries(p)
        <4>1. ~ CallsOf(p)
          BY <3>2 DEF CallsOf, CallValidate, CallLogout, CallRevoke,
                      CallRevokeAll, CallLogin, CallOnToken, CallOnUser
        <4> QED BY <2>2, <4>1, CallCarryAnswer DEF Answered
      <3>5. AuthHashBound => began[p].hash <= verified[req[p].token].password
        <4>1. CASE pc[p] = "validate_touch"
          BY <1>1, <4>1
        <4>2. CASE pc[p] = "validate_user"
          <5> SUFFICES ASSUME AuthHashBound
                       PROVE  began[p].hash <= verified[req[p].token].password
            OBVIOUS
          <5>1. CopyProven(req[p].token, req[p].session)
            BY <3>3 DEF ProvenOK, CopiesProven
          <5>2. ~ AuthHashChanged(req[p].session)
            <6>1. ~ ValidateTouchFind(p)
              BY <4>2 DEF ValidateTouchFind
            <6>2. ~ Proceed(p, "validate_delete") /\ ~ Return(p, "panicked")
              <7>1. pc'[p] \notin {"validate_delete", "idle"}
                BY <2>2
              <7> QED BY <7>1, Returned, Proceeded
            <6> QED BY <3>1, <6>1, <6>2 DEF ValidateUser
          <5>3. /\ req[p].session.auth = verified[req[p].token].password
                /\ req[p].session.user = verified[req[p].token].user
            BY <5>1 DEF CopyProven
          <5>4. /\ users[req[p].session.user].hash \in Nat
                /\ req[p].session.auth \in Nat
            BY <3>3, <5>3 DEF TypeOK, SharedOK
          <5>5. users[req[p].session.user].hash = req[p].session.auth
            BY <5>2, <5>4, NoneAssumption DEF AuthHashChanged, session_auth_hash
          <5> QED BY <1>1, <3>3, <5>3, <5>5
        <4> QED BY <3>2, <4>1, <4>2
      <3> QED BY <1>4, <3>3, <3>4, <3>5 DEF Carries
    <2> QED BY <2>1, <2>2, OwnOrQuiet
  <1> QED BY <1>3, <1>5, <1>8, <1>9 DEF RequestProven

\* What every login, call and copy stands for holds in every state.
LEMMA AlwaysProven == Spec => []ProvenOK
  <1>1. Init => ProvenOK
    <2> SUFFICES ASSUME Init PROVE ProvenOK
      OBVIOUS
    <2>1. \A t \in Tokens, s \in Session : ~ Copy(t, s)
      BY NoneAssumption DEF Init, Copy, HoldsSession
    <2>2. \A p \in Procs : RequestProven(p)
      BY DEF Init, RequestProven, NoRequest
    <2> QED BY <2>1, <2>2 DEF ProvenOK, CopiesProven
  <1>2. TypeOK /\ ProvenOK /\ [Next]_vars => ProvenOK'
    BY CopiesStayProven, RequestsStayProven DEF ProvenOK
  <1> QED BY <1>1, <1>2, TypeCorrect, PTL DEF Spec

-----------------------------------------------------------------------------
\* What each answer means.

\* The steps that can give each answer.
LEMMA Answering ==
  ASSUME TypeOK, [Next]_vars, NEW p \in Procs, NEW op, NEW v, Answers(p, op, v)
  PROVE  /\ req[p].op = op
         /\ v = "accepted" => pc[p] \in {"validate_touch", "validate_save"}
         /\ v = "rejected" =>
              ValidateFind(p) \/ ValidateDelete(p) \/ StoreFault(p)
         /\ v = "panicked" => ValidateUser(p)
         /\ op = "revoke_all" /\ v = "ok" => RevokeAll(p)
         /\ op = "login" /\ v = "ok" => LoginSave(p)
  <1>1. /\ pc[p] # "idle" /\ pc'[p] = "idle" /\ req[p].op = op
        /\ req'[p].result = v
    BY DEF Answers
  <1>2. Own(p)
    BY <1>1, OwnOrQuiet DEF Quiet
  <1>3. ~ CallsOf(p)
    BY <1>1 DEF CallsOf, CallValidate, CallLogout, CallRevoke, CallRevokeAll,
                CallLogin, CallOnToken, CallOnUser
  <1>4. \A w : Return(p, w) => w = v
    BY <1>1, Returned
  <1>5. \A l : Proceed(p, l) => l = "idle"
    BY <1>1, Proceeded
  <1>6. /\ ~ ValidateClock(p) /\ ~ LoginWipe(p)
    BY <1>1, Targets
  <1>7. /\ ValidateFind(p) => v = "rejected"
        /\ ValidateUser(p) => v = "panicked"
        /\ ValidateDelete(p) => v = "rejected"
        /\ ValidateTouch(p) \/ ValidateTouchSave(p) => v = "accepted"
        /\ ValidateTouchFind(p) => v = "accepted"
        /\ LogoutFind(p) \/ LogoutUser(p) \/ LogoutDelete(p) => v = "ok"
        /\ RevokeFind(p) => v = "absent"
        /\ RevokeDelete(p) \/ RevokeAll(p) \/ LoginSave(p) => v = "ok"
        /\ LoginFind(p) => v = "error"
        /\ LoginClock(p) => v = "overflowed"
        /\ Cancel(p) => v = "none"
        /\ StoreFault(p) =>
             \/ v \in {"error", "rejected"}
             \/ v = "accepted" /\ pc[p] \in {"validate_touch", "validate_save"}
    BY <1>4, <1>5 DEF ValidateFind, ValidateUser, ValidateDelete,
       ValidateTouch, ValidateTouchSave, ValidateTouchFind, LogoutFind,
       LogoutUser, LogoutDelete, RevokeFind, RevokeDelete, RevokeAll,
       LoginSave, SaveSession, LoginFind, LoginClock, Cancel, StoreFault
  <1>8. CASE v = "accepted"
    <2>1. \/ ValidateTouch(p) \/ ValidateTouchFind(p) \/ ValidateTouchSave(p)
          \/ StoreFault(p) /\ pc[p] \in {"validate_touch", "validate_save"}
      BY <1>2, <1>3, <1>6, <1>7, <1>8
         DEF Own, Validate, Revocation, Login, CallsOf
    <2>2. pc[p] \in {"validate_touch", "validate_save"}
      BY <2>1 DEF ValidateTouch, ValidateTouchFind, ValidateTouchSave
    <2> QED BY <1>1, <1>8, <2>2
  <1>9. CASE v = "rejected"
    <2>1. ValidateFind(p) \/ ValidateDelete(p) \/ StoreFault(p)
      BY <1>2, <1>3, <1>6, <1>7, <1>9
         DEF Own, Validate, Revocation, Login, CallsOf
    <2> QED BY <1>1, <1>9, <2>1
  <1>11. CASE v = "panicked"
    <2>1. ValidateUser(p)
      BY <1>2, <1>3, <1>6, <1>7, <1>11
         DEF Own, Validate, Revocation, Login, CallsOf
    <2> QED BY <1>1, <1>11, <2>1
  <1>10. CASE v = "ok"
    <2>1. \/ LogoutFind(p) \/ LogoutUser(p) \/ LogoutDelete(p)
          \/ RevokeDelete(p) \/ RevokeAll(p) \/ LoginSave(p)
      BY <1>2, <1>3, <1>6, <1>7, <1>10
         DEF Own, Validate, Revocation, Login, CallsOf
    <2>2. pc[p] \in LabelsOf(op)
      BY <1>1, Registers
    <2>3. /\ op = "revoke_all" => pc[p] = "revoke_all"
          /\ op = "login" => pc[p] \in {"login_find", "login_clock",
                                        "login_wipe", "login_save"}
      BY <2>2 DEF LabelsOf
    <2>4. /\ op = "revoke_all" => RevokeAll(p)
          /\ op = "login" => LoginSave(p)
      BY <2>1, <2>3 DEF LogoutFind, LogoutUser, LogoutDelete, RevokeDelete,
                        RevokeAll, LoginSave, SaveSession
    <2> QED BY <1>1, <1>10, <2>4
  <1> QED BY <1>1, <1>8, <1>9, <1>10, <1>11

\* A validation never accepts a session that was opened with a password older
\* than the one its user had when the validation was called, whatever ran in
\* between and for either touch.
THEOREM NewPasswordNeeded == Spec => StaleHashNeverAccepted
  <1>1. ASSUME TypeOK, ProvenOK, [Next]_vars, NEW p \in Procs, AuthHashBound,
               Answers(p, "validate", "accepted")
        PROVE  verified[req[p].token].password >= began[p].hash
    <2>1. /\ pc[p] \in {"validate_touch", "validate_save"}
          /\ req[p].op = "validate"
      BY <1>1, Answering
    <2>2. began[p].hash <= verified[req[p].token].password
      BY <1>1, <2>1 DEF ProvenOK, RequestProven
    <2>3. req[p].token \in Minted
      BY <1>1, <2>1, Registers
    <2>4. began[p].hash \in Nat /\ verified[req[p].token].password \in Nat
      BY <1>1, <2>3 DEF TypeOK, SharedOK, RequestsOK
    <2> QED BY <2>2, <2>4
  <1>2. TypeOK /\ ProvenOK /\ [Next]_vars =>
          [\A p \in Procs :
             AuthHashBound /\ Answers(p, "validate", "accepted")
               => verified[req[p].token].password >= began[p].hash]_vars
    BY <1>1
  <1> QED BY <1>2, TypeCorrect, AlwaysProven, PTL
          DEF Spec, StaleHashNeverAccepted

\* Deleting the sessions of a user kills every token a request about that
\* user found live when it was called.
LEMMA WipeKills ==
  ASSUME TypeOK, ProvenOK, NEW p \in Procs, req[p].op \in UserOps,
         Delete(SessionsOf(req[p].user)), UNCHANGED verified,
         NEW t \in began[p].live
  PROVE  Dead(t)'
  <1> DEFINE id == hash_for_storage(t)
  <1>1. t \in Minted /\ verified[t].user = req[p].user
    BY DEF ProvenOK, RequestProven
  <1>2. id \in StorageIds /\ Stored(t) \in Session \cup {None}
        /\ Copy(t, Stored(t))
    BY <1>1 DEF TypeOK, SharedOK, Copy
  <1>3. Stored(t) # None => Stored(t).user = req[p].user
    BY <1>1, <1>2 DEF ProvenOK, CopiesProven, CopyProven
  <1>4. store'[id] = None
    BY <1>2, <1>3 DEF Delete, SessionsOf
  <1> QED BY <1>1, <1>4 DEF Dead

\* When revoke_all_user_sessions answers Ok, every session the user had when
\* it was called is gone, for either touch and whatever ran in between.
THEOREM RevokeAllIsEffective == Spec => RevokeAllEndsSessions
  <1>1. ASSUME TypeOK, ProvenOK, [Next]_vars, NEW p \in Procs,
               Answers(p, "revoke_all", "ok"), NEW t \in began[p].live
        PROVE  Dead(t)'
    <2>1. RevokeAll(p) /\ req[p].op \in UserOps
      BY <1>1, Answering
    <2> QED BY <1>1, <2>1, WipeKills DEF RevokeAll
  <1>2. TypeOK /\ ProvenOK /\ [Next]_vars =>
          [\A p \in Procs : Answers(p, "revoke_all", "ok")
             => \A t \in began[p].live : Dead(t)']_vars
    BY <1>1
  <1> QED BY <1>2, TypeCorrect, AlwaysProven, PTL
          DEF Spec, RevokeAllEndsSessions

\* When logout answers Ok the session is gone, for either touch and whatever
\* ran in between, or the UserStore does not find the user of that session.
\* The user it looks up is the user of the session it read, and by ProvenOK
\* the one whose login made the token.
THEOREM LogoutIsEffective == Spec => LogoutEndsSession
  <1>1. ASSUME TypeOK, ProvenOK, [Next]_vars, NEW p \in Procs,
               NEW t \in Tokens, req[p].token = t, Answers(p, "logout", "ok")
        PROVE  Dead(t)' \/ ~ users[verified[t].user].active
    <2>1. t \in Minted /\ (LogoutFind(p) \/ LogoutUser(p) \/ LogoutDelete(p))
      BY <1>1, AnswerSteps
    <2>2. CASE LogoutDelete(p)
      BY <1>1, <2>1, <2>2, DeletedIsDead DEF LogoutDelete
    <2>3. CASE LogoutFind(p)
      <3>1. ~ Proceed(p, "logout_user")
        BY <1>1, Proceeded DEF Answers
      <3>2. Stored(req[p].token) = None
        BY <2>3, <3>1 DEF LogoutFind
      <3>3. UNCHANGED <<store, verified>>
        BY <2>3 DEF LogoutFind, shared
      <3> QED BY <1>1, <2>1, <3>2, <3>3, DeletedIsDead
    <2>4. CASE LogoutUser(p)
      <3>1. ~ Proceed(p, "logout_delete")
        BY <1>1, Proceeded DEF Answers
      <3>2. ~ users[req[p].session.user].active
        BY <2>4, <3>1 DEF LogoutUser
      <3>3. pc[p] \in HoldsSession
        BY <2>4 DEF LogoutUser, HoldsSession
      <3>4. CopyProven(t, req[p].session)
        BY <1>1, <3>3, HeldIsCopy DEF ProvenOK, CopiesProven
      <3> QED BY <3>2, <3>4 DEF CopyProven
    <2> QED BY <2>1, <2>2, <2>3, <2>4
  <1>2. TypeOK /\ ProvenOK /\ [Next]_vars =>
          [\A p \in Procs, t \in Tokens :
             req[p].token = t /\ Answers(p, "logout", "ok")
               => Dead(t)' \/ ~ users[verified[t].user].active]_vars
    BY <1>1
  <1> QED BY <1>2, TypeCorrect, AlwaysProven, PTL DEF Spec, LogoutEndsSession

\* A validation that is refused, with no store call failing, leaves no session
\* to accept later.
THEOREM RefusalIsFinal == Spec => RejectionIsFinal
  <1>1. ASSUME TypeOK, [Next]_vars, NEW p \in Procs, NEW t \in Tokens,
               req[p].token = t, faults' = 0,
               Answers(p, "validate", "rejected")
        PROVE  Dead(t)'
    <2>1. ~ StoreFault(p)
      BY <1>1 DEF StoreFault, TypeOK, SharedOK
    <2>2. ValidateFind(p) \/ ValidateDelete(p)
      BY <1>1, <2>1, Answering
    <2>3. t \in Minted
      BY <1>1, Answering, Registers
    <2>4. CASE ValidateDelete(p)
      BY <1>1, <2>3, <2>4, DeletedIsDead DEF ValidateDelete
    <2>5. CASE ValidateFind(p)
      <3>1. Stored(req[p].token) = None
        <4>1. ~ Proceed(p, "validate_clock")
          BY <1>1, Proceeded DEF Answers
        <4> QED BY <2>5, <4>1 DEF ValidateFind
      <3>2. UNCHANGED <<store, verified>>
        BY <2>5 DEF ValidateFind, shared
      <3> QED BY <1>1, <2>3, <3>1, <3>2, DeletedIsDead
    <2> QED BY <2>2, <2>4, <2>5
  <1>2. TypeOK /\ [Next]_vars =>
          [\A p \in Procs, t \in Tokens :
             req[p].token = t /\ faults' = 0 /\ Answers(p, "validate", "rejected")
               => Dead(t)']_vars
    BY <1>1
  <1> QED BY <1>2, TypeCorrect, PTL DEF Spec, RejectionIsFinal

\* A single-active-session login whose wipe did not fail has ended the
\* sessions it is about to supersede.
WipedFirst ==
  \A p \in Procs :
    SingleActive /\ faults = 0 /\ pc[p] = "login_save"
      => \A t \in began[p].live : Dead(t)

\* A superseding login has ended the sessions it began with before it saves.
LEMMA WipesFirst ==
  ASSUME AtomicTouch
  PROVE  Spec => []WipedFirst
  <1>1. Init => WipedFirst
    BY DEF Init, WipedFirst
  <1>2. ASSUME TypeOK, ProvenOK, WipedFirst, [Next]_vars
        PROVE  WipedFirst'
    <2> SUFFICES ASSUME NEW p \in Procs, SingleActive, faults' = 0,
                        pc'[p] = "login_save", NEW t \in began'[p].live
                 PROVE  Dead(t)'
      BY DEF WipedFirst
    <2>1. faults = 0
      BY <1>2, OnlyForward DEF TypeOK, SharedOK
    <2>2. CASE Quiet(p)
      <3>1. Dead(t) /\ t \in Tokens
        BY <1>2, <2>1, <2>2 DEF WipedFirst, Quiet, TypeOK, RequestsOK
      <3> QED BY <1>2, <3>1, DeadStaysDead
    <2>3. CASE Own(p)
      <3>1. LoginClock(p) \/ LoginWipe(p) \/ StoreFault(p)
        BY <1>2, <2>3, Arrivals
      <3>2. ~ StoreFault(p)
        BY <1>2, <2>1 DEF StoreFault, TypeOK, SharedOK
      <3>3. ~ LoginClock(p)
        <4>1. TypeOK /\ SingleActive /\ pc'[p] = "login_save"
          BY <1>2
        <4>2. ~ Return(p, "overflowed")
          BY <4>1, Returned
        <4>3. ~ Proceed(p, "login_wipe")
          BY <4>1, Proceeded
        <4> QED BY <4>1, <4>2, <4>3 DEF LoginClock
      <3>4. LoginWipe(p) /\ pc[p] \in LabelsOf("login")
        BY <3>1, <3>2, <3>3 DEF LoginWipe, LabelsOf
      <3>5. req[p].op \in UserOps
        BY <1>2, <3>4, OpAt
      <3>6. t \in began[p].live
        BY <1>2, <3>4, Proceeded DEF LoginWipe
      <3> QED BY <1>2, <3>4, <3>5, <3>6, WipeKills DEF LoginWipe
    <2> QED BY <1>2, <2>2, <2>3, OwnOrQuiet
  <1> QED BY <1>1, <1>2, TypeCorrect, AlwaysProven, PTL DEF Spec

\* With a store whose touch is a conditional update, a single-active-session
\* login answers Ok only once every session its user had when it was called
\* is gone, provided no store call failed.
THEOREM LastLoginWins ==
  ASSUME AtomicTouch
  PROVE  Spec => LoginSupersedes
  <1>1. ASSUME TypeOK, WipedFirst, [Next]_vars, NEW p \in Procs,
               SingleActive, faults = 0, Answers(p, "login", "ok"),
               NEW t \in began[p].live
        PROVE  Dead(t)'
    <2>1. pc[p] = "login_save"
      BY <1>1, Answering DEF LoginSave, SaveSession
    <2>2. Dead(t) /\ t \in Tokens
      BY <1>1, <2>1 DEF WipedFirst, TypeOK, RequestsOK
    <2> QED BY <1>1, <2>2, DeadStaysDead
  <1>2. TypeOK /\ WipedFirst /\ [Next]_vars =>
          [\A p \in Procs :
             SingleActive /\ faults = 0 /\ Answers(p, "login", "ok")
               => \A t \in began[p].live : Dead(t)']_vars
    BY <1>1
  <1> QED BY <1>2, TypeCorrect, WipesFirst, PTL DEF Spec, LoginSupersedes

-----------------------------------------------------------------------------
\* Time.  These facts are about a clock that is never set back.

\* Every session of a token, stored or held by a request, ends at most ttl
\* seconds after the login that created it and was last used before now.
CopyTimed(s) ==
  /\ s.expires <= s.created + Ttl
  /\ s.created <= clock
  /\ s.last # None => s.last <= clock

CopiesTimed ==
  \A t \in Tokens, s \in Session :
    Copy(t, s) =>
      CopyTimed(s) /\ \A r \in Session : Copy(t, r) => r.created = s.created

\* A request reads the clock after it was called, and a validation past the
\* expiry check was called within the lifetime of the session it holds.
RequestTimed(p) ==
  /\ req[p].now <= clock
  /\ req[p].op = "validate" => began[p].clock <= clock
  /\ pc[p] \in {"validate_user", "validate_touch", "validate_save"}
       => began[p].clock < req[p].session.created + Ttl
  /\ pc[p] = "validate_user" /\ req[p].session.last # None
       => req[p].session.last <= req[p].now

TimedOK == CopiesTimed /\ \A p \in Procs : RequestTimed(p)

\* Where a copy comes from, with what the source says about time.
LEMMA CopiesStayTimed ==
  ASSUME ~ ClockMayStepBack, TypeOK, ProvenOK, TimedOK, [Next]_vars
  PROVE  CopiesTimed'
  <1>1. clock \in Nat /\ clock' \in Nat /\ clock <= clock' /\ Ttl \in Nat
    BY NextKeepsType, OnlyForward, TtlAssumption DEF TypeOK, SharedOK
  <1>2. ASSUME NEW t \in Tokens, NEW s \in Session, Copy(t, s)'
        PROVE  /\ CopyTimed(s)'
               /\ \/ \E r \in Session : Copy(t, r) /\ r.created = s.created
                  \/ t \notin Minted /\ s = Stored(t)'
    <2>1. CASE Copy(t, s)
      <3>1. CopyTimed(s)
        BY <2>1 DEF TimedOK, CopiesTimed
      <3> QED BY <1>1, <2>1, <3>1 DEF CopyTimed
    <2>2. ASSUME NEW p \in Procs, NEW r \in Session,
                 pc[p] = "validate_touch", req[p].token = t,
                 Copy(t, r), s = Touched(p, r)
          PROVE  CopyTimed(s)' /\ r.created = s.created
      <3>1. req[p].session \in Session /\ Copy(t, req[p].session)
        BY <2>2, HeldIsCopy DEF HoldsSession
      <3>2. req[p].session.created = r.created /\ r.created <= clock
        BY <2>2, <3>1 DEF TimedOK, CopiesTimed, CopyTimed
      <3>3. req[p].now <= clock /\ req[p].now \in Nat
        BY DEF TimedOK, RequestTimed, TypeOK, RequestsOK
      <3>4. /\ s.created = r.created /\ s.expires <= r.created + Ttl
            /\ s.last = req[p].now
        <4>1. /\ s.created = r.created /\ s.last = req[p].now
              /\ s.expires = ExpiryOf(r.created)
          BY <2>2, <3>2 DEF Touched, set_expiry_and_last_active
        <4> QED BY <4>1, ExpiryType
      <3> QED BY <1>1, <2>2, <3>2, <3>3, <3>4 DEF CopyTimed
    <2>3. ASSUME NEW p \in Procs, MintedBy(p, t),
                 s = NewSession(req[p].user, req[p].now, req[p].auth)
          PROVE  CopyTimed(s)' /\ t \notin Minted /\ s = Stored(t)'
      <3>1. req[p].now <= clock /\ req[p].now \in Nat
        BY DEF TimedOK, RequestTimed, TypeOK, RequestsOK
      <3>2. /\ s.created = req[p].now /\ s.expires <= req[p].now + Ttl
            /\ s.last = None
        <4>1. /\ s.created = req[p].now /\ s.last = None
              /\ s.expires = ExpiryOf(req[p].now)
          BY <2>3 DEF NewSession
        <4> QED BY <3>1, <4>1, ExpiryType
      <3> QED BY <1>1, <2>3, <3>1, <3>2 DEF CopyTimed, MintedBy
    <2> QED BY <1>2, <2>1, <2>2, <2>3, CopySources
  <1>3. ASSUME NEW t \in Tokens, NEW s \in Session, Copy(t, s)',
               NEW r \in Session, Copy(t, r)'
        PROVE  r.created = s.created
    <2>1. ASSUME NEW q \in Session, Copy(t, q)
          PROVE  t \in Minted
      BY <2>1 DEF ProvenOK, CopiesProven, CopyProven
    <2>2. ASSUME NEW q1 \in Session, Copy(t, q1), NEW q2 \in Session, Copy(t, q2)
          PROVE  q1.created = q2.created
      BY <2>2 DEF TimedOK, CopiesTimed
    <2>3. CASE t \notin Minted
      BY <1>2, <1>3, <2>1, <2>3
    <2>4. CASE t \in Minted
      BY <1>2, <1>3, <2>2, <2>4
    <2> QED BY <2>3, <2>4
  <1> QED BY <1>2, <1>3 DEF CopiesTimed

\* Each request keeps its times no later than the clock.
LEMMA RequestsStayTimed ==
  ASSUME ~ ClockMayStepBack, TypeOK, TimedOK, [Next]_vars, NEW p \in Procs
  PROVE  RequestTimed(p)'
  <1> DEFINE NowTimed == req[p].now <= clock
             CallTimed == req[p].op = "validate" => began[p].clock <= clock
             LifeTimed ==
               pc[p] \in {"validate_user", "validate_touch", "validate_save"}
                 => began[p].clock < req[p].session.created + Ttl
             UseTimed ==
               pc[p] = "validate_user" /\ req[p].session.last # None
                 => req[p].session.last <= req[p].now
  <1>1. NowTimed /\ CallTimed /\ LifeTimed /\ UseTimed
    BY DEF TimedOK, RequestTimed
  <1>2. clock \in Nat /\ clock' \in Nat /\ clock <= clock' /\ Ttl \in Nat
    BY NextKeepsType, OnlyForward, TtlAssumption DEF TypeOK, SharedOK
  <1>3. req[p].now \in Nat /\ began[p].clock \in Nat
    BY DEF TypeOK, RequestsOK
  <1>4. NowTimed'
    <2>1. CASE Quiet(p) \/ Carries(p) \/ Answered(p)
      BY <1>1, <1>2, <1>3, <2>1 DEF Quiet, Carries, Answered
    <2>2. CASE CallsOf(p)
      BY <1>2, <2>2, CallRecords DEF CallsOf
    <2> QED BY <2>1, <2>2, OwnOrQuiet, CallCarryAnswer
  <1>5. CallTimed'
    <2>1. CASE Quiet(p) \/ Carries(p) \/ Answered(p)
      BY <1>1, <1>2, <1>3, <2>1 DEF Quiet, Carries, Answered
    <2>2. CASE CallValidate(p) \/ CallLogout(p) \/ CallRevoke(p)
      BY <1>2, <2>2, CallRecords DEF shared
    <2>3. CASE CallRevokeAll(p) \/ CallLogin(p)
      BY <2>3, CallRecords
    <2> QED BY <2>1, <2>2, <2>3, OwnOrQuiet, CallCarryAnswer DEF CallsOf
  <1>6. CASE Quiet(p)
    BY <1>1, <1>4, <1>5, <1>6 DEF Quiet, RequestTimed
  <1>7. CASE Own(p) /\ pc'[p] = "validate_user"
    <2>1. ValidateClock(p) /\ pc[p] = "validate_clock"
      BY <1>7, Arrivals DEF ValidateClock
    <2>2. /\ ~ is_expired_at(req[p].session, clock)
          /\ req'[p].now = clock /\ req'[p].session = req[p].session
      <3>1. ~ Proceed(p, "validate_delete")
        BY <1>7, Proceeded
      <3> QED BY <2>1, <3>1 DEF ValidateClock, TypeOK, RequestsOK
    <2>3. began'[p] = began[p]
      BY <2>1, Proceeded DEF ValidateClock
    <2>4. req[p].op = "validate"
      BY <2>1, OpAt DEF LabelsOf
    <2>5. req[p].session \in Session /\ CopyTimed(req[p].session)
      BY <2>1, HeldIsCopy DEF HoldsSession, TimedOK, CopiesTimed
    <2>6. began[p].clock < req[p].session.created + Ttl
      BY <1>1, <1>2, <1>3, <2>2, <2>4, <2>5 DEF is_expired_at, CopyTimed
    <2>7. req[p].session.last # None => req[p].session.last <= clock
      BY <2>5 DEF CopyTimed
    <2>8. LifeTimed' /\ UseTimed'
      BY <2>2, <2>3, <2>6, <2>7
    <2> QED BY <1>4, <1>5, <2>8 DEF RequestTimed
  <1>8. CASE Own(p) /\ pc'[p] = "validate_touch"
    <2>1. ValidateUser(p) /\ pc[p] = "validate_user"
      BY <1>8, Arrivals DEF ValidateUser
    <2>2. began'[p] = began[p] /\ req'[p] = req[p]
      <3>1. ~ Return(p, "panicked")
        BY <1>8, Returned
      <3> QED BY <2>1, <3>1, Proceeded DEF ValidateUser
    <2>3. LifeTimed' /\ UseTimed'
      BY <1>1, <1>8, <2>1, <2>2
    <2> QED BY <1>4, <1>5, <2>3 DEF RequestTimed
  <1>9. CASE Own(p) /\ pc'[p] = "validate_save"
    <2> DEFINE t == req[p].token
    <2>1. ValidateTouchFind(p) /\ pc[p] = "validate_touch"
      BY <1>9, Arrivals DEF ValidateTouchFind
    <2>2. /\ Stored(t) # None /\ Proceed(p, "validate_save")
          /\ req' = [req EXCEPT ![p].session = Touched(p, Stored(t))]
      <3>1. ~ Return(p, "accepted")
        BY <1>9, Returned
      <3> QED BY <2>1, <3>1 DEF ValidateTouchFind
    <2>3. /\ t \in Tokens /\ req[p].session \in Session
          /\ Copy(t, req[p].session)
      BY <2>1, HeldIsCopy DEF HoldsSession
    <2>4. Stored(t) \in Session /\ Copy(t, Stored(t))
      BY <2>2, <2>3 DEF TypeOK, SharedOK, Copy
    <2>5. Stored(t).created = req[p].session.created
      BY <2>3, <2>4 DEF TimedOK, CopiesTimed
    <2>6. req'[p].session = Touched(p, Stored(t)) /\ began'[p] = began[p]
      BY <2>2, Proceeded DEF TypeOK, RequestsOK
    <2>7. req'[p].session.created = req[p].session.created
      BY <2>4, <2>5, <2>6 DEF Touched, set_expiry_and_last_active
    <2>8. LifeTimed' /\ UseTimed'
      BY <1>1, <1>9, <2>1, <2>6, <2>7
    <2> QED BY <1>4, <1>5, <2>8 DEF RequestTimed
  <1>10. CASE pc'[p] \notin {"validate_user", "validate_touch", "validate_save"}
    BY <1>4, <1>5, <1>10 DEF RequestTimed
  <1> QED BY <1>6, <1>7, <1>8, <1>9, <1>10, OwnOrQuiet

\* While the wall clock does not step back, all times lie in the past.
LEMMA AlwaysTimed ==
  ASSUME ~ ClockMayStepBack
  PROVE  Spec => []TimedOK
  <1>1. Init => TimedOK
    <2> SUFFICES ASSUME Init PROVE TimedOK
      OBVIOUS
    <2>1. \A t \in Tokens, s \in Session : ~ Copy(t, s)
      BY NoneAssumption DEF Init, Copy, HoldsSession
    <2>2. \A p \in Procs : RequestTimed(p)
      BY DEF Init, RequestTimed, NoRequest
    <2> QED BY <2>1, <2>2 DEF TimedOK, CopiesTimed
  <1>2. TypeOK /\ ProvenOK /\ TimedOK /\ [Next]_vars => TimedOK'
    BY CopiesStayTimed, RequestsStayTimed DEF TimedOK
  <1> QED BY <1>1, <1>2, TypeCorrect, AlwaysProven, PTL DEF Spec

\* While the clock is never set back, no validation called ttl seconds or
\* more after the login is accepted: a touch never slides the lifetime, even
\* as a find and a save that another validation's touch runs between.
THEOREM LifetimeIsBounded ==
  ASSUME ~ ClockMayStepBack
  PROVE  Spec => AcceptedWithinTtl
  <1>1. ASSUME TypeOK, TimedOK, [Next]_vars, NEW p \in Procs,
               Answers(p, "validate", "accepted")
        PROVE  began[p].clock < req[p].session.created + Ttl
    <2>1. pc[p] \in {"validate_touch", "validate_save"}
      BY <1>1, Answering
    <2> QED BY <1>1, <2>1 DEF TimedOK, RequestTimed
  <1>2. TypeOK /\ TimedOK /\ [Next]_vars =>
          [\A p \in Procs : Answers(p, "validate", "accepted")
             => began[p].clock < req[p].session.created + Ttl]_vars
    BY <1>1
  <1> QED BY <1>2, TypeCorrect, AlwaysTimed, PTL DEF Spec, AcceptedWithinTtl

\* While the clock is never set back, the subtraction of the idle check never
\* underflows, so no validation panics in a build with overflow checks.
THEOREM IdleCheckIsSafe ==
  ASSUME ~ ClockMayStepBack
  PROVE  Spec => []NoPanic
  <1>1. Init => NoPanic
    BY DEF Init, NoPanic, NoRequest
  <1>2. ASSUME TypeOK, TimedOK, NoPanic, [Next]_vars
        PROVE  NoPanic'
    <2> SUFFICES ASSUME NEW p \in Procs, req'[p].result = "panicked"
                 PROVE  FALSE
      BY DEF NoPanic
    <2>1. req[p].result # "panicked"
      BY <1>2 DEF NoPanic
    <2>2. Own(p) /\ ~ Carries(p)
      BY <1>2, <2>1, OwnOrQuiet DEF Quiet, Carries
    <2>3. ~ CallsOf(p)
      BY <1>2, CallRecords DEF CallsOf
    <2>4. Answered(p)
      BY <1>2, <2>2, <2>3, CallCarryAnswer
    <2>5. ValidateUser(p) /\ pc[p] = "validate_user"
      <3>1. Answers(p, req[p].op, "panicked")
        BY <2>4 DEF Answered, Answers
      <3> QED BY <1>2, <3>1, Answering DEF ValidateUser
    <2>6. req[p].session.last # None /\ req[p].now < req[p].session.last
      <3>1. ~ Proceed(p, "validate_delete") /\ ~ Proceed(p, "validate_touch")
        <4>1. pc'[p] = "idle"
          BY <2>4 DEF Answered
        <4> QED BY <1>2, <4>1, Proceeded
      <3> QED BY <2>5, <3>1 DEF ValidateUser, IdleCheckApplies
    <2>7. req[p].session.last <= req[p].now
      BY <1>2, <2>5, <2>6 DEF TimedOK, RequestTimed
    <2>8. req[p].session.last \in Nat /\ req[p].now \in Nat
      <3>1. req[p].session \in Session /\ req[p].now \in Nat
        BY <1>2, <2>5, HeldIsCopy DEF HoldsSession, TypeOK, RequestsOK
      <3> QED BY <2>6, <3>1
    <2> QED BY <2>6, <2>7, <2>8
  <1> QED BY <1>1, <1>2, TypeCorrect, AlwaysTimed, PTL DEF Spec

-----------------------------------------------------------------------------
\* With an atomic touch the engine implements SessionLifecycle.

StatusBar == [t \in Tokens |-> TokenStatus(t)]
AskingBar == [p \in Procs |-> Asking(p)]
PhaseBar == [p \in Procs |-> Phase(p)]

Abstract == [Lifecycle!Next]_(Lifecycle!vars)

\* A step of request p moves the abstract state of p only.
LEMMA OneMovesAbstractly ==
  ASSUME TypeOK, NEW p \in Procs, Own(p)
  PROVE  /\ AskingBar' = [AskingBar EXCEPT ![p] = Asking(p)']
         /\ PhaseBar' = [PhaseBar EXCEPT ![p] = Phase(p)']
  <1>1. PICK l, r, h : Writes(p, l, r, h)
    BY OneWrites
  <1>2. \A q \in Procs : q # p => pc'[q] = pc[q] /\ req'[q] = req[q]
    BY <1>1 DEF Writes, TypeOK, RequestsOK
  <1>3. \A q \in Procs : q # p => Asking(q)' = Asking(q) /\ Phase(q)' = Phase(q)
    BY <1>2 DEF Asking, Phase
  <1> QED BY <1>3 DEF AskingBar, PhaseBar

\* Writing back what is mapped changes nothing.
LEMMA BarsUnmoved ==
  ASSUME NEW p \in Procs
  PROVE  /\ [AskingBar EXCEPT ![p] = AskingBar[p]] = AskingBar
         /\ [PhaseBar EXCEPT ![p] = PhaseBar[p]] = PhaseBar
  BY DEF AskingBar, PhaseBar

\* What the control point of a request says about its abstract phase.
LEMMA PhaseAt ==
  ASSUME TypeOK, NEW p \in Procs
  PROVE  /\ pc[p] = "validate_find" => Phase(p) = "asked"
         /\ req[p].op = "validate" /\ pc[p] # "validate_find"
              => Phase(p) = "seen"
         /\ req[p].op = "validate" => Asking(p) = req[p].token
         /\ req[p].op # "validate" =>
              /\ Asking(p) = None /\ Phase(p) \notin {"asked", "seen"}
         /\ req[p].op # "validate" /\ pc[p] # "idle" => Phase(p) = "free"
         /\ pc[p] = "idle" => req[p].op = "none"
         /\ pc[p] = "idle" =>
              Phase(p) = IF req[p].result = "accepted" THEN "accepted"
                         ELSE IF req[p].result = "rejected" THEN "refused"
                         ELSE "free"
  <1>1. pc[p] \in LabelsOf(req[p].op) /\ req[p].op \in Ops
    BY Registers
  <1>2. /\ pc[p] = "validate_find" => req[p].op = "validate"
        /\ pc[p] = "idle" => req[p].op = "none"
    BY <1>1 DEF LabelsOf
  <1> QED BY <1>2 DEF Phase, Asking

\* A step that keeps the sessions keeps every status; one that deletes some
\* ends the lives of their tokens.
LEMMA StatusKept ==
  ASSUME UNCHANGED <<store, verified>>
  PROVE  StatusBar' = StatusBar
  BY DEF StatusBar, TokenStatus

\* What deleting sessions makes of the status of their tokens.
LEMMA StatusDeleted ==
  ASSUME TypeOK, NEW ids, Delete(ids), UNCHANGED verified
  PROVE  StatusBar' = [t \in Tokens |->
           IF StatusBar[t] = "live" /\ hash_for_storage(t) \in ids
           THEN "dead" ELSE StatusBar[t]]
  <1> SUFFICES ASSUME NEW t \in Tokens
               PROVE  TokenStatus(t)' =
                        IF TokenStatus(t) = "live" /\ hash_for_storage(t) \in ids
                        THEN "dead" ELSE TokenStatus(t)
    BY DEF StatusBar
  <1> QED BY DEF TokenStatus, Delete, TypeOK, SharedOK

\* The abstract actions in terms of the mapped state.
LEMMA AbstractKill ==
  ASSUME UNCHANGED <<AskingBar, PhaseBar>>, NEW ids,
         StatusBar' = [t \in Tokens |->
           IF StatusBar[t] = "live" /\ hash_for_storage(t) \in ids
           THEN "dead" ELSE StatusBar[t]]
  PROVE  Abstract
  <1> DEFINE S == {t \in Tokens : StatusBar[t] = "live"
                                  /\ hash_for_storage(t) \in ids}
  <1>1. S \in SUBSET Lifecycle!Live
    BY DEF Lifecycle!Live, StatusBar
  <1>2. StatusBar' = [t \in Tokens |-> IF t \in S THEN "dead" ELSE StatusBar[t]]
    OBVIOUS
  <1> HIDE DEF S
  <1>3. Lifecycle!Kill(S)
    BY <1>2 DEF Lifecycle!Kill, StatusBar, AskingBar, PhaseBar
  <1> QED BY <1>1, <1>3 DEF Abstract, Lifecycle!Next

\* A step that moves nothing mapped is a stutter.
LEMMA AbstractStutter ==
  ASSUME UNCHANGED <<StatusBar, AskingBar, PhaseBar>>
  PROVE  Abstract
  BY DEF Abstract, Lifecycle!vars, StatusBar, AskingBar, PhaseBar

\* A step that moves one mapped request is one of the abstract moves.
LEMMA AbstractMove ==
  ASSUME UNCHANGED StatusBar, NEW p \in Procs, NEW a, NEW ph,
         AskingBar' = [AskingBar EXCEPT ![p] = a],
         PhaseBar' = [PhaseBar EXCEPT ![p] = ph],
         \/ /\ PhaseBar[p] \notin {"asked", "seen"} /\ ph = "asked"
            /\ a \in Tokens /\ StatusBar[a] # "unminted"
         \/ /\ PhaseBar[p] = "asked" /\ ph = "seen"
            /\ AskingBar[p] \in Tokens /\ StatusBar[AskingBar[p]] = "live"
            /\ a = AskingBar[p]
         \/ /\ PhaseBar[p] = "seen" /\ ph = "accepted" /\ a = None
         \/ /\ PhaseBar[p] \in {"asked", "seen"} /\ ph \in {"refused", "free"}
            /\ a = None
         \/ /\ PhaseBar[p] \in {"accepted", "refused"} /\ ph = "free"
            /\ a = AskingBar[p]
  PROVE  Abstract
  <1> USE DEF StatusBar, AskingBar, PhaseBar
  <1>1. a = AskingBar[p] => AskingBar' = AskingBar
    OBVIOUS
  <1>2. CASE /\ PhaseBar[p] \notin {"asked", "seen"} /\ ph = "asked"
             /\ a \in Tokens /\ StatusBar[a] # "unminted"
    <2>1. Lifecycle!Ask(p, a)
      BY <1>2 DEF Lifecycle!Ask, Lifecycle!InFlight
    <2> QED BY <1>2, <2>1 DEF Abstract, Lifecycle!Next
  <1>3. CASE /\ PhaseBar[p] = "asked" /\ ph = "seen"
             /\ AskingBar[p] \in Tokens /\ StatusBar[AskingBar[p]] = "live"
             /\ a = AskingBar[p]
    <2>1. Lifecycle!See(p)
      BY <1>1, <1>3 DEF Lifecycle!See, Lifecycle!Live
    <2> QED BY <2>1 DEF Abstract, Lifecycle!Next
  <1>4. CASE PhaseBar[p] = "seen" /\ ph = "accepted" /\ a = None
    <2>1. Lifecycle!Accept(p)
      BY <1>4 DEF Lifecycle!Accept, Lifecycle!Answer
    <2> QED BY <2>1 DEF Abstract, Lifecycle!Next
  <1>5. CASE PhaseBar[p] \in {"asked", "seen"} /\ ph = "refused" /\ a = None
    <2>1. Lifecycle!Refuse(p)
      BY <1>5 DEF Lifecycle!Refuse, Lifecycle!Answer, Lifecycle!InFlight
    <2> QED BY <2>1 DEF Abstract, Lifecycle!Next
  <1>6. CASE PhaseBar[p] \in {"asked", "seen"} /\ ph = "free" /\ a = None
    <2>1. Lifecycle!GiveUp(p)
      BY <1>6 DEF Lifecycle!GiveUp, Lifecycle!Answer, Lifecycle!InFlight
    <2> QED BY <2>1 DEF Abstract, Lifecycle!Next
  <1>7. CASE /\ PhaseBar[p] \in {"accepted", "refused"} /\ ph = "free"
             /\ a = AskingBar[p]
    <2>1. Lifecycle!MoveOn(p)
      BY <1>1, <1>7 DEF Lifecycle!MoveOn
    <2> QED BY <2>1 DEF Abstract, Lifecycle!Next
  <1> QED BY <1>2, <1>3, <1>4, <1>5, <1>6, <1>7

\* A refusal that deletes the session ends the token's life as it answers.
LEMMA AbstractRefusal ==
  ASSUME NEW p \in Procs, AskingBar[p] \in Tokens,
         PhaseBar[p] \in {"asked", "seen"},
         AskingBar' = [AskingBar EXCEPT ![p] = None],
         PhaseBar' = [PhaseBar EXCEPT ![p] = "refused"],
         StatusBar' = [t \in Tokens |->
           IF StatusBar[t] = "live" /\ t = AskingBar[p]
           THEN "dead" ELSE StatusBar[t]]
  PROVE  Abstract
  <1> DEFINE a == AskingBar[p]
  <1>1. CASE StatusBar[a] = "live"
    <2>1. StatusBar' = [StatusBar EXCEPT ![a] = "dead"]
      BY <1>1 DEF StatusBar
    <2>2. a \in Lifecycle!Live
      BY <1>1 DEF Lifecycle!Live, StatusBar
    <2>3. Lifecycle!Refuse(p)
      BY <2>1, <2>2 DEF Lifecycle!Refuse, Lifecycle!Answer, Lifecycle!InFlight,
                        StatusBar, AskingBar, PhaseBar
    <2> QED BY <2>3 DEF Abstract, Lifecycle!Next
  <1>2. CASE StatusBar[a] # "live"
    <2>1. StatusBar' = StatusBar
      BY <1>2 DEF StatusBar
    <2>2. None = None /\ "refused" \in {"refused", "free"}
      OBVIOUS
    <2> QED BY <2>1, <2>2, AbstractMove
  <1> QED BY <1>1, <1>2

\* What a request's answer or progress is, abstractly.
LEMMA PhaseAfter ==
  ASSUME TypeOK, NEW p \in Procs
  PROVE  /\ \A v : Return(p, v) =>
              /\ Asking(p)' = None
              /\ Phase(p)' = IF v = "accepted" THEN "accepted"
                             ELSE IF v = "rejected" THEN "refused" ELSE "free"
         /\ pc'[p] \notin {"idle", "validate_find"} /\ req'[p].op = "validate" =>
              Phase(p)' = "seen" /\ Asking(p)' = req'[p].token
         /\ pc'[p] = "validate_find" /\ req'[p].op = "validate" =>
              Phase(p)' = "asked" /\ Asking(p)' = req'[p].token
         /\ pc'[p] \notin {"idle", "validate_find"} /\ req'[p].op # "validate" =>
              Phase(p)' = "free" /\ Asking(p)' = None
  <1>1. ASSUME NEW v, Return(p, v)
        PROVE  /\ Asking(p)' = None
               /\ Phase(p)' = IF v = "accepted" THEN "accepted"
                              ELSE IF v = "rejected" THEN "refused" ELSE "free"
    <2>1. pc'[p] = "idle" /\ req'[p].op = "none" /\ req'[p].result = v
      BY <1>1, Returned
    <2> QED BY <2>1 DEF Phase, Asking
  <1>2. pc'[p] \notin {"idle", "validate_find"} /\ req'[p].op = "validate" =>
          Phase(p)' = "seen" /\ Asking(p)' = req'[p].token
    BY DEF Phase, Asking
  <1>4. pc'[p] = "validate_find" /\ req'[p].op = "validate" =>
          Phase(p)' = "asked" /\ Asking(p)' = req'[p].token
    BY DEF Phase, Asking
  <1>3. pc'[p] \notin {"idle", "validate_find"} /\ req'[p].op # "validate" =>
          Phase(p)' = "free" /\ Asking(p)' = None
    BY DEF Phase, Asking
  <1> QED BY <1>1, <1>2, <1>3, <1>4

\* Every step of a validation is an abstract step or a stutter.
LEMMA ValidateStep ==
  ASSUME AtomicTouch, TypeOK, NEW p \in Procs, pc[p] # "idle",
         req[p].op = "validate", Own(p)
  PROVE  Abstract
  <1> DEFINE tok == req[p].token
  <1>1. /\ AskingBar' = [AskingBar EXCEPT ![p] = Asking(p)']
        /\ PhaseBar' = [PhaseBar EXCEPT ![p] = Phase(p)']
    BY OneMovesAbstractly
  <1>2. /\ AskingBar[p] = tok /\ tok \in Minted
        /\ PhaseBar[p] = IF pc[p] = "validate_find" THEN "asked" ELSE "seen"
    BY PhaseAt, Registers DEF AskingBar, PhaseBar
  <1>3. pc[p] \in LabelsOf("validate")
    BY Registers
  <1>4. ~ CallsOf(p) /\ ~ Revocation(p) /\ ~ Login(p)
    BY <1>3 DEF CallsOf, CallValidate, CallLogout, CallRevoke, CallRevokeAll,
         CallLogin, CallOnToken, CallOnUser, Revocation, LogoutFind,
         LogoutUser, LogoutDelete, RevokeFind, RevokeDelete, RevokeAll, Login,
         LoginFind, LoginClock, LoginWipe, LoginSave, SaveSession, LabelsOf
  <1>5. ASSUME NEW v, Return(p, v), UNCHANGED StatusBar,
               \/ v \in {"rejected", "panicked", "error", "none"}
               \/ v = "accepted" /\ pc[p] # "validate_find"
        PROVE  Abstract
    <2>1. /\ Asking(p)' = None
          /\ Phase(p)' = IF v = "accepted" THEN "accepted"
                         ELSE IF v = "rejected" THEN "refused" ELSE "free"
      BY <1>5, PhaseAfter
    <2> QED BY <1>1, <1>2, <1>5, <2>1, AbstractMove
  <1>6. CASE ValidateFind(p)
    <2>1. StatusBar' = StatusBar
      BY <1>6, StatusKept DEF ValidateFind, shared
    <2>2. CASE Return(p, "rejected")
      BY <1>5, <2>1, <2>2
    <2>3. CASE /\ Stored(tok) # None /\ Proceed(p, "validate_clock")
               /\ req' = [req EXCEPT ![p].session = Stored(tok)]
      <3>1. pc'[p] = "validate_clock" /\ req'[p].op = "validate"
            /\ req'[p].token = tok
        BY <2>3, Proceeded DEF TypeOK, RequestsOK
      <3>2. Phase(p)' = "seen" /\ Asking(p)' = tok
        BY <3>1, PhaseAfter
      <3>3. StatusBar[tok] = "live"
        BY <1>2, <2>3 DEF StatusBar, TokenStatus
      <3>4. PhaseBar[p] = "asked"
        BY <1>2, <1>6 DEF ValidateFind
      <3> QED BY <1>1, <1>2, <2>1, <3>2, <3>3, <3>4, AbstractMove
    <2> QED BY <1>6, <2>2, <2>3 DEF ValidateFind
  <1>7. CASE ValidateClock(p) \/ ValidateUser(p)
    <2>1. StatusBar' = StatusBar
      BY <1>7, StatusKept DEF ValidateClock, ValidateUser, shared
    <2>2. CASE Return(p, "panicked")
      BY <1>5, <2>1, <2>2
    <2>3. CASE ~ Return(p, "panicked")
      <3>1. /\ pc'[p] \in {"validate_user", "validate_delete", "validate_touch"}
            /\ UNCHANGED req \/ req' = [req EXCEPT ![p].now = clock]
        BY <1>7, <2>3, Proceeded DEF ValidateClock, ValidateUser
      <3>2. req'[p].op = "validate" /\ req'[p].token = tok
        BY <3>1 DEF TypeOK, RequestsOK
      <3>3. Phase(p)' = "seen" /\ Asking(p)' = tok
        BY <3>1, <3>2, PhaseAfter
      <3>4. PhaseBar[p] = "seen"
        BY <1>2, <1>7 DEF ValidateClock, ValidateUser
      <3>5. AskingBar' = AskingBar /\ PhaseBar' = PhaseBar
        BY <1>1, <1>2, <3>3, <3>4, BarsUnmoved
      <3> QED BY <2>1, <3>5, AbstractStutter
    <2> QED BY <2>2, <2>3
  <1>8. CASE ValidateDelete(p)
    <2>1. Return(p, "rejected") /\ Delete({hash_for_storage(tok)})
          /\ UNCHANGED verified
      BY <1>8 DEF ValidateDelete
    <2>2. StatusBar' = [t \in Tokens |->
            IF StatusBar[t] = "live" /\ hash_for_storage(t) \in {hash_for_storage(tok)}
            THEN "dead" ELSE StatusBar[t]]
      BY <2>1, StatusDeleted
    <2>3. StatusBar' = [t \in Tokens |->
            IF StatusBar[t] = "live" /\ t = AskingBar[p]
            THEN "dead" ELSE StatusBar[t]]
      BY <1>2, <2>2, HashInjective
    <2>4. Asking(p)' = None /\ Phase(p)' = "refused"
      BY <2>1, PhaseAfter
    <2> QED BY <1>1, <1>2, <2>3, <2>4, AbstractRefusal
  <1>9. CASE ValidateTouch(p)
    <2>1. /\ Return(p, "accepted") /\ pc[p] = "validate_touch"
          /\ UNCHANGED verified
      BY <1>9 DEF ValidateTouch
    <2>2. \A t \in Tokens : Stored(t)' = None <=> Stored(t) = None
      <3> DEFINE d == hash_for_storage(tok)
      <3>1. \/ store' = store
            \/ /\ store[d] # None
               /\ store' = [store EXCEPT ![d] = Touched(p, store[d])]
        BY <1>9, Zenon DEF ValidateTouch
      <3>2. store[d] # None => Touched(p, store[d]) # None
        <4>1. req[p].session \in Session /\ req[p].now \in Nat
          BY <2>1, HeldIsCopy DEF HoldsSession, TypeOK, RequestsOK
        <4>2. store[d] \in Session \cup {None}
          BY <1>2 DEF TypeOK, SharedOK
        <4> QED BY <4>1, <4>2, TouchedType, NoneAssumption
      <3> QED BY <1>2, <3>1, <3>2 DEF TypeOK, SharedOK
    <2>3. StatusBar' = StatusBar
      BY <2>1, <2>2 DEF StatusBar, TokenStatus
    <2> QED BY <1>5, <2>1, <2>3
  <1>10. ~ ValidateTouchFind(p) /\ ~ ValidateTouchSave(p)
    BY Registers DEF ValidateTouchFind, ValidateTouchSave, TypeOK, RequestsOK,
                     ControlOK
  <1>11. CASE StoreFault(p) \/ Cancel(p)
    <2>1. StatusBar' = StatusBar
      BY <1>11, StatusKept DEF StoreFault, Cancel, shared
    <2>2. pc[p] # "login_wipe"
      BY <1>3 DEF LabelsOf
    <2>3. \E v : /\ Return(p, v)
                 /\ \/ v \in {"rejected", "error", "none"}
                    \/ v = "accepted" /\ pc[p] # "validate_find"
      BY <1>11, <2>2, Zenon DEF StoreFault, Cancel
    <2> QED BY <1>5, <2>1, <2>3
  <1> QED BY <1>4, <1>6, <1>7, <1>8, <1>9, <1>10, <1>11
          DEF Own, Validate, CallsOf

\* The other operations never change what a validation may answer: they end
\* lives, mint a token, or leave the abstract state alone.
LEMMA OtherStep ==
  ASSUME TypeOK, NEW p \in Procs, pc[p] # "idle",
         req[p].op # "validate", Own(p)
  PROVE  Abstract
  <1>1. /\ AskingBar' = [AskingBar EXCEPT ![p] = Asking(p)']
        /\ PhaseBar' = [PhaseBar EXCEPT ![p] = Phase(p)']
    BY OneMovesAbstractly
  <1>2. AskingBar[p] = None /\ PhaseBar[p] = "free"
    BY PhaseAt DEF AskingBar, PhaseBar
  <1>3. ~ Validate(p) /\ ~ CallsOf(p)
    <2>1. pc[p] \notin LabelsOf("validate")
      BY OpAt
    <2> QED BY <2>1 DEF LabelsOf, Validate, CallValidate, ValidateFind,
         ValidateClock, ValidateUser, ValidateDelete, ValidateTouch,
         ValidateTouchFind, ValidateTouchSave, CallOnToken, CallsOf,
         CallLogout, CallRevoke, CallRevokeAll, CallLogin, CallOnUser
  <1>4. Asking(p)' = None /\ Phase(p)' = "free"
    <2>1. CASE Carries(p)
      <3>1. req'[p].op # "validate" /\ pc'[p] # "idle"
        BY <2>1 DEF Carries
      <3>2. pc'[p] # "validate_find"
        BY <1>3, Arrivals DEF CallsOf
      <3> QED BY <3>1, <3>2, PhaseAfter
    <2>2. CASE Answered(p)
      <3> DEFINE Other == \E v : Return(p, v) /\ v \notin {"accepted", "rejected"}
      <3>1. Other
        <4>1. pc[p] \notin {"validate_delete", "validate_touch", "validate_save"}
          <5>1. pc[p] \notin LabelsOf("validate")
            BY OpAt
          <5> QED BY <5>1 DEF LabelsOf
        <4>2. /\ ~ Proceed(p, "logout_user") /\ ~ Proceed(p, "logout_delete")
              /\ ~ Proceed(p, "revoke_delete") /\ ~ Proceed(p, "login_clock")
              /\ ~ Proceed(p, "login_save")
          BY <2>2, Proceeded DEF Answered
        <4>3. /\ ~ Proceed(p, "login_wipe") /\ ~ LoginWipe(p)
          BY <2>2, Targets, Proceeded DEF Answered
        <4>4. /\ Return(p, "ok") => Other
              /\ Return(p, "overflowed") => Other
              /\ Return(p, "absent") => Other
              /\ Return(p, "error") => Other
              /\ Return(p, "none") => Other
          OBVIOUS
        <4> HIDE DEF Other
        <4>5. CASE Revocation(p)
          BY <1>3, <4>2, <4>4, <4>5 DEF CallsOf, Revocation, LogoutFind,
             LogoutUser, LogoutDelete, RevokeFind, RevokeDelete, RevokeAll
        <4>6. CASE Login(p)
          BY <1>3, <4>2, <4>3, <4>4, <4>6 DEF CallsOf, Login, LoginFind,
             LoginClock, LoginSave, SaveSession
        <4>7. CASE StoreFault(p) \/ Cancel(p)
          BY <4>1, <4>2, <4>4, <4>7 DEF StoreFault, Cancel
        <4> QED BY <1>3, <4>5, <4>6, <4>7 DEF Own
      <3> QED BY <3>1, PhaseAfter
    <2> QED BY <1>3, <2>1, <2>2, CallCarryAnswer
  <1>5. AskingBar' = AskingBar /\ PhaseBar' = PhaseBar
    BY <1>1, <1>2, <1>4, BarsUnmoved
  <1>6. UNCHANGED <<store, verified>> => Abstract
    BY <1>5, StatusKept, AbstractStutter
  <1>7. \A ids : Delete(ids) /\ UNCHANGED verified => Abstract
    BY <1>5, StatusDeleted, AbstractKill
  <1> HIDE DEF Abstract
  <1>8. CASE Revocation(p)
    <2>1. CASE LogoutDelete(p) \/ RevokeDelete(p) \/ RevokeAll(p)
      BY <1>7, <2>1 DEF LogoutDelete, RevokeDelete, RevokeAll
    <2>2. CASE LogoutFind(p) \/ LogoutUser(p) \/ RevokeFind(p)
      BY <1>6, <2>2 DEF LogoutFind, LogoutUser, RevokeFind, shared
    <2> QED BY <1>3, <1>8, <2>1, <2>2 DEF Revocation, CallsOf
  <1>9. CASE Login(p)
    <2>1. CASE LoginWipe(p)
      BY <1>7, <2>1 DEF LoginWipe
    <2>2. CASE LoginFind(p) \/ LoginClock(p)
      BY <1>6, <2>2 DEF LoginFind, LoginClock, shared
    <2>3. CASE LoginSave(p)
      <3>1. PICK t \in Tokens \ Minted : SaveSession(p, t, req[p].auth)
        BY <2>3 DEF LoginSave
      <3>2. pc[p] \in LabelsOf("login")
        BY <3>1 DEF SaveSession, LabelsOf
      <3>3. req[p].user \in Users /\ req[p] \in Requests
        BY <3>2, OpAt, Registers
      <3> DEFINE c == [user |-> req[p].user, password |-> req[p].password]
                 s == NewSession(req[p].user, req[p].now, req[p].auth)
      <3>4. c # None /\ s # None
        <4>1. c \in Credential
          BY <3>3
        <4>2. s \in Session
          BY <3>3, ExpiryType DEF NewSession
        <4> QED BY <4>1, <4>2, NoneAssumption
      <3>5. /\ verified' = [verified EXCEPT ![t] = c]
            /\ store' = [store EXCEPT ![hash_for_storage(t)] = s]
        BY <3>1 DEF SaveSession
      <3> HIDE DEF c, s
      <3>6. TokenStatus(t) = "unminted" /\ TokenStatus(t)' = "live"
        BY <3>4, <3>5 DEF TokenStatus, TypeOK, SharedOK
      <3>7. ASSUME NEW u \in Tokens, u # t
            PROVE  TokenStatus(u)' = TokenStatus(u)
        <4>1. hash_for_storage(u) # hash_for_storage(t)
          BY <3>7, HashInjective
        <4>2. Stored(u)' = Stored(u) /\ verified'[u] = verified[u]
          BY <3>5, <3>7, <4>1 DEF TypeOK, SharedOK
        <4> QED BY <4>2 DEF TokenStatus
      <3>8. StatusBar' = [StatusBar EXCEPT ![t] = "live"]
        BY <3>6, <3>7 DEF StatusBar
      <3>9. Lifecycle!Mint(t)
        BY <1>5, <3>6, <3>8 DEF Lifecycle!Mint, StatusBar, AskingBar, PhaseBar
      <3> QED BY <3>9 DEF Abstract, Lifecycle!Next
    <2> QED BY <1>3, <1>9, <2>1, <2>2, <2>3 DEF Login, CallsOf
  <1>10. CASE StoreFault(p) \/ Cancel(p)
    BY <1>6, <1>10 DEF StoreFault, Cancel, shared
  <1> QED BY <1>3, <1>8, <1>9, <1>10 DEF Own

\* A call starts a validation, or turns from the last answer to something
\* else.
LEMMA CallStep ==
  ASSUME TypeOK, NEW p \in Procs, CallsOf(p)
  PROVE  Abstract
  <1>1. pc[p] = "idle" /\ Own(p)
    BY DEF CallsOf, CallValidate, CallLogout, CallRevoke, CallRevokeAll,
           CallLogin, CallOnToken, CallOnUser, Own, Validate, Revocation, Login
  <1>2. /\ AskingBar' = [AskingBar EXCEPT ![p] = Asking(p)']
        /\ PhaseBar' = [PhaseBar EXCEPT ![p] = Phase(p)']
    BY <1>1, OneMovesAbstractly
  <1>3. /\ AskingBar[p] = None
        /\ PhaseBar[p] \in {"free", "accepted", "refused"}
    BY <1>1, PhaseAt DEF AskingBar, PhaseBar
  <1>4. UNCHANGED shared
    BY CallRecords DEF CallsOf
  <1>5. StatusBar' = StatusBar
    BY <1>4, StatusKept DEF shared
  <1>6. CASE CallValidate(p)
    <2>1. PICK t \in Tokens : CallOnToken(p, "validate_find", "validate", t)
      BY <1>6 DEF CallValidate
    <2>2. /\ t \in Minted /\ pc'[p] = "validate_find"
          /\ req'[p].op = "validate" /\ req'[p].token = t
      BY <2>1 DEF CallOnToken, NoRequest, TypeOK, RequestsOK
    <2>3. Phase(p)' = "asked" /\ Asking(p)' = t
      BY <2>2, PhaseAfter
    <2>4. StatusBar[t] # "unminted"
      BY <2>2 DEF StatusBar, TokenStatus
    <2>5. PhaseBar[p] \notin {"asked", "seen"}
      BY <1>3
    <2> QED BY <1>2, <1>5, <2>3, <2>4, <2>5, AbstractMove
  <1>7. CASE ~ CallValidate(p)
    <2>1. pc'[p] \notin {"idle", "validate_find"}
      BY <1>7, Targets DEF CallsOf
    <2>2. req'[p].op # "validate"
      <3>1. CASE CallRevokeAll(p) \/ CallLogin(p)
        BY <3>1, CallRecords
      <3>2. ASSUME NEW l, NEW op \in {"logout", "revoke"}, NEW t,
                   CallOnToken(p, l, op, t)
            PROVE  req'[p].op = op
        BY <3>2 DEF CallOnToken, NoRequest, TypeOK, RequestsOK
      <3>3. CASE CallLogout(p) \/ CallRevoke(p)
        <4>1. PICK op \in {"logout", "revoke"} : req'[p].op = op
          BY <3>2, <3>3 DEF CallLogout, CallRevoke
        <4> QED BY <4>1
      <3> QED BY <1>7, <3>1, <3>3 DEF CallsOf
    <2>3. Phase(p)' = "free" /\ Asking(p)' = None
      BY <2>1, <2>2, PhaseAfter
    <2>4. CASE PhaseBar[p] = "free"
      <3>1. AskingBar' = AskingBar /\ PhaseBar' = PhaseBar
        BY <1>2, <1>3, <2>3, <2>4, BarsUnmoved
      <3> QED BY <1>5, <3>1, AbstractStutter
    <2>5. CASE PhaseBar[p] \in {"accepted", "refused"}
      <3>1. Asking(p)' = AskingBar[p]
        BY <1>3, <2>3
      <3> QED BY <1>2, <1>5, <2>3, <2>5, <3>1, AbstractMove
    <2> QED BY <1>3, <2>4, <2>5
  <1> QED BY <1>6, <1>7

\* With a store whose touch is a conditional update, the engine, for any
\* number of concurrent requests, failed store calls and dropped tasks, does
\* what SessionLifecycle promises: a token lives once, and a validation is
\* accepted only if its token was alive at some moment of that call.
THEOREM EngineImplementsLifecycle ==
  ASSUME AtomicTouch
  PROVE  Spec => ImplementsLifecycle
  <1>1. Init => Lifecycle!Init
    <2> SUFFICES ASSUME Init PROVE Lifecycle!Init
      OBVIOUS
    <2>1. \A t \in Tokens : TokenStatus(t) = "unminted"
      BY DEF Init, TokenStatus
    <2>2. \A p \in Procs : pc[p] = "idle" /\ req[p] = NoRequest
      BY DEF Init
    <2>3. \A p \in Procs : Asking(p) = None /\ Phase(p) = "free"
      BY <2>2 DEF Asking, Phase, NoRequest
    <2> QED BY <2>1, <2>3 DEF Lifecycle!Init
  <1>2. ASSUME TypeOK, [Next]_vars
        PROVE  [Lifecycle!Next]_(Lifecycle!vars)
    <2>1. SUFFICES Abstract
      BY DEF Abstract
    <2>2. ASSUME NEW p \in Procs, Own(p)
          PROVE  Abstract
      <3>1. CASE CallsOf(p)
        BY <1>2, <3>1, CallStep
      <3>2. CASE ~ CallsOf(p)
        <4>1. pc[p] # "idle"
          BY <1>2, <2>2, <3>2, CallCarryAnswer DEF Carries, Answered
        <4> QED BY <1>2, <2>2, <4>1, ValidateStep, OtherStep
      <3> QED BY <3>1, <3>2
    <2>3. CASE Environment \/ UNCHANGED vars
      <3>1. UNCHANGED <<store, verified, pc, req>>
        BY <2>3 DEF Environment, Tick, ClockStepBack, ChangePassword,
                    SetActive, vars
      <3>2. UNCHANGED <<StatusBar, AskingBar, PhaseBar>>
        BY <3>1 DEF StatusBar, AskingBar, PhaseBar, TokenStatus, Asking, Phase
      <3> QED BY <3>2, AbstractStutter
    <2> QED BY <1>2, <2>2, <2>3 DEF Next, Own
  <1> QED BY <1>1, <1>2, TypeCorrect, PTL
          DEF Spec, ImplementsLifecycle, Lifecycle!Spec
=============================================================================
