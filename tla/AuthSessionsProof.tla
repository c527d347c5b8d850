-------------------------- MODULE AuthSessionsProof --------------------------
(***************************************************************************)
(* Theorems about AuthSessions, for every set of requests, tokens and      *)
(* users and every ttl, idle timeout and bound.                            *)
(***************************************************************************)
EXTENDS AuthSessions, TLAPS

USE DEF Requests, Session, Credential, TokenOps, UserOps, Ops, Results,
        Minted, Stored, StorageIds

History == [clock : Nat, hash : Nat, live : SUBSET Tokens]

-----------------------------------------------------------------------------
\* What the bookkeeping operators do to the requests.

\* A change of request p to registers r and control point l keeps the
\* requests well typed if r and l fit together.
LEMMA RequestStep ==
  ASSUME RequestsOK, NEW p \in Procs, NEW l \in Labels, NEW r \in Requests,
         NEW h \in History,
         pc' = [pc EXCEPT ![p] = l], req' = [req EXCEPT ![p] = r],
         began' = [began EXCEPT ![p] = h],
         Minted \subseteq Minted',
         l \in LabelsOf(r.op),
         r.op \in TokenOps => r.token \in Minted',
         r.op \in UserOps => r.user \in Users,
         l \in HoldsSession => r.session # None,
         l = "validate_save" => ~ AtomicTouch
  PROVE  RequestsOK'
  <1>1. pc' \in [Procs -> Labels]
    BY DEF RequestsOK
  <1>2. req' \in [Procs -> Requests]
    BY DEF RequestsOK
  <1>3. began' \in [Procs -> History]
    BY DEF RequestsOK, History
  <1>4. ASSUME NEW q \in Procs
        PROVE  ControlOK(q)'
    <2>1. CASE q = p
      <3>1. req'[q] = r /\ pc'[q] = l
        BY <2>1 DEF RequestsOK
      <3> QED BY <3>1 DEF ControlOK
    <2>2. CASE q # p
      <3>1. req'[q] = req[q] /\ pc'[q] = pc[q]
        BY <2>2 DEF RequestsOK
      <3>2. ControlOK(q)
        BY DEF RequestsOK
      <3> QED BY <3>1, <3>2 DEF ControlOK
    <2> QED BY <2>1, <2>2
  <1> QED BY <1>1, <1>2, <1>3, <1>4 DEF RequestsOK, History

\* An answer drops the registers, which leaves nothing to be wrong about.
LEMMA ReturnStep ==
  ASSUME RequestsOK, NEW p \in Procs, NEW v \in Results, Return(p, v),
         Minted \subseteq Minted'
  PROVE  RequestsOK'
  <1> DEFINE r == [NoRequest EXCEPT !.result = v]
  <1>1. r \in Requests /\ r.op = "none"
    BY DEF NoRequest
  <1>2. NoHistory \in History
    BY DEF NoHistory, History
  <1>3. "idle" \in Labels /\ "idle" \in LabelsOf("none")
        /\ "idle" \notin HoldsSession
    BY DEF Labels, LabelsOf, HoldsSession
  <1>4. /\ pc' = [pc EXCEPT ![p] = "idle"]
        /\ req' = [req EXCEPT ![p] = r]
        /\ began' = [began EXCEPT ![p] = NoHistory]
    BY DEF Return, Goto
  <1> HIDE DEF r
  <1> QED BY <1>1, <1>2, <1>3, <1>4, RequestStep

\* A request that runs on keeps its operation, its token and its user.
LEMMA ProceedStep ==
  ASSUME RequestsOK, NEW p \in Procs, NEW l \in Labels, NEW r \in Requests,
         Proceed(p, l), req' = [req EXCEPT ![p] = r],
         Minted \subseteq Minted',
         r.op = req[p].op, r.token = req[p].token, r.user = req[p].user,
         l \in LabelsOf(r.op),
         l \in HoldsSession => r.session # None,
         l = "validate_save" => ~ AtomicTouch
  PROVE  RequestsOK'
  <1>1. ControlOK(p) /\ began[p] \in History
    BY DEF RequestsOK, History
  <1>2. r.op \in TokenOps => r.token \in Minted'
    BY <1>1 DEF ControlOK
  <1>3. r.op \in UserOps => r.user \in Users
    BY <1>1 DEF ControlOK
  <1>4. /\ pc' = [pc EXCEPT ![p] = l]
        /\ began' = [began EXCEPT ![p] = began[p]]
    BY DEF Proceed, Goto, RequestsOK
  <1> QED BY <1>1, <1>2, <1>3, <1>4, RequestStep

\* Deleting sessions keeps the shared variables well typed.
LEMMA DeleteStep ==
  ASSUME SharedOK, NEW ids, Delete(ids), UNCHANGED <<clock, users, verified>>,
         UNCHANGED faults
  PROVE  SharedOK' /\ Minted' = Minted
  <1>1. store' \in [StorageIds -> Session \cup {None}]
    BY DEF SharedOK, Delete
  <1>2. \A t \in Tokens : Stored(t)' # None => Stored(t) # None
    BY DEF SharedOK, Delete
  <1> QED BY <1>1, <1>2 DEF SharedOK

\* A step that leaves the shared variables alone leaves them well typed.
LEMMA SharedUnchanged ==
  ASSUME SharedOK, UNCHANGED shared, UNCHANGED faults
  PROVE  SharedOK' /\ Minted' = Minted
  BY DEF SharedOK, shared

\* The control points reached by each operation, and what they require.
LEMMA LabelFacts ==
  /\ Labels \subseteq UNION {LabelsOf(op) : op \in Ops}
  /\ \A op \in Ops : LabelsOf(op) \subseteq Labels
  BY DEF Labels, LabelsOf, Awaiting

\* A stored session is a Session record; its registers are typed.
LEMMA Registers ==
  ASSUME TypeOK, NEW p \in Procs
  PROVE  /\ req[p] \in Requests
         /\ req[p].token \in Tokens => Stored(req[p].token) \in Session \cup {None}
         /\ pc[p] \in LabelsOf(req[p].op)
         /\ pc[p] \in HoldsSession => req[p].session \in Session
         /\ req[p].op \in TokenOps => req[p].token \in Minted
         /\ req[p].op \in UserOps => req[p].user \in Users
  BY DEF TypeOK, SharedOK, RequestsOK, ControlOK

\* The operation a request at a given control point belongs to.
LEMMA OpAt ==
  ASSUME TypeOK, NEW p \in Procs, NEW op \in Ops, pc[p] \in LabelsOf(op)
  PROVE  req[p].op = op
  <1>1. req[p].op \in Ops /\ pc[p] \in LabelsOf(req[p].op)
    BY DEF TypeOK, RequestsOK, ControlOK
  <1> QED BY <1>1 DEF LabelsOf

-----------------------------------------------------------------------------
\* Each operation preserves the type invariant.

\* The calls of the API.
LEMMA CallsKeepType ==
  ASSUME TypeOK, NEW p \in Procs,
         \/ CallValidate(p) \/ CallLogout(p) \/ CallRevoke(p)
         \/ CallRevokeAll(p) \/ CallLogin(p)
  PROVE  TypeOK'
  <1>1. ASSUME NEW op \in TokenOps, NEW l \in LabelsOf(op) \ HoldsSession,
               l # "validate_save", NEW t \in Tokens, CallOnToken(p, l, op, t)
        PROVE  TypeOK'
    <2> DEFINE r == [NoRequest EXCEPT !.op = op, !.token = t]
               h == [NoHistory EXCEPT !.clock = clock,
                                      !.hash = users[verified[t].user].hash]
    <2>1. SharedOK' /\ Minted' = Minted
      BY <1>1, SharedUnchanged DEF CallOnToken, TypeOK
    <2>2. t \in Minted /\ verified[t] \in Credential
      BY <1>1 DEF CallOnToken, TypeOK, SharedOK
    <2>3. r \in Requests /\ r.op = op /\ r.token = t
      BY DEF NoRequest
    <2>4. h \in History
      BY <2>2 DEF NoHistory, History, TypeOK, SharedOK
    <2>5. /\ pc' = [pc EXCEPT ![p] = l]
          /\ req' = [req EXCEPT ![p] = r]
          /\ began' = [began EXCEPT ![p] = h]
      BY <1>1 DEF CallOnToken
    <2>6. l \in Labels
      BY LabelFacts
    <2> HIDE DEF r, h
    <2>7. RequestsOK'
      BY <1>1, <2>1, <2>2, <2>3, <2>4, <2>5, <2>6, RequestStep DEF TypeOK
    <2> QED BY <2>1, <2>7 DEF TypeOK
  <1>2. ASSUME NEW op \in UserOps, NEW l \in LabelsOf(op) \ HoldsSession,
               l # "validate_save", NEW u \in Users, NEW pw \in Nat,
               CallOnUser(p, l, op, u, pw)
        PROVE  TypeOK'
    <2> DEFINE r == [NoRequest EXCEPT !.op = op, !.user = u, !.password = pw]
               h == [NoHistory EXCEPT !.live = LiveTokens(u)]
    <2>1. SharedOK' /\ Minted' = Minted
      BY <1>2, SharedUnchanged DEF CallOnUser, TypeOK
    <2>2. r \in Requests /\ r.op = op /\ r.user = u
      BY DEF NoRequest
    <2>3. h \in History
      BY DEF NoHistory, History, LiveTokens
    <2>4. /\ pc' = [pc EXCEPT ![p] = l]
          /\ req' = [req EXCEPT ![p] = r]
          /\ began' = [began EXCEPT ![p] = h]
      BY <1>2 DEF CallOnUser
    <2>5. l \in Labels
      BY LabelFacts
    <2> HIDE DEF r, h
    <2>6. RequestsOK'
      BY <1>2, <2>1, <2>2, <2>3, <2>4, <2>5, RequestStep DEF TypeOK
    <2> QED BY <2>1, <2>6 DEF TypeOK
  <1>3. /\ "validate_find" \in LabelsOf("validate") \ HoldsSession
        /\ "logout_find" \in LabelsOf("logout") \ HoldsSession
        /\ "revoke_find" \in LabelsOf("revoke") \ HoldsSession
        /\ "revoke_all" \in LabelsOf("revoke_all") \ HoldsSession
        /\ "login_find" \in LabelsOf("login") \ HoldsSession
    BY DEF LabelsOf, HoldsSession
  <1>4. CASE CallValidate(p)
    BY <1>1, <1>3, <1>4 DEF CallValidate
  <1>5. CASE CallLogout(p)
    BY <1>1, <1>3, <1>5 DEF CallLogout
  <1>6. CASE CallRevoke(p)
    BY <1>1, <1>3, <1>6 DEF CallRevoke
  <1>7. CASE CallRevokeAll(p)
    BY <1>2, <1>3, <1>7 DEF CallRevokeAll
  <1>8. CASE CallLogin(p)
    <2>1. 0..MaxHash \subseteq Nat
      BY BoundsAssumption
    <2> QED BY <1>2, <1>3, <1>8, <2>1 DEF CallLogin
  <1> QED BY <1>4, <1>5, <1>6, <1>7, <1>8

\* The two ways a request ends or goes on without writing shared state.
LEMMA AnswerKeepsType ==
  ASSUME TypeOK, NEW p \in Procs, NEW v \in Results, Return(p, v),
         SharedOK', Minted \subseteq Minted'
  PROVE  TypeOK'
  BY ReturnStep DEF TypeOK

\* A read from the store.
LEMMA ReadKeepsType ==
  ASSUME TypeOK, NEW p \in Procs, NEW op \in Ops, pc[p] \in LabelsOf(op),
         NEW l \in LabelsOf(op), NEW r \in Requests,
         Proceed(p, l), req' = [req EXCEPT ![p] = r],
         r.op = req[p].op, r.token = req[p].token, r.user = req[p].user,
         l \in HoldsSession => r.session # None,
         l = "validate_save" => ~ AtomicTouch,
         SharedOK', Minted \subseteq Minted'
  PROVE  TypeOK'
  <1>1. r.op = op /\ l \in Labels
    BY OpAt, LabelFacts
  <1> QED BY <1>1, ProceedStep DEF TypeOK

\* An expiry is a number of seconds, and a wrapped one is an earlier one.
LEMMA ExpiryType ==
  ASSUME NEW created \in Nat
  PROVE  ExpiryOf(created) \in Nat /\ ExpiryOf(created) <= created + Ttl
  BY TtlAssumption, BoundsAssumption DEF ExpiryOf

\* What a touch stores is a session.
LEMMA TouchedType ==
  ASSUME NEW p \in Procs, req[p].session \in Session, req[p].now \in Nat,
         NEW s \in Session
  PROVE  Touched(p, s) \in Session
  <1>1. ExpiryOf(req[p].session.created) \in Nat
    BY ExpiryType
  <1> QED BY <1>1 DEF Touched, set_expiry_and_last_active

\* The steps of validate.
LEMMA ValidateKeepsType ==
  ASSUME TypeOK, NEW p \in Procs, Validate(p), ~ CallValidate(p)
  PROVE  TypeOK'
  <1> USE DEF TypeOK
  <1>1. /\ "validate" \in Ops
        /\ {"accepted", "rejected", "panicked"} \subseteq Results
    OBVIOUS
  <1>2. req' = req => req' = [req EXCEPT ![p] = req[p]]
    BY DEF RequestsOK
  <1>3. CASE ValidateFind(p)
    <2> DEFINE s == Stored(req[p].token)
    <2>1. pc[p] \in LabelsOf("validate") /\ SharedOK' /\ Minted' = Minted
      BY <1>3, SharedUnchanged DEF ValidateFind, LabelsOf
    <2>2. CASE Return(p, "rejected")
      BY <1>1, <2>1, <2>2, AnswerKeepsType
    <2>3. CASE /\ s # None
               /\ Proceed(p, "validate_clock")
               /\ req' = [req EXCEPT ![p].session = s]
      <3>1. req[p].token \in Tokens
        BY <1>1, <2>1, Registers, OpAt
      <3>2. s \in Session
        BY <2>3, <3>1, Registers
      <3> DEFINE r == [req[p] EXCEPT !.session = s]
      <3>3. /\ r \in Requests /\ r.session # None
            /\ r.op = req[p].op /\ r.token = req[p].token
            /\ r.user = req[p].user
        BY <3>2, <2>3, Registers
      <3>4. req' = [req EXCEPT ![p] = r]
        BY <2>3 DEF RequestsOK
      <3>5. "validate_clock" \in LabelsOf("validate")
        BY DEF LabelsOf
      <3> HIDE DEF r
      <3> QED BY <1>1, <2>1, <2>3, <3>3, <3>4, <3>5, ReadKeepsType
    <2> QED BY <1>3, <2>2, <2>3 DEF ValidateFind
  <1>4. CASE ValidateClock(p)
    <2>1. /\ pc[p] \in LabelsOf("validate") /\ pc[p] \in HoldsSession
          /\ SharedOK' /\ Minted' = Minted
      BY <1>4, SharedUnchanged DEF ValidateClock, LabelsOf, HoldsSession
    <2> DEFINE r == [req[p] EXCEPT !.now = clock]
    <2>0. clock \in Nat /\ req[p] \in Requests /\ req[p].session # None
      BY <2>1, Registers, NoneAssumption DEF SharedOK
    <2>2. /\ r \in Requests /\ r.session # None
          /\ r.op = req[p].op /\ r.token = req[p].token /\ r.user = req[p].user
      BY <2>0
    <2>3. req' = [req EXCEPT ![p] = r]
      BY <1>4 DEF ValidateClock, RequestsOK
    <2>4. \E l \in {"validate_delete", "validate_user"} : Proceed(p, l)
      BY <1>4 DEF ValidateClock
    <2>5. {"validate_delete", "validate_user"} \subseteq LabelsOf("validate")
      BY DEF LabelsOf
    <2> HIDE DEF r
    <2> QED BY <1>1, <2>1, <2>2, <2>3, <2>4, <2>5, ReadKeepsType
  <1>5. CASE ValidateUser(p)
    <2>1. /\ pc[p] \in LabelsOf("validate") /\ pc[p] \in HoldsSession
          /\ SharedOK' /\ Minted' = Minted
      BY <1>5, SharedUnchanged DEF ValidateUser, LabelsOf, HoldsSession
    <2>2. CASE Return(p, "panicked")
      BY <1>1, <2>1, <2>2, AnswerKeepsType
    <2>3. CASE \E l \in {"validate_delete", "validate_touch"} : Proceed(p, l)
               /\ UNCHANGED req
      <3>1. {"validate_delete", "validate_touch"} \subseteq LabelsOf("validate")
        BY DEF LabelsOf
      <3>2. req[p] \in Requests /\ req[p].session # None
        BY <2>1, Registers, NoneAssumption
      <3> QED BY <1>1, <1>2, <2>1, <2>3, <3>1, <3>2, ReadKeepsType
    <2> QED BY <1>5, <2>2, <2>3 DEF ValidateUser
  <1>6. CASE ValidateDelete(p)
    <2>1. SharedOK' /\ Minted' = Minted
      BY <1>6, DeleteStep DEF ValidateDelete
    <2> QED BY <1>1, <1>6, <2>1, AnswerKeepsType DEF ValidateDelete
  <1>7. CASE ValidateTouch(p)
    <2> DEFINE id == hash_for_storage(req[p].token)
    <2>1. pc[p] \in LabelsOf("validate") /\ pc[p] \in HoldsSession
      BY <1>7 DEF ValidateTouch, LabelsOf, HoldsSession
    <2>2. req[p].token \in Tokens /\ req[p].session \in Session
          /\ req[p].now \in Nat
      BY <1>1, <2>1, Registers, OpAt
    <2>3. store[id] # None => Touched(p, store[id]) \in Session
      BY <2>2, TouchedType DEF SharedOK
    <2>4. SharedOK' /\ Minted' = Minted
      BY <1>7, <2>2, <2>3 DEF ValidateTouch, SharedOK
    <2> QED BY <1>1, <1>7, <2>4, AnswerKeepsType DEF ValidateTouch
  <1>8. CASE ValidateTouchFind(p)
    <2> DEFINE s == Stored(req[p].token)
    <2>1. /\ pc[p] \in LabelsOf("validate") /\ pc[p] \in HoldsSession
          /\ SharedOK' /\ Minted' = Minted
      BY <1>8, SharedUnchanged DEF ValidateTouchFind, LabelsOf, HoldsSession
    <2>2. CASE Return(p, "accepted")
      BY <1>1, <2>1, <2>2, AnswerKeepsType
    <2>3. CASE /\ s # None /\ ~ AtomicTouch
               /\ Proceed(p, "validate_save")
               /\ req' = [req EXCEPT ![p].session = Touched(p, s)]
      <3>1. req[p].token \in Tokens /\ req[p].session \in Session
            /\ req[p].now \in Nat
        BY <1>1, <2>1, Registers, OpAt
      <3>2. Touched(p, s) \in Session
        BY <2>3, <3>1, Registers, TouchedType
      <3> DEFINE r == [req[p] EXCEPT !.session = Touched(p, s)]
      <3>3. /\ r \in Requests /\ r.session # None
            /\ r.op = req[p].op /\ r.token = req[p].token
            /\ r.user = req[p].user
        BY <3>2, Registers, NoneAssumption
      <3>4. req' = [req EXCEPT ![p] = r]
        BY <2>3 DEF RequestsOK
      <3>5. "validate_save" \in LabelsOf("validate")
        BY DEF LabelsOf
      <3> HIDE DEF r
      <3> QED BY <1>1, <2>1, <2>3, <3>3, <3>4, <3>5, ReadKeepsType
    <2> QED BY <1>8, <2>2, <2>3 DEF ValidateTouchFind
  <1>9. CASE ValidateTouchSave(p)
    <2>1. pc[p] \in LabelsOf("validate") /\ pc[p] \in HoldsSession
      BY <1>9 DEF ValidateTouchSave, LabelsOf, HoldsSession
    <2>2. req[p].token \in Minted /\ req[p].session \in Session
      BY <1>1, <2>1, Registers, OpAt
    <2>3. SharedOK' /\ Minted' = Minted
      BY <1>9, <2>2 DEF ValidateTouchSave, SharedOK, hash_for_storage
    <2> QED BY <1>1, <1>9, <2>3, AnswerKeepsType DEF ValidateTouchSave
  <1> QED BY <1>3, <1>4, <1>5, <1>6, <1>7, <1>8, <1>9 DEF Validate

\* A read that keeps all registers.
LEMMA ForwardKeepsType ==
  ASSUME TypeOK, NEW p \in Procs, NEW op \in Ops, pc[p] \in LabelsOf(op),
         NEW l \in LabelsOf(op), Proceed(p, l), UNCHANGED req,
         l \in HoldsSession => pc[p] \in HoldsSession,
         l # "validate_save",
         SharedOK', Minted \subseteq Minted'
  PROVE  TypeOK'
  <1>1. req[p] \in Requests /\ req' = [req EXCEPT ![p] = req[p]]
    BY DEF TypeOK, RequestsOK
  <1>2. l \in HoldsSession => req[p].session # None
    BY Registers, NoneAssumption
  <1> QED BY <1>1, <1>2, ReadKeepsType

\* The steps of log-outs and revocations.
LEMMA RevocationKeepsType ==
  ASSUME TypeOK, NEW p \in Procs, Revocation(p),
         ~ CallLogout(p), ~ CallRevoke(p), ~ CallRevokeAll(p)
  PROVE  TypeOK'
  <1>1. {"ok", "absent"} \subseteq Results /\ {"logout", "revoke"} \subseteq Ops
    OBVIOUS
  <1>2. CASE LogoutFind(p)
    <2> DEFINE s == Stored(req[p].token)
    <2>1. pc[p] \in LabelsOf("logout") /\ SharedOK' /\ Minted' = Minted
      BY <1>2, SharedUnchanged DEF LogoutFind, LabelsOf, TypeOK
    <2>2. CASE Return(p, "ok")
      BY <1>1, <2>1, <2>2, AnswerKeepsType
    <2>3. CASE /\ s # None
               /\ Proceed(p, "logout_user")
               /\ req' = [req EXCEPT ![p].session = s]
      <3>1. req[p].token \in Tokens
        BY <1>1, <2>1, Registers, OpAt
      <3>2. s \in Session
        BY <2>3, <3>1, Registers
      <3> DEFINE r == [req[p] EXCEPT !.session = s]
      <3>3. /\ r \in Requests /\ r.session # None
            /\ r.op = req[p].op /\ r.token = req[p].token
            /\ r.user = req[p].user
        BY <3>2, <2>3, Registers
      <3>4. req' = [req EXCEPT ![p] = r]
        BY <2>3 DEF TypeOK, RequestsOK
      <3>5. "logout_user" \in LabelsOf("logout")
        BY DEF LabelsOf
      <3> HIDE DEF r
      <3> QED BY <1>1, <2>1, <2>3, <3>3, <3>4, <3>5, ReadKeepsType
    <2> QED BY <1>2, <2>2, <2>3 DEF LogoutFind
  <1>3. CASE LogoutUser(p)
    <2>1. /\ pc[p] \in LabelsOf("logout") /\ pc[p] \in HoldsSession
          /\ SharedOK' /\ Minted' = Minted
      BY <1>3, SharedUnchanged DEF LogoutUser, LabelsOf, HoldsSession, TypeOK
    <2>2. CASE Return(p, "ok")
      BY <1>1, <2>1, <2>2, AnswerKeepsType
    <2>3. CASE Proceed(p, "logout_delete") /\ UNCHANGED req
      <3>1. "logout_delete" \in LabelsOf("logout")
        BY DEF LabelsOf
      <3> QED BY <1>1, <2>1, <2>3, <3>1, ForwardKeepsType
    <2> QED BY <1>3, <2>2, <2>3 DEF LogoutUser
  <1>4. CASE LogoutDelete(p)
    <2>1. SharedOK' /\ Minted' = Minted
      BY <1>4, DeleteStep DEF LogoutDelete, TypeOK
    <2> QED BY <1>1, <1>4, <2>1, AnswerKeepsType DEF LogoutDelete
  <1>5. CASE RevokeFind(p)
    <2>1. pc[p] \in LabelsOf("revoke") /\ SharedOK' /\ Minted' = Minted
      BY <1>5, SharedUnchanged DEF RevokeFind, LabelsOf, TypeOK
    <2>2. CASE Return(p, "absent")
      BY <1>1, <2>1, <2>2, AnswerKeepsType
    <2>3. CASE Proceed(p, "revoke_delete") /\ UNCHANGED req
      <3>1. "revoke_delete" \in LabelsOf("revoke") \ HoldsSession
        BY DEF LabelsOf, HoldsSession
      <3> QED BY <1>1, <2>1, <2>3, <3>1, ForwardKeepsType
    <2> QED BY <1>5, <2>2, <2>3 DEF RevokeFind
  <1>6. CASE RevokeDelete(p)
    <2>1. SharedOK' /\ Minted' = Minted
      BY <1>6, DeleteStep DEF RevokeDelete, TypeOK
    <2> QED BY <1>1, <1>6, <2>1, AnswerKeepsType DEF RevokeDelete
  <1>7. CASE RevokeAll(p)
    <2>1. SharedOK' /\ Minted' = Minted
      BY <1>7, DeleteStep DEF RevokeAll, TypeOK
    <2> QED BY <1>1, <1>7, <2>1, AnswerKeepsType DEF RevokeAll
  <1> QED BY <1>2, <1>3, <1>4, <1>5, <1>6, <1>7 DEF Revocation

\* The steps of login.
LEMMA LoginKeepsType ==
  ASSUME TypeOK, NEW p \in Procs, Login(p), ~ CallLogin(p)
  PROVE  TypeOK'
  <1>1. {"ok", "error"} \subseteq Results /\ "login" \in Ops
    OBVIOUS
  <1>2. CASE LoginFind(p)
    <2>1. pc[p] \in LabelsOf("login") /\ SharedOK' /\ Minted' = Minted
      BY <1>2, SharedUnchanged DEF LoginFind, LabelsOf, TypeOK
    <2>2. CASE Return(p, "error")
      BY <1>1, <2>1, <2>2, AnswerKeepsType
    <2>3. CASE /\ Proceed(p, "login_clock")
               /\ req' = [req EXCEPT ![p].auth = session_auth_hash(req[p].user)]
      <3> DEFINE a == session_auth_hash(req[p].user)
                 r == [req[p] EXCEPT !.auth = a]
      <3>1. req[p].user \in Users
        BY <1>1, <2>1, Registers, OpAt
      <3>2. a \in Nat \cup {None}
        BY <3>1 DEF session_auth_hash, TypeOK, SharedOK
      <3>3. /\ r \in Requests
            /\ r.op = req[p].op /\ r.token = req[p].token
            /\ r.user = req[p].user
        BY <3>2, Registers
      <3>4. req' = [req EXCEPT ![p] = r]
        BY <2>3 DEF TypeOK, RequestsOK
      <3>5. "login_clock" \in LabelsOf("login") \ HoldsSession
        BY DEF LabelsOf, HoldsSession
      <3> HIDE DEF r
      <3> QED BY <1>1, <2>1, <2>3, <3>3, <3>4, <3>5, ReadKeepsType
    <2> QED BY <1>2, <2>2, <2>3 DEF LoginFind
  <1>3. CASE LoginClock(p)
    <2>1. pc[p] \in LabelsOf("login") /\ SharedOK' /\ Minted' = Minted
      BY <1>3, SharedUnchanged DEF LoginClock, LabelsOf, TypeOK
    <2>7. CASE Return(p, "overflowed")
      <3>1. "overflowed" \in Results
        OBVIOUS
      <3> QED BY <2>1, <2>7, <3>1, AnswerKeepsType
    <2>8. SUFFICES ASSUME ~ Return(p, "overflowed")
                   PROVE  TypeOK'
      BY <2>7
    <2>0. /\ req' = [req EXCEPT ![p].now = clock]
          /\ Proceed(p, IF SingleActive THEN "login_wipe" ELSE "login_save")
      BY <1>3, <2>8 DEF LoginClock
    <2> DEFINE r == [req[p] EXCEPT !.now = clock]
    <2>2. clock \in Nat /\ req[p] \in Requests
      BY DEF TypeOK, SharedOK, RequestsOK
    <2>3. /\ r \in Requests
          /\ r.op = req[p].op /\ r.token = req[p].token /\ r.user = req[p].user
      BY <2>2
    <2>4. req' = [req EXCEPT ![p] = r]
      BY <2>0 DEF TypeOK, RequestsOK
    <2>5. \E l \in {"login_wipe", "login_save"} : Proceed(p, l)
      BY <2>0
    <2>6. {"login_wipe", "login_save"} \subseteq LabelsOf("login") \ HoldsSession
      BY DEF LabelsOf, HoldsSession
    <2> HIDE DEF r
    <2> QED BY <1>1, <2>1, <2>3, <2>4, <2>5, <2>6, ReadKeepsType
  <1>4. CASE LoginWipe(p)
    <2>1. pc[p] \in LabelsOf("login")
          /\ "login_save" \in LabelsOf("login") \ HoldsSession
      BY <1>4 DEF LoginWipe, LabelsOf, HoldsSession
    <2>2. SharedOK' /\ Minted' = Minted
      BY <1>4, DeleteStep DEF LoginWipe, TypeOK
    <2> QED BY <1>1, <1>4, <2>1, <2>2, ForwardKeepsType DEF LoginWipe
  <1>5. CASE LoginSave(p)
    <2>1. PICK t \in Tokens \ Minted : SaveSession(p, t, req[p].auth)
      BY <1>5 DEF LoginSave
    <2>2. pc[p] \in LabelsOf("login")
      BY <2>1 DEF SaveSession, LabelsOf
    <2>3. req[p].user \in Users /\ req[p] \in Requests
      BY <1>1, <2>2, Registers, OpAt
    <2> DEFINE c == [user |-> req[p].user, password |-> req[p].password]
               s == NewSession(req[p].user, req[p].now, req[p].auth)
    <2>4. c \in Credential /\ c # None
      BY <2>3, NoneAssumption
    <2>5. s \in Session
      BY <2>3, ExpiryType DEF NewSession
    <2>6. /\ verified' = [verified EXCEPT ![t] = c]
          /\ store' = [store EXCEPT ![hash_for_storage(t)] = s]
          /\ UNCHANGED <<clock, users, faults>>
          /\ Return(p, "ok")
      BY <2>1 DEF SaveSession
    <2> HIDE DEF c, s
    <2>7. SharedOK' /\ Minted \subseteq Minted'
      BY <2>4, <2>5, <2>6 DEF TypeOK, SharedOK, hash_for_storage
    <2> QED BY <1>1, <2>6, <2>7, AnswerKeepsType
  <1> QED BY <1>2, <1>3, <1>4, <1>5 DEF Login

\* Store calls that fail, and callers that go away.
LEMMA FailuresKeepType ==
  ASSUME TypeOK, NEW p \in Procs, StoreFault(p) \/ Cancel(p)
  PROVE  TypeOK'
  <1>1. /\ {"none", "error", "rejected", "accepted"} \subseteq Results
        /\ "login" \in Ops
    OBVIOUS
  <1>2. CASE Cancel(p)
    <2>1. SharedOK' /\ Minted' = Minted
      BY <1>2, SharedUnchanged DEF Cancel, TypeOK
    <2> QED BY <1>1, <1>2, <2>1, AnswerKeepsType DEF Cancel
  <1>3. CASE StoreFault(p)
    <2>1. SharedOK' /\ Minted' = Minted
      BY <1>3 DEF StoreFault, TypeOK, SharedOK, shared
    <2>2. CASE \E v \in {"error", "rejected", "accepted"} : Return(p, v)
      BY <1>1, <2>1, <2>2, AnswerKeepsType
    <2>3. CASE pc[p] = "login_wipe" /\ Proceed(p, "login_save") /\ UNCHANGED req
      <3>1. pc[p] \in LabelsOf("login")
            /\ "login_save" \in LabelsOf("login") \ HoldsSession
        BY <2>3 DEF LabelsOf, HoldsSession
      <3> QED BY <1>1, <2>1, <2>3, <3>1, ForwardKeepsType
    <2> QED BY <1>3, <2>2, <2>3 DEF StoreFault
  <1> QED BY <1>2, <1>3

\* The clock and the accounts.
LEMMA EnvironmentKeepsType ==
  ASSUME TypeOK, Environment
  PROVE  TypeOK'
  <1>1. RequestsOK' /\ UNCHANGED <<store, verified, faults>>
    BY DEF Environment, Tick, ClockStepBack, ChangePassword, SetActive,
           TypeOK, RequestsOK, ControlOK
  <1>2. clock' \in Nat /\ users' \in [Users -> [active : BOOLEAN, hash : Nat]]
    <2> USE DEF TypeOK, SharedOK
    <2>1. CASE Tick
      BY <2>1 DEF Tick
    <2>2. CASE ClockStepBack
      BY <2>2 DEF ClockStepBack
    <2>3. ASSUME NEW u \in Users, ChangePassword(u) \/ SetActive(u)
          PROVE  /\ clock' = clock
                 /\ users' \in [Users -> [active : BOOLEAN, hash : Nat]]
      <3>1. users[u] \in [active : BOOLEAN, hash : Nat]
        OBVIOUS
      <3>2. CASE ChangePassword(u)
        BY <3>1, <3>2 DEF ChangePassword
      <3>3. CASE SetActive(u)
        <4> DEFINE b == ~ users[u].active
        <4>1. b \in BOOLEAN
          OBVIOUS
        <4>2. UNCHANGED clock /\ users' = [users EXCEPT ![u].active = b]
          BY <3>3 DEF SetActive
        <4> HIDE DEF b
        <4> QED BY <3>1, <4>1, <4>2
      <3> QED BY <2>3, <3>2, <3>3
    <2> QED BY <2>1, <2>2, <2>3 DEF Environment
  <1> QED BY <1>1, <1>2 DEF TypeOK, SharedOK

\* The first state is well typed.
LEMMA InitTypeOK == Init => TypeOK
  <1> SUFFICES ASSUME Init PROVE TypeOK
    OBVIOUS
  <1>1. SharedOK
    BY DEF Init, SharedOK
  <1>2. NoHistory \in History /\ NoRequest.op = "none"
    BY DEF NoHistory, NoRequest, History
  <1>3. NoRequest \in Requests
    BY DEF NoRequest
  <1>4. \A p \in Procs : ControlOK(p)
    BY <1>2 DEF Init, ControlOK, LabelsOf, HoldsSession
  <1>5. RequestsOK
    BY <1>2, <1>3, <1>4 DEF Init, RequestsOK, Labels, History
  <1> QED BY <1>1, <1>5 DEF TypeOK

\* Nothing moves.
LEMMA StutterKeepsType ==
  ASSUME TypeOK, UNCHANGED vars
  PROVE  TypeOK'
  BY DEF vars, TypeOK, SharedOK, RequestsOK, ControlOK

\* Every step preserves the type invariant.
LEMMA NextKeepsType ==
  ASSUME TypeOK, [Next]_vars
  PROVE  TypeOK'
  <1>1. ASSUME NEW p \in Procs, Validate(p) PROVE TypeOK'
    BY <1>1, CallsKeepType, ValidateKeepsType
  <1>2. ASSUME NEW p \in Procs, Revocation(p) PROVE TypeOK'
    BY <1>2, CallsKeepType, RevocationKeepsType
  <1>3. ASSUME NEW p \in Procs, Login(p) PROVE TypeOK'
    BY <1>3, CallsKeepType, LoginKeepsType
  <1>4. ASSUME NEW p \in Procs, StoreFault(p) \/ Cancel(p) PROVE TypeOK'
    BY <1>4, FailuresKeepType
  <1> QED BY <1>1, <1>2, <1>3, <1>4, EnvironmentKeepsType, StutterKeepsType
          DEF Next

\* Every reachable state is well typed, every request in it is where its
\* registers say it is, and only minted tokens have a stored session.
THEOREM TypeCorrect == Spec => []TypeOK
  BY InitTypeOK, NextKeepsType, PTL DEF Spec

-----------------------------------------------------------------------------
\* Deletion is final.

\* Two wire tokens never share a storage id.
LEMMA HashInjective ==
  ASSUME NEW t, NEW u, hash_for_storage(t) = hash_for_storage(u)
  PROVE  t = u
  BY DEF hash_for_storage

\* With an atomic touch no step stores a session for a dead token: deletions
\* only remove, the touch writes where a session is, a login writes at a
\* token nobody had, and the default touch's save is never reached.
LEMMA DeadStaysDead ==
  ASSUME AtomicTouch, TypeOK, [Next]_vars, NEW t \in Tokens, Dead(t)
  PROVE  Dead(t)'
  <1> DEFINE id == hash_for_storage(t)
  <1>1. id \in StorageIds /\ store[id] = None /\ verified[t] # None
    BY DEF Dead
  <1>2. SUFFICES store'[id] = None /\ verified'[t] # None
    BY DEF Dead
  <1>3. CASE UNCHANGED <<store, verified>>
    BY <1>1, <1>3
  <1>4. ASSUME NEW ids, Delete(ids), UNCHANGED verified
        PROVE  store'[id] = None /\ verified'[t] # None
    BY <1>1, <1>4 DEF Delete
  <1>5. ASSUME NEW p \in Procs, Validate(p)
        PROVE  store'[id] = None /\ verified'[t] # None
    <2>1. CASE ValidateDelete(p)
      BY <1>4, <2>1 DEF ValidateDelete
    <2>2. CASE ValidateTouch(p)
      <3> DEFINE d == hash_for_storage(req[p].token)
      <3>1. \/ store' = store
            \/ /\ store[d] # None
               /\ store' = [store EXCEPT ![d] = Touched(p, store[d])]
        BY <2>2, Zenon DEF ValidateTouch
      <3>2. store'[id] = store[id]
        <4>1. CASE d = id
          BY <1>1, <3>1, <4>1
        <4>2. CASE d # id
          BY <1>1, <3>1, <4>2 DEF TypeOK, SharedOK
        <4> QED BY <4>1, <4>2
      <3> QED BY <1>1, <2>2, <3>2 DEF ValidateTouch
    <2>3. CASE ValidateTouchSave(p)
      BY <2>3 DEF ValidateTouchSave, TypeOK, RequestsOK, ControlOK
    <2>4. CASE CallValidate(p)
      BY <1>3, <2>4 DEF CallValidate, CallOnToken, shared
    <2>5. CASE \/ ValidateFind(p) \/ ValidateClock(p) \/ ValidateUser(p)
               \/ ValidateTouchFind(p)
      BY <1>3, <2>5
         DEF ValidateFind, ValidateClock, ValidateUser, ValidateTouchFind, shared
    <2> QED BY <1>5, <2>1, <2>2, <2>3, <2>4, <2>5 DEF Validate
  <1>6. ASSUME NEW p \in Procs, Revocation(p)
        PROVE  store'[id] = None /\ verified'[t] # None
    <2>1. CASE LogoutDelete(p) \/ RevokeDelete(p) \/ RevokeAll(p)
      BY <1>4, <2>1 DEF LogoutDelete, RevokeDelete, RevokeAll
    <2>2. CASE CallLogout(p) \/ CallRevoke(p) \/ CallRevokeAll(p)
      BY <1>3, <2>2 DEF CallLogout, CallRevoke, CallRevokeAll, CallOnToken,
                        CallOnUser, shared
    <2>3. CASE LogoutFind(p) \/ LogoutUser(p) \/ RevokeFind(p)
      BY <1>3, <2>3 DEF LogoutFind, LogoutUser, RevokeFind, shared
    <2> QED BY <1>6, <2>1, <2>2, <2>3 DEF Revocation
  <1>7. ASSUME NEW p \in Procs, Login(p)
        PROVE  store'[id] = None /\ verified'[t] # None
    <2>1. CASE LoginWipe(p)
      BY <1>4, <2>1 DEF LoginWipe
    <2>2. CASE LoginSave(p)
      <3>1. PICK u \in Tokens \ Minted : SaveSession(p, u, req[p].auth)
        BY <2>2 DEF LoginSave
      <3>2. u # t /\ hash_for_storage(u) # id
        BY <1>1, HashInjective
      <3>3. store'[id] = store[id] /\ verified'[t] = verified[t]
        BY <1>1, <3>1, <3>2 DEF SaveSession, TypeOK, SharedOK
      <3> QED BY <1>1, <3>3
    <2>3. CASE CallLogin(p)
      BY <1>3, <2>3 DEF CallLogin, CallOnUser, shared
    <2>4. CASE LoginFind(p) \/ LoginClock(p)
      BY <1>3, <2>4 DEF LoginFind, LoginClock, shared
    <2> QED BY <1>7, <2>1, <2>2, <2>3, <2>4 DEF Login
  <1>8. ASSUME NEW p \in Procs, StoreFault(p) \/ Cancel(p)
        PROVE  store'[id] = None /\ verified'[t] # None
    BY <1>3, <1>8 DEF StoreFault, Cancel, shared
  <1>9. CASE Environment
    BY <1>3, <1>9 DEF Environment, Tick, ClockStepBack, ChangePassword, SetActive
  <1>10. CASE UNCHANGED vars
    BY <1>3, <1>10 DEF vars
  <1> QED BY <1>5, <1>6, <1>7, <1>8, <1>9, <1>10 DEF Next

\* With a store whose touch is a conditional update, a session that was
\* deleted (logout, revocation, expiry, rotation) is never stored again,
\* whatever the requests that read it before still do.
THEOREM DeletionIsFinal ==
  ASSUME AtomicTouch
  PROVE  Spec => NoResurrection
  <1>1. TypeOK /\ [Next]_vars
          => [\A t \in Tokens : Dead(t) => Dead(t)']_vars
    BY DeadStaysDead
  <1> QED BY <1>1, TypeCorrect, PTL DEF Spec, NoResurrection

-----------------------------------------------------------------------------
\* What an answered revocation or logout has achieved.

\* A step of one request leaves the control point of the others alone.
LEMMA OneMoves ==
  ASSUME NEW q \in Procs,
         Validate(q) \/ Revocation(q) \/ Login(q) \/ StoreFault(q) \/ Cancel(q)
  PROVE  \E l : pc' = [pc EXCEPT ![q] = l]
  <1> USE DEF Return, Proceed, Goto, CallOnToken, CallOnUser
  <1>1. CASE Validate(q)
    BY <1>1, Zenon DEF Validate, CallValidate, ValidateFind, ValidateClock,
         ValidateUser, ValidateDelete, ValidateTouch, ValidateTouchFind,
         ValidateTouchSave
  <1>2. CASE Revocation(q)
    BY <1>2, Zenon DEF Revocation, CallLogout, LogoutFind, LogoutUser,
         LogoutDelete, CallRevoke, RevokeFind, RevokeDelete, CallRevokeAll,
         RevokeAll
  <1>3. CASE Login(q)
    BY <1>3, Zenon DEF Login, CallLogin, LoginFind, LoginClock, LoginWipe,
         LoginSave, SaveSession
  <1>4. CASE StoreFault(q) \/ Cancel(q)
    BY <1>4, Zenon DEF StoreFault, Cancel
  <1> QED BY <1>1, <1>2, <1>3, <1>4

\* The step that answers request p is a step of p.
LEMMA OwnStep ==
  ASSUME TypeOK, [Next]_vars, NEW p \in Procs, pc'[p] # pc[p]
  PROVE  Validate(p) \/ Revocation(p) \/ Login(p) \/ StoreFault(p) \/ Cancel(p)
  <1>1. pc' # pc
    OBVIOUS
  <1>2. ~ Environment /\ ~ UNCHANGED vars
    BY <1>1 DEF Environment, Tick, ClockStepBack, ChangePassword, SetActive, vars
  <1>3. PICK q \in Procs : Validate(q) \/ Revocation(q) \/ Login(q)
                           \/ StoreFault(q) \/ Cancel(q)
    BY <1>2 DEF Next
  <1>4. PICK l : pc' = [pc EXCEPT ![q] = l]
    BY <1>3, OneMoves
  <1>5. q = p
    BY <1>4 DEF TypeOK, RequestsOK
  <1> QED BY <1>3, <1>5

\* A request about a token answers ok or absent only in its own last steps.
LEMMA AnswerSteps ==
  ASSUME TypeOK, [Next]_vars, NEW p \in Procs, NEW op \in {"logout", "revoke"},
         NEW v \in {"ok", "absent"}, Answers(p, op, v)
  PROVE  /\ req[p].token \in Minted
         /\ op = "revoke" => RevokeFind(p) \/ RevokeDelete(p)
         /\ op = "logout" => LogoutFind(p) \/ LogoutUser(p) \/ LogoutDelete(p)
  <1>1. /\ pc[p] \in LabelsOf(op) /\ req[p].op = op
        /\ pc[p] # "idle" /\ pc'[p] = "idle" /\ req'[p].result = v
    BY DEF Answers, TypeOK, RequestsOK, ControlOK
  <1>2. /\ op = "revoke" => pc[p] \in {"revoke_find", "revoke_delete"}
        /\ op = "logout" => pc[p] \in {"logout_find", "logout_user", "logout_delete"}
    BY <1>1 DEF LabelsOf
  <1>3. ~ Validate(p)
    BY <1>2 DEF Validate, CallValidate, ValidateFind, ValidateClock,
         ValidateUser, ValidateDelete, ValidateTouch, ValidateTouchFind,
         ValidateTouchSave, CallOnToken
  <1>4. ~ Login(p)
    BY <1>2 DEF Login, CallLogin, LoginFind, LoginClock, LoginWipe,
         LoginSave, SaveSession, CallOnUser
  <1>5. ASSUME NEW w \in {"none", "error", "rejected", "accepted"}, Return(p, w)
        PROVE  FALSE
    <2>1. req'[p].result = w
      BY <1>5 DEF Return, NoRequest, TypeOK, RequestsOK
    <2> QED BY <1>1, <2>1
  <1>6. ~ Cancel(p)
    BY <1>5 DEF Cancel
  <1>7. ~ StoreFault(p)
    BY <1>2, <1>5 DEF StoreFault
  <1>8. Revocation(p)
    BY <1>1, <1>3, <1>4, <1>6, <1>7, OwnStep
  <1>9. req[p].token \in Minted
    BY <1>1, Registers
  <1>10. /\ ~ CallLogout(p) /\ ~ CallRevoke(p) /\ ~ CallRevokeAll(p)
         /\ ~ RevokeAll(p)
    BY <1>2 DEF CallLogout, CallRevoke, CallRevokeAll, RevokeAll, CallOnToken,
                CallOnUser
  <1> QED BY <1>2, <1>8, <1>9, <1>10
          DEF Revocation, LogoutFind, LogoutUser, LogoutDelete, RevokeFind,
              RevokeDelete

\* A token that was found absent, or whose session is deleted, is dead.
LEMMA DeletedIsDead ==
  ASSUME TypeOK, NEW p \in Procs, NEW t \in Minted, req[p].token = t,
         UNCHANGED verified,
         \/ Delete({hash_for_storage(req[p].token)})
         \/ Stored(req[p].token) = None /\ UNCHANGED store
  PROVE  Dead(t)'
  BY DEF Dead, Delete, TypeOK, SharedOK

\* When revoke_session answers Ok the token is dead, for either touch.
THEOREM RevocationIsEffective == Spec => RevokeEndsSession
  <1>1. ASSUME TypeOK, [Next]_vars, NEW p \in Procs, NEW t \in Tokens,
               req[p].token = t,
               Answers(p, "revoke", "ok") \/ Answers(p, "revoke", "absent")
        PROVE  Dead(t)'
    <2>1. t \in Minted /\ (RevokeFind(p) \/ RevokeDelete(p))
      BY <1>1, AnswerSteps
    <2>2. CASE RevokeDelete(p)
      BY <1>1, <2>1, <2>2, DeletedIsDead DEF RevokeDelete
    <2>3. CASE RevokeFind(p)
      <3>1. Stored(req[p].token) = None
        BY <1>1, <2>3 DEF RevokeFind, Answers, Proceed, Goto, TypeOK, RequestsOK
      <3>2. UNCHANGED <<store, verified>>
        BY <2>3 DEF RevokeFind, shared
      <3> QED BY <1>1, <2>1, <3>1, <3>2, DeletedIsDead
    <2> QED BY <2>1, <2>2, <2>3
  <1>2. TypeOK /\ [Next]_vars =>
          [\A p \in Procs, t \in Tokens :
             /\ req[p].token = t
             /\ Answers(p, "revoke", "ok") \/ Answers(p, "revoke", "absent")
             => Dead(t)']_vars
    BY <1>1
  <1> QED BY <1>2, TypeCorrect, PTL DEF Spec, RevokeEndsSession
=============================================================================
