---------------------------- MODULE AuthSessions ----------------------------
(***************************************************************************)
(* AuthEngine (src/engine/auth_engine.rs) over a shared SessionStore and   *)
(* UserStore.  A request is an async fn of the engine; every `.await` on a *)
(* store is a point where another request may run, so each store call is   *)
(* one atomic step and the registers a request carries from one await to   *)
(* the next (the Session it read, the `now` it read, the auth hash of the  *)
(* user it verified) are the fields of req[p].                             *)
(*                                                                         *)
(* AtomicTouch = TRUE is a store that overrides touch_session_if_present   *)
(* with a conditional update (MemoryStore, examples/sqlite_adapter.rs);    *)
(* FALSE is the trait's default body, a find followed by a save, on which  *)
(* the stores of examples/sqlite-demo and examples/sqlx-sqlite rely.       *)
(***************************************************************************)
EXTENDS Integers, FiniteSets

CONSTANTS
  Procs,             \* concurrent requests to the engine
  Tokens,            \* raw wire tokens SessionId::generate can mint
  Users,             \* user ids
  None,              \* Option::None
  Ttl,               \* session_ttl_secs
  IdleTimeout,       \* idle_timeout_secs: a number of seconds, or None
  SingleActive,      \* single_active_session
  AtomicTouch,       \* the store overrides touch_session_if_present
  AuthHashBound,     \* AuthUser::session_auth_hash returns Some
  Deactivatable,     \* users the application may hide from find_by_id
  ClockMayStepBack,  \* SystemTime is not monotonic; TRUE lets it step back
  WordSize,          \* 2^64: seconds are u64
  MaxClock,          \* bound: the clock stays within 0..MaxClock
  MaxHash,           \* bound: number of password changes per user
  MaxFaults          \* bound: number of store calls that fail

ASSUME TtlAssumption == Ttl \in Nat /\ Ttl < WordSize
ASSUME IdleAssumption == IdleTimeout \in Nat \cup {None}
ASSUME FlagsAssumption ==
  {SingleActive, AtomicTouch, AuthHashBound, ClockMayStepBack} \subseteq BOOLEAN
ASSUME DeactivatableAssumption == Deactivatable \subseteq Users
ASSUME BoundsAssumption ==
  /\ {WordSize, MaxClock, MaxHash, MaxFaults} \subseteq Nat
  /\ MaxClock < WordSize

VARIABLES
  clock,    \* what SystemTime::now() returns, in seconds
  users,    \* the user table: is the user found, and its password hash
  store,    \* the SessionStore: storage id -> Session, or None
  verified, \* history: the user and password each minted token's login proved
  pc,       \* the await (or clock read) each request is about to run
  req,      \* the registers of each request
  faults,   \* store calls that have failed
  began     \* history: what held when each request was called

shared == <<clock, users, store, verified>>
vars == <<clock, users, store, verified, pc, req, faults, began>>

-----------------------------------------------------------------------------
\* SessionId::hash_for_storage: the store is keyed by the digest of the wire
\* token, which is injective and never equal to a wire token.
hash_for_storage(t) == <<"sha256", t>>

StorageIds == {hash_for_storage(t) : t \in Tokens}

\* What find_session returns for wire token t.
Stored(t) == store[hash_for_storage(t)]

Session == [user : Users, created : Nat, expires : Nat,
            auth : Nat \cup {None}, last : Nat \cup {None}]

\* What a login proves: the password of a user.
Credential == [user : Users, password : Nat]

ASSUME NoneAssumption ==
  /\ None \notin Nat /\ None \notin Tokens /\ None \notin Users
  /\ None \notin Session /\ None \notin Credential

\* `created + session_ttl_secs` on u64 in a build without overflow checks: a
\* huge ttl (Duration::MAX is accepted) wraps round to the past.
ExpiryOf(created) ==
  LET sum == created + Ttl IN
  IF sum < WordSize THEN sum ELSE sum - WordSize

\* Session::new(..).with_auth_hash(..): no activity has been recorded yet.
NewSession(u, now, auth) ==
  [user |-> u, created |-> now, expires |-> ExpiryOf(now),
   auth |-> auth, last |-> None]

is_expired_at(s, now) == now >= s.expires

set_expiry_and_last_active(s, expiry, now) ==
  [s EXCEPT !.expires = expiry, !.last = now]

\* AuthUser::session_auth_hash of the user as it is stored now.
session_auth_hash(u) == IF AuthHashBound THEN users[u].hash ELSE None

\* The storage ids that hold a session of user u, and their wire tokens.
SessionsOf(u) ==
  {id \in StorageIds : store[id] # None /\ store[id].user = u}

LiveTokens(u) == {t \in Tokens : hash_for_storage(t) \in SessionsOf(u)}

\* The wire tokens generated so far.
Minted == {t \in Tokens : verified[t] # None}

\* A token whose session was saved once and is gone from the store.
Dead(t) == t \in Minted /\ Stored(t) = None

-----------------------------------------------------------------------------
\* Request bookkeeping shared by the operations.

NoRequest ==
  [op |-> "none", token |-> None, user |-> None, password |-> 0,
   session |-> None, now |-> 0, auth |-> None, result |-> "none"]

NoHistory == [clock |-> 0, hash |-> 0, live |-> {}]

\* A call on token t: what matters later is when it was made, and which
\* password its owner had then.
CallOnToken(p, label, op, t) ==
  /\ pc[p] = "idle"
  /\ t \in Minted
  /\ pc' = [pc EXCEPT ![p] = label]
  /\ req' = [req EXCEPT ![p] = [NoRequest EXCEPT !.op = op, !.token = t]]
  /\ began' = [began EXCEPT ![p] =
       [NoHistory EXCEPT !.clock = clock,
                         !.hash = users[verified[t].user].hash]]
  /\ UNCHANGED <<shared, faults>>

\* A call on user u: what matters later is which sessions u had then.
CallOnUser(p, label, op, u, password) ==
  /\ pc[p] = "idle"
  /\ pc' = [pc EXCEPT ![p] = label]
  /\ req' = [req EXCEPT ![p] =
       [NoRequest EXCEPT !.op = op, !.user = u, !.password = password]]
  /\ began' = [began EXCEPT ![p] = [NoHistory EXCEPT !.live = LiveTokens(u)]]
  /\ UNCHANGED <<shared, faults>>

Goto(p, label) == pc' = [pc EXCEPT ![p] = label]

\* The request answers its caller; its registers and history are dropped.
Return(p, result) ==
  /\ Goto(p, "idle")
  /\ req' = [req EXCEPT ![p] = [NoRequest EXCEPT !.result = result]]
  /\ began' = [began EXCEPT ![p] = NoHistory]

\* The request runs on to its next await.
Proceed(p, label) == Goto(p, label) /\ UNCHANGED began

Delete(ids) ==
  store' = [id \in StorageIds |-> IF id \in ids THEN None ELSE store[id]]

-----------------------------------------------------------------------------
\* validate_session

CallValidate(p) ==
  \E t \in Tokens : CallOnToken(p, "validate_find", "validate", t)

\* Mutant: the None arm of the match is missing.
ValidateFindUnchecked(p) ==
  /\ pc[p] = "validate_find"
  /\ Proceed(p, "validate_clock")
  /\ req' = [req EXCEPT ![p].session = Stored(req[p].token)]
  /\ UNCHANGED <<shared, faults>>

ValidateFind(p) ==
  LET s == Stored(req[p].token) IN
  /\ pc[p] = "validate_find"
  /\ \/ /\ s = None
        /\ Return(p, "rejected")
     \/ /\ s # None
        /\ Proceed(p, "validate_clock")
        /\ req' = [req EXCEPT ![p].session = s]
  /\ UNCHANGED <<shared, faults>>

\* Mutant: `now` is the time of the call, read before the session.
ValidateClockAtCall(p) ==
  /\ pc[p] = "validate_clock"
  /\ req' = [req EXCEPT ![p].now = began[p].clock]
  /\ Proceed(p, IF is_expired_at(req[p].session, began[p].clock)
                THEN "validate_delete" ELSE "validate_user")
  /\ UNCHANGED <<shared, faults>>

\* SystemTime::now() is read after find_session has returned.
ValidateClock(p) ==
  /\ pc[p] = "validate_clock"
  /\ req' = [req EXCEPT ![p].now = clock]
  /\ \/ /\ is_expired_at(req[p].session, clock)
        /\ Proceed(p, "validate_delete")
     \/ /\ ~ is_expired_at(req[p].session, clock)
        /\ Proceed(p, "validate_user")
  /\ UNCHANGED <<shared, faults>>

AuthHashChanged(s) ==
  /\ session_auth_hash(s.user) # None
  /\ s.auth # None
  /\ session_auth_hash(s.user) # s.auth

IdleCheckApplies(s) == IdleTimeout # None /\ s.last # None

\* `now - last_active` on u64 in a build without overflow checks.
IdleFor(s, now) ==
  IF now >= s.last THEN now - s.last ELSE (now + WordSize) - s.last

IdleTooLong(s, now) == IdleCheckApplies(s) /\ IdleFor(s, now) >= IdleTimeout

\* Mutant: a missing user rejects the request but keeps the session.
ValidateUserKeepsSession(p) ==
  LET s == req[p].session
      found == users[s.user].active
  IN
  /\ pc[p] = "validate_user"
  /\ \/ ~ found /\ Return(p, "rejected")
     \/ /\ found
        /\ UNCHANGED req
        /\ Proceed(p, IF AuthHashChanged(s) \/ IdleTooLong(s, req[p].now)
                      THEN "validate_delete" ELSE "validate_touch")
  /\ UNCHANGED <<shared, faults>>

\* find_by_id, then the auth-hash and idle checks on what it returned.  With
\* overflow checks (debug builds) a negative `now - last_active` panics.
ValidateUser(p) ==
  LET s == req[p].session
      now == req[p].now
      found == users[s.user].active
  IN
  /\ pc[p] = "validate_user"
  /\ \/ /\ ~ found \/ AuthHashChanged(s) \/ IdleTooLong(s, now)
        /\ Proceed(p, "validate_delete")
        /\ UNCHANGED req
     \/ /\ found /\ ~ AuthHashChanged(s)
        /\ IdleCheckApplies(s) /\ now < s.last
        /\ Return(p, "panicked")
     \/ /\ found /\ ~ AuthHashChanged(s) /\ ~ IdleTooLong(s, now)
        /\ Proceed(p, "validate_touch")
        /\ UNCHANGED req
  /\ UNCHANGED <<shared, faults>>

\* `let _ = delete_session(..)`: the session failed a check.
ValidateDelete(p) ==
  /\ pc[p] = "validate_delete"
  /\ Delete({hash_for_storage(req[p].token)})
  /\ Return(p, "rejected")
  /\ UNCHANGED <<clock, users, verified, faults>>

\* Mutant: every touch slides the expiry by a full ttl.
TouchedSliding(p, s) ==
  set_expiry_and_last_active(s, ExpiryOf(req[p].now), req[p].now)

\* The session as touch_session_if_present rewrites it: the expiry is pinned
\* to created + ttl of the session this request read first.  Where that sum
\* overflows, the login that made it has already wrapped it (with overflow
\* checks it panicked and stored nothing), so the touch wraps it alike.
Touched(p, s) ==
  set_expiry_and_last_active(s, ExpiryOf(req[p].session.created), req[p].now)

\* Mutant: an upsert of the session this request read.
ValidateTouchUpserts(p) ==
  /\ AtomicTouch
  /\ pc[p] = "validate_touch"
  /\ store' = [store EXCEPT ![hash_for_storage(req[p].token)] =
                 Touched(p, req[p].session)]
  /\ Return(p, "accepted")
  /\ UNCHANGED <<clock, users, verified, faults>>

\* touch_session_if_present as one conditional update.
ValidateTouch(p) ==
  LET id == hash_for_storage(req[p].token) IN
  /\ AtomicTouch
  /\ pc[p] = "validate_touch"
  /\ store' = IF store[id] = None
              THEN store ELSE [store EXCEPT ![id] = Touched(p, store[id])]
  /\ Return(p, "accepted")
  /\ UNCHANGED <<clock, users, verified, faults>>

\* Mutant: the touch also rebinds the session to the current password.
ValidateTouchRebinds(p) ==
  LET s == Stored(req[p].token) IN
  /\ ~ AtomicTouch
  /\ pc[p] = "validate_touch"
  /\ s # None
  /\ Proceed(p, "validate_save")
  /\ req' = [req EXCEPT ![p].session =
       [Touched(p, s) EXCEPT !.auth = session_auth_hash(s.user)]]
  /\ UNCHANGED <<shared, faults>>

\* The trait's default body: find_session, then save_session of the copy.
ValidateTouchFind(p) ==
  LET s == Stored(req[p].token) IN
  /\ ~ AtomicTouch
  /\ pc[p] = "validate_touch"
  /\ \/ /\ s = None
        /\ Return(p, "accepted")
     \/ /\ s # None
        /\ Proceed(p, "validate_save")
        /\ req' = [req EXCEPT ![p].session = Touched(p, s)]
  /\ UNCHANGED <<shared, faults>>

ValidateTouchSave(p) ==
  /\ pc[p] = "validate_save"
  /\ store' = [store EXCEPT ![hash_for_storage(req[p].token)] = req[p].session]
  /\ Return(p, "accepted")
  /\ UNCHANGED <<clock, users, verified, faults>>

-----------------------------------------------------------------------------
\* logout, revoke_session and revoke_all_user_sessions

CallLogout(p) ==
  \E t \in Tokens : CallOnToken(p, "logout_find", "logout", t)

LogoutFind(p) ==
  LET s == Stored(req[p].token) IN
  /\ pc[p] = "logout_find"
  /\ \/ /\ s = None
        /\ Return(p, "ok")
     \/ /\ s # None
        /\ Proceed(p, "logout_user")
        /\ req' = [req EXCEPT ![p].session = s]
  /\ UNCHANGED <<shared, faults>>

\* When find_by_id misses, logout answers Ok and leaves the session stored.
LogoutUser(p) ==
  LET found == users[req[p].session.user].active IN
  /\ pc[p] = "logout_user"
  /\ \/ /\ ~ found
        /\ Return(p, "ok")
     \/ /\ found
        /\ Proceed(p, "logout_delete")
        /\ UNCHANGED req
  /\ UNCHANGED <<shared, faults>>

\* Mutant: the store is asked to delete the wire token, not its digest.
LogoutDeletesWireToken(p) ==
  /\ pc[p] = "logout_delete"
  /\ Delete({req[p].token})
  /\ Return(p, "ok")
  /\ UNCHANGED <<clock, users, verified, faults>>

LogoutDelete(p) ==
  /\ pc[p] = "logout_delete"
  /\ Delete({hash_for_storage(req[p].token)})
  /\ Return(p, "ok")
  /\ UNCHANGED <<clock, users, verified, faults>>

CallRevoke(p) ==
  \E t \in Tokens : CallOnToken(p, "revoke_find", "revoke", t)

\* Ok(false) when the session is not stored.
RevokeFind(p) ==
  /\ pc[p] = "revoke_find"
  /\ \/ /\ Stored(req[p].token) = None
        /\ Return(p, "absent")
     \/ /\ Stored(req[p].token) # None
        /\ Proceed(p, "revoke_delete")
        /\ UNCHANGED req
  /\ UNCHANGED <<shared, faults>>

\* Mutant: as LogoutDeletesWireToken.
RevokeDeletesWireToken(p) ==
  /\ pc[p] = "revoke_delete"
  /\ Delete({req[p].token})
  /\ Return(p, "ok")
  /\ UNCHANGED <<clock, users, verified, faults>>

RevokeDelete(p) ==
  /\ pc[p] = "revoke_delete"
  /\ Delete({hash_for_storage(req[p].token)})
  /\ Return(p, "ok")
  /\ UNCHANGED <<clock, users, verified, faults>>

CallRevokeAll(p) ==
  \E u \in Users : CallOnUser(p, "revoke_all", "revoke_all", u, 0)

\* Mutant: only the first session found is deleted.
RevokeAllFirst(p) ==
  /\ pc[p] = "revoke_all"
  /\ \E id \in SessionsOf(req[p].user) : Delete({id})
  /\ Return(p, "ok")
  /\ UNCHANGED <<clock, users, verified, faults>>

RevokeAll(p) ==
  /\ pc[p] = "revoke_all"
  /\ Delete(SessionsOf(req[p].user))
  /\ Return(p, "ok")
  /\ UNCHANGED <<clock, users, verified, faults>>

-----------------------------------------------------------------------------
\* do_login (the rate limiter around it is the subject of LoginThrottle)

CallLogin(p) ==
  \E u \in Users, password \in 0..MaxHash :
    CallOnUser(p, "login_find", "login", u, password)

\* find_by_identifier and verify_password against the hash it returned.
LoginFind(p) ==
  LET u == req[p].user
      valid == users[u].active /\ users[u].hash = req[p].password
  IN
  /\ pc[p] = "login_find"
  /\ \/ /\ ~ valid
        /\ Return(p, "error")
     \/ /\ valid
        /\ Proceed(p, "login_clock")
        /\ req' = [req EXCEPT ![p].auth = session_auth_hash(u)]
  /\ UNCHANGED <<shared, faults>>

\* Mutant: single_active_session is ignored.
LoginClockSkipsWipe(p) ==
  /\ pc[p] = "login_clock"
  /\ req' = [req EXCEPT ![p].now = clock]
  /\ Proceed(p, "login_save")
  /\ UNCHANGED <<shared, faults>>

\* SystemTime::now(), and the expiry of the session to come.  With overflow
\* checks (debug builds) a sum that does not fit u64 panics.
LoginClock(p) ==
  /\ pc[p] = "login_clock"
  /\ \/ /\ req' = [req EXCEPT ![p].now = clock]
        /\ Proceed(p, IF SingleActive THEN "login_wipe" ELSE "login_save")
     \/ /\ clock + Ttl >= WordSize
        /\ Return(p, "overflowed")
  /\ UNCHANGED <<shared, faults>>

\* `let _ = delete_user_sessions(..)` of single-active-session mode.
LoginWipe(p) ==
  /\ pc[p] = "login_wipe"
  /\ Delete(SessionsOf(req[p].user))
  /\ Proceed(p, "login_save")
  /\ UNCHANGED <<clock, users, verified, req, faults>>

\* What LoginSave does once it has picked its token and auth hash.
SaveSession(p, t, auth) ==
  /\ pc[p] = "login_save"
  /\ verified' = [verified EXCEPT ![t] =
                    [user |-> req[p].user, password |-> req[p].password]]
  /\ store' = [store EXCEPT ![hash_for_storage(t)] =
                 NewSession(req[p].user, req[p].now, auth)]
  /\ Return(p, "ok")
  /\ UNCHANGED <<clock, users, faults>>

\* Mutant: the generator can repeat a token.
LoginSaveReusesToken(p) == \E t \in Tokens : SaveSession(p, t, req[p].auth)

\* SessionId::generate mints a token never seen before, and save_session
\* stores its session with the auth hash read at login_find.
LoginSave(p) == \E t \in Tokens \ Minted : SaveSession(p, t, req[p].auth)

-----------------------------------------------------------------------------
\* Failures.

Awaiting == {"validate_find", "validate_user", "validate_delete",
             "validate_touch", "validate_save", "logout_find", "logout_user",
             "logout_delete", "revoke_find", "revoke_delete", "revoke_all",
             "login_find", "login_wipe", "login_save"}

\* The store calls whose error the engine discards with `let _ =`.
IgnoredError == {"validate_delete", "validate_touch", "validate_save",
                 "login_wipe"}

\* A store call returns Err(AuthError::Store(_)) and has no effect.  With `?`
\* the request fails; where the error is discarded it carries on.
StoreFault(p) ==
  /\ faults < MaxFaults
  /\ pc[p] \in Awaiting
  /\ faults' = faults + 1
  /\ \/ /\ pc[p] \notin IgnoredError
        /\ Return(p, "error")
     \/ /\ pc[p] = "validate_delete"
        /\ Return(p, "rejected")
     \/ /\ pc[p] \in {"validate_touch", "validate_save"}
        /\ Return(p, "accepted")
     \/ /\ pc[p] = "login_wipe"
        /\ Proceed(p, "login_save")
        /\ UNCHANGED req
  /\ UNCHANGED shared

\* The task is dropped at an await: the client went away, or the process
\* serving it died.  What it stored so far stays stored.
Cancel(p) ==
  /\ pc[p] \in Awaiting
  /\ Return(p, "none")
  /\ UNCHANGED <<shared, faults>>

-----------------------------------------------------------------------------
\* The environment: time, and the application's own writes to its user table.

Tick ==
  /\ clock < MaxClock
  /\ clock' = clock + 1
  /\ UNCHANGED <<users, store, verified, pc, req, faults, began>>

ClockStepBack ==
  /\ ClockMayStepBack
  /\ clock > 0
  /\ clock' = clock - 1
  /\ UNCHANGED <<users, store, verified, pc, req, faults, began>>

\* insert_user_with_password with a new hash: one write under the user lock.
ChangePassword(u) ==
  /\ users[u].hash < MaxHash
  /\ users' = [users EXCEPT ![u].hash = @ + 1]
  /\ UNCHANGED <<clock, store, verified, pc, req, faults, began>>

\* A deactivated user is not found by find_by_id or find_by_identifier, and
\* may be found again later.
SetActive(u) ==
  /\ u \in Deactivatable
  /\ users' = [users EXCEPT ![u].active = ~ @]
  /\ UNCHANGED <<clock, store, verified, pc, req, faults, began>>

-----------------------------------------------------------------------------
Init ==
  /\ clock = 0
  /\ users = [u \in Users |-> [active |-> TRUE, hash |-> 0]]
  /\ store = [id \in StorageIds |-> None]
  /\ verified = [t \in Tokens |-> None]
  /\ pc = [p \in Procs |-> "idle"]
  /\ req = [p \in Procs |-> NoRequest]
  /\ faults = 0
  /\ began = [p \in Procs |-> NoHistory]

Validate(p) ==
  \/ CallValidate(p) \/ ValidateFind(p) \/ ValidateClock(p)
  \/ ValidateUser(p) \/ ValidateDelete(p) \/ ValidateTouch(p)
  \/ ValidateTouchFind(p) \/ ValidateTouchSave(p)

Revocation(p) ==
  \/ CallLogout(p) \/ LogoutFind(p) \/ LogoutUser(p) \/ LogoutDelete(p)
  \/ CallRevoke(p) \/ RevokeFind(p) \/ RevokeDelete(p)
  \/ CallRevokeAll(p) \/ RevokeAll(p)

Login(p) ==
  \/ CallLogin(p) \/ LoginFind(p) \/ LoginClock(p) \/ LoginWipe(p)
  \/ LoginSave(p)

Environment ==
  \/ Tick \/ ClockStepBack
  \/ \E u \in Users : ChangePassword(u) \/ SetActive(u)

Next ==
  \/ \E p \in Procs :
       Validate(p) \/ Revocation(p) \/ Login(p) \/ StoreFault(p) \/ Cancel(p)
  \/ Environment

Spec == Init /\ [][Next]_vars

-----------------------------------------------------------------------------
(***************************************************************************)
(* Properties.                                                             *)
(***************************************************************************)

Labels == Awaiting \cup {"idle", "validate_clock", "login_clock"}

\* The control points of each operation, and those at which the request has
\* read a session and still holds it.
LabelsOf(op) ==
  CASE op = "validate" -> {"validate_find", "validate_clock", "validate_user",
                           "validate_delete", "validate_touch",
                           "validate_save"}
    [] op = "logout" -> {"logout_find", "logout_user", "logout_delete"}
    [] op = "revoke" -> {"revoke_find", "revoke_delete"}
    [] op = "revoke_all" -> {"revoke_all"}
    [] op = "login" -> {"login_find", "login_clock", "login_wipe",
                        "login_save"}
    [] op = "none" -> {"idle"}

TokenOps == {"validate", "logout", "revoke"}
UserOps == {"login", "revoke_all"}
Ops == TokenOps \cup UserOps \cup {"none"}

HoldsSession == {"validate_clock", "validate_user", "validate_delete",
                 "validate_touch", "validate_save", "logout_user",
                 "logout_delete"}

\* "none" before the first answer and after a cancelled request; validate
\* answers accepted or rejected, the others ok (revoke_session also absent);
\* panicked and overflowed are the panics of the idle check and of a login.
Results == {"none", "accepted", "rejected", "panicked", "ok", "absent",
            "error", "overflowed"}

Requests ==
  [op : Ops, token : Tokens \cup {None}, user : Users \cup {None},
   password : Nat, session : Session \cup {None}, now : Nat,
   auth : Nat \cup {None}, result : Results]

\* A request about a token names a minted one, a request about a user names
\* one, and a request past its first read holds the session it read.
ControlOK(p) ==
  /\ pc[p] \in LabelsOf(req[p].op)
  /\ req[p].op \in TokenOps => req[p].token \in Minted
  /\ req[p].op \in UserOps => req[p].user \in Users
  /\ pc[p] \in HoldsSession => req[p].session # None
  /\ pc[p] = "validate_save" => ~ AtomicTouch

\* The shared variables have their types and a stored session belongs to a
\* minted token.
SharedOK ==
  /\ clock \in Nat
  /\ users \in [Users -> [active : BOOLEAN, hash : Nat]]
  /\ store \in [StorageIds -> Session \cup {None}]
  /\ verified \in [Tokens -> Credential \cup {None}]
  /\ faults \in Nat
  /\ \A t \in Tokens : Stored(t) # None => t \in Minted

\* Each request has its registers and history, and its control state.
RequestsOK ==
  /\ pc \in [Procs -> Labels]
  /\ req \in [Procs -> Requests]
  /\ began \in [Procs -> [clock : Nat, hash : Nat, live : SUBSET Tokens]]
  /\ \A p \in Procs : ControlOK(p)

\* The type invariant of AuthSessions, both halves of it.
TypeOK == SharedOK /\ RequestsOK

\* The step in which request p of operation op answers r.
Answers(p, op, r) ==
  /\ pc[p] # "idle"
  /\ pc'[p] = "idle"
  /\ req[p].op = op
  /\ req'[p].result = r

\* Store contract, Spec 16: a session that was deleted is never stored
\* again, whatever a validation that read it earlier still does.
NoResurrection == [][\A t \in Tokens : Dead(t) => Dead(t)']_vars

\* revoke_session: when it answers Ok, true or false, the token is dead, even
\* if a validation is between its find and its touch (and by NoResurrection
\* it stays dead).
RevokeEndsSession ==
  [][\A p \in Procs, t \in Tokens :
       /\ req[p].token = t
       /\ Answers(p, "revoke", "ok") \/ Answers(p, "revoke", "absent")
       => Dead(t)']_vars

\* logout: when it answers Ok the token is dead, whatever validations and
\* other revocations did since it was called, unless the UserStore does not
\* find the session's user: only then does logout answer Ok and leave a
\* session stored (which lives again if the user is found again).
LogoutEndsSession ==
  [][\A p \in Procs, t \in Tokens :
       req[p].token = t /\ Answers(p, "logout", "ok")
         => Dead(t)' \/ ~ users[verified[t].user].active]_vars

\* revoke_all_user_sessions: when it answers Ok, every session the user had
\* when it was called is dead; logins racing it may have added others.
RevokeAllEndsSessions ==
  [][\A p \in Procs :
       Answers(p, "revoke_all", "ok")
         => \A t \in began[p].live : Dead(t)']_vars

\* Single-active-session login: when it answers Ok, every session the user
\* had when it was called is dead (the wipe's error is discarded, so only
\* where no store call failed).
LoginSupersedes ==
  [][\A p \in Procs :
       SingleActive /\ faults = 0 /\ Answers(p, "login", "ok")
         => \A t \in began[p].live : Dead(t)']_vars

\* A refused credential is refused for good: the checks that reject delete
\* the session, so no later change of clock or user table revives it.
RejectionIsFinal ==
  [][\A p \in Procs, t \in Tokens :
       req[p].token = t /\ faults' = 0 /\ Answers(p, "validate", "rejected")
         => Dead(t)']_vars

\* The touch never slides the absolute lifetime: a validation called at or
\* after created + ttl does not accept, and an expiry that wrapped round u64
\* never lengthens it.
AcceptedWithinTtl ==
  [][\A p \in Procs :
       Answers(p, "validate", "accepted")
         => began[p].clock < req[p].session.created + Ttl]_vars

\* A validation called after a password change never accepts a session whose
\* login proved an older password, even a login that was verified before the
\* change and stored its session after it.
StaleHashNeverAccepted ==
  [][\A p \in Procs :
       AuthHashBound /\ Answers(p, "validate", "accepted")
         => verified[req[p].token].password >= began[p].hash]_vars

\* The u64 subtraction of the idle check cannot underflow: `now` is read
\* after the session, hence after the clock reading stored in it.
NoPanic == \A p \in Procs : req[p].result # "panicked"

-----------------------------------------------------------------------------
(***************************************************************************)
(* With an atomic touch the engine implements SessionLifecycle.            *)
(***************************************************************************)

TokenStatus(t) ==
  IF t \notin Minted THEN "unminted"
  ELSE IF Stored(t) = None THEN "dead" ELSE "live"

Asking(p) == IF req[p].op = "validate" THEN req[p].token ELSE None

Phase(p) ==
  CASE pc[p] = "validate_find" -> "asked"
    [] req[p].op = "validate" /\ pc[p] # "validate_find" -> "seen"
    [] pc[p] = "idle" /\ req[p].result = "accepted" -> "accepted"
    [] pc[p] = "idle" /\ req[p].result = "rejected" -> "refused"
    [] OTHER -> "free"

Lifecycle == INSTANCE SessionLifecycle WITH
  status <- [t \in Tokens |-> TokenStatus(t)],
  asking <- [p \in Procs |-> Asking(p)],
  phase <- [p \in Procs |-> Phase(p)]

\* Every step of the engine is a step of SessionLifecycle or a stutter.
ImplementsLifecycle == Lifecycle!Spec
=============================================================================
