---------------------------- MODULE LoginThrottle ----------------------------
(***************************************************************************)
(* The rate limiter and the login that calls it: InMemoryRateLimiter        *)
(* (security/rate_limit.rs) and the check, record_attempt and               *)
(* record_success calls of AuthEngine::do_login (engine/auth_engine.rs).    *)
(*                                                                         *)
(* Logins run concurrently.  Each limiter method reads the clock and then   *)
(* takes the mutex, so the two are separate steps; between the calls lie    *)
(* the user lookup, the password verification and the session store.  What  *)
(* login does to the session store is the subject of AuthSessions: here a   *)
(* lookup, a verification and a save have only their possible outcomes.     *)
(*                                                                         *)
(* An element of the Vec<SystemTime> of an identifier is a record of its    *)
(* time and of a serial number that tells equal times apart; the code never *)
(* looks at the order of the Vec.                                           *)
(***************************************************************************)
EXTENDS Integers, FiniteSets

CONSTANTS
  Procs,             \* login requests served at the same time
  Identifiers,       \* what clients type as their login name
  Keys,              \* limiter keys: trimmed, lower-case identifiers
  LimiterKey,        \* the key of each identifier
  MaxAttempts,       \* max_attempts
  Window,            \* window, in clock units
  MaxClock,          \* bound: last clock reading explored
  MaxFailures,       \* bound: no attempt fails once so many are recorded
  None               \* no value

ASSUME ThrottleAssumption ==
  /\ IsFiniteSet(Procs) /\ Procs # {}
  /\ LimiterKey \in [Identifiers -> Keys]
  /\ MaxAttempts \in Nat
  /\ Window \in Nat
  /\ MaxClock \in Nat
  /\ MaxFailures \in Nat
  /\ None \notin Identifiers

VARIABLES
  clock,     \* SystemTime::now()
  stepped,   \* history: has the wall clock been set back?
  attempts,  \* the Mutex<HashMap<String, Vec<SystemTime>>>; {} if absent
  known,     \* the keys that have an entry in that map
  serial,    \* failed attempts recorded so far
  failed,    \* history: failures of each key since its last success
  pc, req    \* where each request is; its identifier, clock reading, answer

shared == <<clock, stepped, attempts, known, serial, failed>>
vars == <<clock, stepped, attempts, known, serial, failed, pc, req>>

Attempt == [at : Nat, n : Nat]

\* let limiter_key = identifier.trim().to_lowercase()
limiter_key(p) == LimiterKey[req[p].identifier]

\* now.duration_since(t).unwrap_or_default(): a time in the future is age 0.
Age(now, t) == IF now >= t THEN now - t ELSE 0

\* Mutant: the window is one unit too short.
FreshShortWindow(as, now) == {a \in as : Age(now, a.at) < Window - 1}

\* timestamps.retain(|t| now.duration_since(t) < window)
Fresh(as, now) == {a \in as : Age(now, a.at) < Window}

-----------------------------------------------------------------------------
\* A request for identifier i, and the answer to the request before it.
Request(i, a) == [identifier |-> i, now |-> 0, answer |-> a]

Goto(p, label) == pc' = [pc EXCEPT ![p] = label]

Answer(p, a) ==
  /\ Goto(p, "idle")
  /\ req' = [req EXCEPT ![p] = Request(None, a)]

CallLogin(p) ==
  /\ pc[p] = "idle"
  /\ Goto(p, "check_clock")
  /\ \E i \in Identifiers :
       req' = [req EXCEPT ![p] = Request(i, "none")]
  /\ UNCHANGED shared

\* `let now = SystemTime::now()` of check and of record_attempt, before the
\* mutex is taken.
ReadClock(p) ==
  /\ \/ pc[p] = "check_clock" /\ Goto(p, "check_lock")
     \/ pc[p] = "record_clock" /\ Goto(p, "record_lock")
  /\ req' = [req EXCEPT ![p].now = clock]
  /\ UNCHANGED shared

\* Mutant: the limit is compared with > instead of >=.
CheckOffByOne(p) ==
  LET key == limiter_key(p)
      fresh == Fresh(attempts[key], req[p].now)
      limited == key \in known /\ Cardinality(fresh) > MaxAttempts IN
  /\ pc[p] = "check_lock"
  /\ attempts' = [attempts EXCEPT ![key] = fresh]
  /\ \/ limited /\ Answer(p, "limited")
     \/ ~ limited /\ Goto(p, "find") /\ req' = [req EXCEPT ![p].now = 0]
  /\ UNCHANGED <<clock, stepped, known, serial, failed>>

\* Mutant: stale attempts are counted too.
CheckWithoutRetain(p) ==
  LET key == limiter_key(p)
      limited == key \in known /\ Cardinality(attempts[key]) >= MaxAttempts IN
  /\ pc[p] = "check_lock"
  /\ \/ limited /\ Answer(p, "limited")
     \/ ~ limited /\ Goto(p, "find") /\ req' = [req EXCEPT ![p].now = 0]
  /\ UNCHANGED shared

\* InMemoryRateLimiter::check under the mutex.  Only a key with an entry is
\* held to the limit, so a limit of 0 still lets a first login pass; an entry
\* stays when nothing fresh is left in it.
Check(p) ==
  LET key == limiter_key(p)
      fresh == Fresh(attempts[key], req[p].now)
      limited == key \in known /\ Cardinality(fresh) >= MaxAttempts IN
  /\ pc[p] = "check_lock"
  /\ attempts' = [attempts EXCEPT ![key] = fresh]
  /\ \/ limited /\ Answer(p, "limited")
     \/ ~ limited /\ Goto(p, "find") /\ req' = [req EXCEPT ![p].now = 0]
  /\ UNCHANGED <<clock, stepped, known, serial, failed>>

\* find_by_identifier: the user, no user, or a store error.
FindUser(p) ==
  /\ pc[p] = "find"
  /\ \/ Goto(p, "verify") /\ UNCHANGED req
     \/ serial < MaxFailures /\ Goto(p, "record_clock") /\ UNCHANGED req
     \/ Answer(p, "error")
  /\ UNCHANGED shared

\* verify_password: true, false (a malformed stored hash included), or the
\* error of a hasher of one's own.
VerifyPassword(p) ==
  /\ pc[p] = "verify"
  /\ \/ Goto(p, "save") /\ UNCHANGED req
     \/ serial < MaxFailures /\ Goto(p, "record_clock") /\ UNCHANGED req
     \/ Answer(p, "error")
  /\ UNCHANGED shared

\* record_attempt under the mutex; the login answers InvalidCredentials.
RecordAttempt(p) ==
  LET a == [at |-> req[p].now, n |-> serial] IN
  /\ pc[p] = "record_lock"
  /\ serial' = serial + 1
  /\ attempts' = [attempts EXCEPT ![limiter_key(p)] = @ \cup {a}]
  /\ known' = known \cup {limiter_key(p)}
  /\ failed' = [failed EXCEPT ![limiter_key(p)] = @ \cup {a}]
  /\ Answer(p, "invalid")
  /\ UNCHANGED <<clock, stepped>>

\* save_session: stored, or a store error that the limiter never hears of.
SaveSession(p) ==
  /\ pc[p] = "save"
  /\ \/ Goto(p, "succeed") /\ UNCHANGED req
     \/ Answer(p, "error")
  /\ UNCHANGED shared

\* Mutant: a success leaves the failures of the key in the map.
RecordSuccessKeepsAttempts(p) ==
  /\ pc[p] = "succeed"
  /\ failed' = [failed EXCEPT ![limiter_key(p)] = {}]
  /\ Answer(p, "ok")
  /\ UNCHANGED <<clock, stepped, attempts, known, serial>>

\* record_success removes the key, failures recorded meanwhile included.
RecordSuccess(p) ==
  /\ pc[p] = "succeed"
  /\ attempts' = [attempts EXCEPT ![limiter_key(p)] = {}]
  /\ known' = known \ {limiter_key(p)}
  /\ failed' = [failed EXCEPT ![limiter_key(p)] = {}]
  /\ Answer(p, "ok")
  /\ UNCHANGED <<clock, stepped, serial>>

\* The login future is dropped at one of its two awaits.
Cancel(p) ==
  /\ pc[p] \in {"find", "save"}
  /\ Answer(p, "none")
  /\ UNCHANGED shared

Tick ==
  /\ clock < MaxClock
  /\ clock' = clock + 1
  /\ UNCHANGED <<stepped, attempts, known, serial, failed, pc, req>>

ClockStepBack ==
  /\ clock > 0
  /\ clock' = clock - 1
  /\ stepped' = TRUE
  /\ UNCHANGED <<attempts, known, serial, failed, pc, req>>

-----------------------------------------------------------------------------
Init ==
  /\ clock = 0
  /\ stepped = FALSE
  /\ attempts = [k \in Keys |-> {}]
  /\ known = {}
  /\ serial = 0
  /\ failed = [k \in Keys |-> {}]
  /\ pc = [p \in Procs |-> "idle"]
  /\ req = [p \in Procs |-> Request(None, "none")]

Login(p) ==
  \/ CallLogin(p) \/ ReadClock(p) \/ Check(p) \/ FindUser(p)
  \/ VerifyPassword(p) \/ RecordAttempt(p) \/ SaveSession(p)
  \/ RecordSuccess(p) \/ Cancel(p)

Next == (\E p \in Procs : Login(p)) \/ Tick \/ ClockStepBack

Spec == Init /\ [][Next]_vars

-----------------------------------------------------------------------------
(***************************************************************************)
(* Properties.                                                             *)
(***************************************************************************)

Labels == {"idle", "check_clock", "check_lock", "find", "verify",
           "record_clock", "record_lock", "save", "succeed"}

\* The labels at which check has let the request pass and it can still
\* record a failed attempt.
MayFail == {"find", "verify", "record_clock", "record_lock"}

Answers == {"none", "limited", "invalid", "error", "ok"}

\* Besides the types: the limiter's map holds, for each key, failures recorded
\* since the key's last success and no others, a key has an entry exactly if
\* there is such a failure, and a request in progress has an identifier and no
\* answer yet.
TypeOK ==
  /\ clock \in Nat
  /\ stepped \in BOOLEAN
  /\ serial \in Nat
  /\ failed \in [Keys -> SUBSET Attempt]
  /\ attempts \in [Keys -> SUBSET Attempt]
  /\ pc \in [Procs -> Labels]
  /\ req \in [Procs -> [identifier : Identifiers \cup {None}, now : Nat,
                        answer : Answers]]
  /\ \A k \in Keys : attempts[k] \subseteq failed[k]
  /\ known = {k \in Keys : failed[k] # {}}
  /\ \A p \in Procs :
       pc[p] # "idle" => /\ req[p].identifier \in Identifiers
                         /\ req[p].answer = "none"

\* The logins of key k that can still add a failure to it.
InFlight(k) ==
  {p \in Procs : pc[p] \in MayFail /\ limiter_key(p) = k}

\* The failures that close a key: max_attempts, but never none, for only a
\* recorded failure gives a key the entry that check looks at.
Limit == IF MaxAttempts = 0 THEN 1 ELSE MaxAttempts

\* Concurrent logins can overshoot the limit, for check and record_attempt
\* take the mutex separately; but a key never holds, the failures still to
\* come included, more than the limit less one and one for each request.
OvershootBounded ==
  \A k \in Keys :
    Cardinality(attempts[k]) + Cardinality(InFlight(k))
      < Limit + Cardinality(Procs)

\* While the wall clock has only run forward, a login passes check only if
\* fewer failures of its key since the last success than the limit are
\* younger than window; spellings of the same identifier share that budget.
AdmittedBelowLimit ==
  [][\A p \in Procs :
       ~ stepped /\ pc[p] = "check_lock" /\ pc'[p] = "find"
         => Cardinality({a \in failed[limiter_key(p)] :
                           clock - a.at < Window}) < Limit]_vars

\* A login is refused only for max_attempts failures that were younger than
\* window at the clock reading it took: neither stale attempts, nor refused
\* logins, nor failures before a success count.
RefusedAtLimit ==
  [][\A p \in Procs :
       pc[p] = "check_lock" /\ req'[p].answer = "limited"
         => Cardinality({a \in failed[limiter_key(p)] :
                           a.at > req[p].now - Window}) >= MaxAttempts]_vars
=============================================================================
