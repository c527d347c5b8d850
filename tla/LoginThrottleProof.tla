-------------------------- MODULE LoginThrottleProof --------------------------
(***************************************************************************)
(* Theorems about LoginThrottle, for every number of concurrent logins,    *)
(* every identifier and key, and every max_attempts (0 too) and window.    *)
(***************************************************************************)
EXTENDS LoginThrottle, FiniteSetTheorems, TLAPS

\* Only finitely many failures have been recorded.
FailedFinite == \A k \in Keys : IsFiniteSet(failed[k])

\* What the limiter may forget: no clock reading and no failure lies in the
\* future, and every failure of the last window is still in the map.
Remembers ==
  /\ \A p \in Procs : req[p].now <= clock
  /\ \A k \in Keys : \A a \in failed[k] :
       /\ a.at <= clock
       /\ clock - a.at < Window => a \in attempts[k]

\* It remembers as long as the wall clock has never been set back.
RemembersForward == ~ stepped => Remembers

-----------------------------------------------------------------------------
\* Types.

\* A request in progress has a limiter key.
LEMMA KeyOfRequest ==
  ASSUME TypeOK, NEW p \in Procs, pc[p] # "idle"
  PROVE  limiter_key(p) \in Keys
  BY ThrottleAssumption DEF TypeOK, limiter_key

\* Every step keeps the types.
LEMMA TypeStep ==
  ASSUME TypeOK, [Next]_vars
  PROVE  TypeOK'
  <1> USE DEF TypeOK, Labels, Answers
  <1>1. ASSUME NEW p \in Procs, CallLogin(p)
        PROVE  TypeOK'
    BY <1>1 DEF CallLogin, Goto, Request, shared
  <1>2. ASSUME NEW p \in Procs, ReadClock(p)
        PROVE  TypeOK'
    BY <1>2 DEF ReadClock, Goto, shared
  <1>3. ASSUME NEW p \in Procs, Check(p)
        PROVE  TypeOK'
    <2>1. Fresh(attempts[limiter_key(p)], req[p].now)
            \subseteq attempts[limiter_key(p)]
      BY DEF Fresh
    <2>2. limiter_key(p) \in Keys
      BY <1>3, KeyOfRequest DEF Check
    <2>3. /\ attempts' \in [Keys -> SUBSET Attempt]
          /\ \A k \in Keys : attempts'[k] \subseteq failed'[k]
      BY <1>3, <2>1, <2>2 DEF Check
    <2>4. UNCHANGED <<clock, stepped, known, serial, failed>>
      BY <1>3 DEF Check
    <2>5. /\ pc' \in [Procs -> Labels]
          /\ req' \in [Procs -> [identifier : Identifiers \cup {None},
                                  now : Nat, answer : Answers]]
          /\ \A q \in Procs :
               pc'[q] # "idle" => /\ req'[q].identifier \in Identifiers
                                  /\ req'[q].answer = "none"
      <3>1. CASE Answer(p, "limited")
        BY <3>1 DEF Goto, Answer, Request
      <3>2. CASE /\ Goto(p, "find")
                 /\ req' = [req EXCEPT ![p].now = 0]
        BY <1>3, <3>2 DEF Check, Goto
      <3> QED BY <1>3, <3>1, <3>2 DEF Check
    <2> QED BY <2>3, <2>4, <2>5
  <1>4. ASSUME NEW p \in Procs, FindUser(p)
        PROVE  TypeOK'
    BY <1>4 DEF FindUser, Goto, Answer, Request, shared
  <1>5. ASSUME NEW p \in Procs, VerifyPassword(p)
        PROVE  TypeOK'
    BY <1>5 DEF VerifyPassword, Goto, Answer, Request, shared
  <1>6. ASSUME NEW p \in Procs, RecordAttempt(p)
        PROVE  TypeOK'
    <2>1. [at |-> req[p].now, n |-> serial] \in Attempt
      BY DEF Attempt
    <2>2. limiter_key(p) \in Keys
      BY <1>6, KeyOfRequest DEF RecordAttempt
    <2> QED BY <1>6, <2>1, <2>2 DEF RecordAttempt, Goto, Answer, Request
  <1>7. ASSUME NEW p \in Procs, SaveSession(p)
        PROVE  TypeOK'
    <2>1. UNCHANGED shared
      BY <1>7 DEF SaveSession
    <2>2. CASE Goto(p, "succeed") /\ UNCHANGED req
      BY <1>7, <2>1, <2>2 DEF SaveSession, Goto, shared
    <2>3. CASE Answer(p, "error")
      BY <2>1, <2>3 DEF Goto, Answer, Request, shared
    <2> QED BY <1>7, <2>2, <2>3 DEF SaveSession
  <1>8. ASSUME NEW p \in Procs, RecordSuccess(p)
        PROVE  TypeOK'
    <2>1. limiter_key(p) \in Keys
      BY <1>8, KeyOfRequest DEF RecordSuccess
    <2> QED BY <1>8, <2>1 DEF RecordSuccess, Goto, Answer, Request
  <1>9. ASSUME NEW p \in Procs, Cancel(p)
        PROVE  TypeOK'
    BY <1>9 DEF Cancel, Goto, Answer, Request, shared
  <1>10. CASE Tick
    BY <1>10 DEF Tick
  <1>11. CASE ClockStepBack
    BY <1>11 DEF ClockStepBack
  <1>12. CASE UNCHANGED vars
    BY <1>12 DEF vars
  <1> QED BY <1>1, <1>2, <1>3, <1>4, <1>5, <1>6, <1>7, <1>8, <1>9, <1>10,
             <1>11, <1>12 DEF Next, Login

\* The initial state is well typed.
LEMMA TypeInit == Init => TypeOK
  <1> SUFFICES ASSUME Init PROVE TypeOK
    OBVIOUS
  <1>1. stepped \in BOOLEAN
    BY Zenon DEF Init
  <1>2. req \in [Procs -> [identifier : Identifiers \cup {None}, now : Nat,
                          answer : Answers]]
    BY DEF Init, Request, Answers
  <1> QED BY <1>1, <1>2 DEF Init, TypeOK, Labels

\* Every reachable state of LoginThrottle is well typed; in particular the
\* limiter never counts a failure that a success has erased.
THEOREM ThrottleTypeCorrect == Spec => []TypeOK
  BY TypeInit, TypeStep, PTL DEF Spec

-----------------------------------------------------------------------------
\* The overshoot.

\* Even a limit of 0 admits one failure.
LEMMA LimitPositive == Limit \in Nat \ {0} /\ MaxAttempts <= Limit
  BY ThrottleAssumption DEF Limit

\* The map and the sets of requests in flight are finite.
LEMMA FiniteState ==
  ASSUME TypeOK, FailedFinite, NEW k \in Keys
  PROVE  /\ IsFiniteSet(attempts[k])
         /\ Cardinality(attempts[k]) \in Nat
         /\ IsFiniteSet(InFlight(k))
         /\ Cardinality(InFlight(k)) \in Nat
         /\ Cardinality(Procs) \in Nat
         /\ Cardinality(InFlight(k)) <= Cardinality(Procs)
  <1>1. attempts[k] \subseteq failed[k] /\ IsFiniteSet(failed[k])
    BY DEF TypeOK, FailedFinite
  <1>2. IsFiniteSet(attempts[k])
    BY <1>1, FS_Subset
  <1>3. InFlight(k) \subseteq Procs /\ IsFiniteSet(Procs)
    BY ThrottleAssumption DEF InFlight
  <1>4. IsFiniteSet(InFlight(k))
        /\ Cardinality(InFlight(k)) <= Cardinality(Procs)
    BY <1>3, FS_Subset
  <1> QED BY <1>2, <1>3, <1>4, FS_CardinalityType

\* Recorded failures stay finitely many.
LEMMA FiniteStep ==
  ASSUME TypeOK, FailedFinite, [Next]_vars
  PROVE  FailedFinite'
  <1>1. ASSUME NEW p \in Procs, RecordAttempt(p)
        PROVE  FailedFinite'
    <2>1. ASSUME NEW k \in Keys
          PROVE  IsFiniteSet(failed'[k])
      <3>1. IsFiniteSet(failed[k])
        BY DEF FailedFinite
      <3>2. CASE k = limiter_key(p)
        <4>1. failed'[k] =
                failed[k] \cup {[at |-> req[p].now, n |-> serial]}
          BY <1>1, <3>2 DEF RecordAttempt, TypeOK
        <4> QED BY <3>1, <4>1, FS_AddElement
      <3>3. CASE k # limiter_key(p)
        BY <1>1, <3>1, <3>3 DEF RecordAttempt, TypeOK
      <3> QED BY <3>2, <3>3
    <2> QED BY <2>1 DEF FailedFinite
  <1>2. ASSUME NEW p \in Procs, RecordSuccess(p)
        PROVE  FailedFinite'
    BY <1>2, FS_EmptySet DEF RecordSuccess, FailedFinite, TypeOK
  <1>3. CASE UNCHANGED failed
    BY <1>3 DEF FailedFinite
  <1> QED BY <1>1, <1>2, <1>3
          DEF Next, Login, vars, CallLogin, ReadClock, Check, FindUser,
              VerifyPassword, SaveSession, Cancel, Tick, ClockStepBack, shared

\* Forgetting failures and finishing requests only lowers the count.
LEMMA FewerIsFine ==
  ASSUME TypeOK, FailedFinite, OvershootBounded,
         TypeOK', FailedFinite',
         \A k \in Keys : /\ attempts'[k] \subseteq attempts[k]
                         /\ InFlight(k)' \subseteq InFlight(k)
  PROVE  OvershootBounded'
  <1> SUFFICES ASSUME NEW k \in Keys
               PROVE  Cardinality(attempts'[k]) + Cardinality(InFlight(k)')
                        < Limit + Cardinality(Procs)
    BY DEF OvershootBounded
  <1>1. Cardinality(attempts[k]) + Cardinality(InFlight(k))
          < Limit + Cardinality(Procs)
    BY DEF OvershootBounded
  <1>2. /\ IsFiniteSet(attempts[k]) /\ IsFiniteSet(InFlight(k))
        /\ Cardinality(attempts[k]) \in Nat /\ Cardinality(InFlight(k)) \in Nat
        /\ Cardinality(Procs) \in Nat
    BY FiniteState
  <1>3. /\ IsFiniteSet(attempts'[k])
        /\ Cardinality(attempts'[k]) <= Cardinality(attempts[k])
    BY <1>2, FS_Subset
  <1>4. /\ IsFiniteSet(InFlight(k)')
        /\ Cardinality(InFlight(k)') <= Cardinality(InFlight(k))
    BY <1>2, FS_Subset
  <1>5. Cardinality(attempts'[k]) \in Nat /\ Cardinality(InFlight(k)') \in Nat
    BY <1>3, <1>4, FS_CardinalityType
  <1> QED BY <1>1, <1>2, <1>3, <1>4, <1>5, LimitPositive

\* What check does not refuse has fewer fresh failures than the limit: a key
\* without an entry has none at all.
LEMMA BelowLimit ==
  ASSUME TypeOK, FailedFinite, NEW k \in Keys, NEW now \in Nat,
         ~ (k \in known
              /\ Cardinality(Fresh(attempts[k], now)) >= MaxAttempts)
  PROVE  Cardinality(Fresh(attempts[k], now)) < Limit
  <1>1. Fresh(attempts[k], now) \subseteq attempts[k]
    BY DEF Fresh
  <1>2. Cardinality(Fresh(attempts[k], now)) \in Nat
    BY <1>1, FiniteState, FS_Subset, FS_CardinalityType
  <1>3. CASE k \in known
    BY <1>2, <1>3, LimitPositive, ThrottleAssumption
  <1>4. CASE k \notin known
    <2>1. failed[k] = {} /\ attempts[k] \subseteq failed[k]
      BY <1>4 DEF TypeOK
    <2>2. Fresh(attempts[k], now) = {}
      BY <1>1, <2>1
    <2> QED BY <2>2, FS_EmptySet, LimitPositive
  <1> QED BY <1>3, <1>4

\* A login passes check only if the fresh failures of its key, which are all
\* that check leaves in the map, are below the limit.
LEMMA CheckStep ==
  ASSUME TypeOK, FailedFinite, OvershootBounded, TypeOK', FailedFinite',
         NEW p \in Procs, Check(p)
  PROVE  OvershootBounded'
  <1> DEFINE key == limiter_key(p)
             fresh == Fresh(attempts[key], req[p].now)
  <1>1. key \in Keys
    BY KeyOfRequest DEF Check
  <1>2. fresh \subseteq attempts[key]
    BY DEF Fresh
  <1>3. \A k \in Keys : attempts'[k] = IF k = key THEN fresh ELSE attempts[k]
    BY DEF Check, TypeOK
  <1>4. \A k \in Keys, q \in Procs : q # p =>
          (q \in InFlight(k)' <=> q \in InFlight(k))
    BY DEF Check, Goto, Answer, Request, InFlight, limiter_key, TypeOK
  <1>5. CASE Answer(p, "limited")
    <2>1. \A k \in Keys : p \notin InFlight(k)'
      BY <1>5 DEF Answer, Request, Goto, InFlight, TypeOK, MayFail
    <2>2. \A k \in Keys : InFlight(k)' \subseteq InFlight(k)
      BY <1>4, <2>1 DEF InFlight
    <2> QED BY <1>2, <1>3, <2>2, FewerIsFine
  <1>6. CASE /\ ~ (key \in known /\ Cardinality(fresh) >= MaxAttempts)
             /\ Goto(p, "find")
             /\ req' = [req EXCEPT ![p].now = 0]
    <2>0. Cardinality(fresh) < Limit
      BY <1>1, <1>6, BelowLimit DEF TypeOK
    <2> SUFFICES ASSUME NEW k \in Keys
                 PROVE  Cardinality(attempts'[k]) + Cardinality(InFlight(k)')
                          < Limit + Cardinality(Procs)
      BY DEF OvershootBounded
    <2>1. CASE k = key
      <3>1. attempts'[k] = fresh
        BY <1>3, <2>1
      <3>2. /\ Cardinality(attempts'[k]) \in Nat
            /\ Cardinality(InFlight(k)') \in Nat
            /\ Cardinality(Procs) \in Nat
            /\ Cardinality(InFlight(k)') <= Cardinality(Procs)
        <4>1. /\ IsFiniteSet(attempts[k]) /\ Cardinality(Procs) \in Nat
          BY FiniteState
        <4>2. IsFiniteSet(attempts'[k])
          BY <1>2, <2>1, <3>1, <4>1, FS_Subset
        <4>3. InFlight(k)' \subseteq Procs /\ IsFiniteSet(Procs)
          BY ThrottleAssumption DEF InFlight
        <4>4. IsFiniteSet(InFlight(k)')
              /\ Cardinality(InFlight(k)') <= Cardinality(Procs)
          BY <4>3, FS_Subset
        <4> QED BY <4>1, <4>2, <4>4, FS_CardinalityType
      <3> QED BY <2>0, <3>1, <3>2, LimitPositive
    <2>2. CASE k # key
      <3>1. attempts'[k] = attempts[k]
        BY <1>3, <2>2
      <3>2. p \notin InFlight(k)'
        BY <1>6, <2>2 DEF InFlight, limiter_key
      <3>3. p \notin InFlight(k)
        BY DEF Check, InFlight, MayFail
      <3>4. InFlight(k)' = InFlight(k)
        BY <1>4, <3>2, <3>3 DEF InFlight
      <3> QED BY <3>1, <3>4 DEF OvershootBounded
    <2> QED BY <2>1, <2>2
  <1> QED BY <1>5, <1>6 DEF Check

\* A recorded failure takes the place of the request that was about to fail.
LEMMA RecordStep ==
  ASSUME TypeOK, FailedFinite, OvershootBounded,
         NEW p \in Procs, RecordAttempt(p)
  PROVE  OvershootBounded'
  <1> SUFFICES ASSUME NEW k \in Keys
               PROVE  Cardinality(attempts'[k]) + Cardinality(InFlight(k)')
                        < Limit + Cardinality(Procs)
    BY DEF OvershootBounded
  <1> DEFINE a == [at |-> req[p].now, n |-> serial]
  <1>1. /\ IsFiniteSet(attempts[k]) /\ IsFiniteSet(InFlight(k))
        /\ Cardinality(attempts[k]) \in Nat /\ Cardinality(InFlight(k)) \in Nat
        /\ Cardinality(Procs) \in Nat
    BY FiniteState
  <1>2. Cardinality(attempts[k]) + Cardinality(InFlight(k))
          < Limit + Cardinality(Procs)
    BY DEF OvershootBounded
  <1>3. InFlight(k)' = InFlight(k) \ {p}
    BY DEF RecordAttempt, Answer, Request, Goto, InFlight, limiter_key,
           TypeOK, MayFail
  <1>4. /\ IsFiniteSet(InFlight(k)')
        /\ Cardinality(InFlight(k)') =
             IF p \in InFlight(k) THEN Cardinality(InFlight(k)) - 1
                                  ELSE Cardinality(InFlight(k))
    BY <1>1, <1>3, FS_RemoveElement
  <1>5. CASE k = limiter_key(p)
    <2>1. p \in InFlight(k)
      BY <1>5 DEF RecordAttempt, InFlight, MayFail
    <2>2. attempts'[k] = attempts[k] \cup {a}
      BY <1>5 DEF RecordAttempt, TypeOK
    <2>3. Cardinality(attempts'[k]) =
            IF a \in attempts[k] THEN Cardinality(attempts[k])
                                 ELSE Cardinality(attempts[k]) + 1
      BY <1>1, <2>2, FS_AddElement
    <2> QED BY <1>1, <1>2, <1>4, <2>1, <2>3, LimitPositive
  <1>6. CASE k # limiter_key(p)
    <2>1. attempts'[k] = attempts[k]
      BY <1>6 DEF RecordAttempt, TypeOK
    <2>2. p \notin InFlight(k)
      BY <1>6 DEF InFlight
    <2> QED BY <1>2, <1>4, <2>1, <2>2
  <1> QED BY <1>5, <1>6

\* No other step adds a failure or lets a request pass.
LEMMA OvershootStep ==
  ASSUME TypeOK, FailedFinite, OvershootBounded, [Next]_vars,
         TypeOK', FailedFinite'
  PROVE  OvershootBounded'
  <1>1. ASSUME NEW p \in Procs, Check(p)
        PROVE  OvershootBounded'
    BY <1>1, CheckStep
  <1>2. ASSUME NEW p \in Procs, RecordAttempt(p)
        PROVE  OvershootBounded'
    BY <1>2, RecordStep
  <1>3. ASSUME NEW p \in Procs,
               \/ CallLogin(p) \/ ReadClock(p) \/ FindUser(p)
               \/ VerifyPassword(p) \/ SaveSession(p) \/ RecordSuccess(p)
               \/ Cancel(p)
        PROVE  OvershootBounded'
    <2>1. \A k \in Keys : attempts'[k] \subseteq attempts[k]
      BY <1>3 DEF CallLogin, ReadClock, FindUser, VerifyPassword,
                  SaveSession, RecordSuccess, Cancel, shared, TypeOK
    <2>2. \A q \in Procs : q # p => /\ pc'[q] = pc[q]
                                    /\ req'[q] = req[q]
      BY <1>3 DEF CallLogin, ReadClock, FindUser, VerifyPassword,
                  SaveSession, RecordSuccess, Cancel, Goto, Answer, Request,
                  TypeOK
    <2>3. pc'[p] \in MayFail => /\ pc[p] \in MayFail
                                /\ req'[p].identifier = req[p].identifier
      BY <1>3 DEF CallLogin, ReadClock, FindUser, VerifyPassword,
                  SaveSession, RecordSuccess, Cancel, Goto, Answer, Request,
                  TypeOK, MayFail
    <2>4. \A k \in Keys : InFlight(k)' \subseteq InFlight(k)
      BY <2>2, <2>3 DEF InFlight, limiter_key
    <2> QED BY <2>1, <2>4, FewerIsFine
  <1>4. CASE Tick \/ ClockStepBack \/ UNCHANGED vars
    BY <1>4 DEF Tick, ClockStepBack, vars, OvershootBounded, InFlight,
                limiter_key
  <1> QED BY <1>1, <1>2, <1>3, <1>4 DEF Next, Login

\* At first nothing is recorded and nobody is in flight.
LEMMA OvershootInit == Init => FailedFinite /\ OvershootBounded
  <1> SUFFICES ASSUME Init
               PROVE  FailedFinite /\ OvershootBounded
    OBVIOUS
  <1>1. FailedFinite
    BY FS_EmptySet DEF Init, FailedFinite
  <1>2. ASSUME NEW k \in Keys
        PROVE  Cardinality(attempts[k]) + Cardinality(InFlight(k))
                 < Limit + Cardinality(Procs)
    <2>1. attempts[k] = {} /\ InFlight(k) = {}
      BY DEF Init, InFlight, MayFail
    <2>2. Cardinality({}) = 0
      BY FS_EmptySet
    <2>3. Cardinality(Procs) \in Nat /\ Cardinality(Procs) # 0
      BY ThrottleAssumption, FS_CardinalityType, FS_EmptySet
    <2> QED BY <2>1, <2>2, <2>3, LimitPositive
  <1> QED BY <1>1, <1>2 DEF OvershootBounded

\* However many logins run at the same time and however the wall clock moves,
\* a key holds at most one failure less than the limit and one for each of them.
THEOREM OvershootIsBounded == Spec => []OvershootBounded
  <1> DEFINE Inv == TypeOK /\ FailedFinite /\ OvershootBounded
  <1>1. Init => Inv
    BY TypeInit, OvershootInit
  <1>2. Inv /\ [Next]_vars => Inv'
    BY TypeStep, FiniteStep, OvershootStep
  <1> QED BY <1>1, <1>2, PTL DEF Spec

-----------------------------------------------------------------------------
\* The window.

\* Nothing that is younger than window is forgotten while the wall clock
\* runs forward.
LEMMA RemembersStep ==
  ASSUME ~ stepped', TypeOK, Remembers, [Next]_vars, TypeOK'
  PROVE  Remembers'
  <1>1. ASSUME NEW p \in Procs, Check(p)
        PROVE  Remembers'
    <2> DEFINE key == limiter_key(p)
    <2>1. key \in Keys
      BY <1>1, KeyOfRequest DEF Check
    <2>2. UNCHANGED <<clock, failed>>
      BY <1>1 DEF Check
    <2>3. \A q \in Procs : req'[q].now <= clock
      BY <1>1 DEF Check, Answer, Request, TypeOK, Remembers
    <2>4. ASSUME NEW k \in Keys, NEW a \in failed[k], clock - a.at < Window
          PROVE  a \in attempts'[k]
      <3>1. a \in attempts[k] /\ a.at \in Nat /\ a.at <= clock
        BY <2>4 DEF Remembers, TypeOK, Attempt
      <3>2. CASE k = key
        <4>1. req[p].now \in Nat /\ req[p].now <= clock /\ clock \in Nat
          BY DEF TypeOK, Remembers
        <4>2. Age(req[p].now, a.at) < Window
          BY <2>4, <3>1, <4>1, ThrottleAssumption DEF Age
        <4>3. attempts'[k] = Fresh(attempts[k], req[p].now)
          BY <1>1, <2>1, <3>2 DEF Check, TypeOK
        <4> QED BY <3>1, <4>2, <4>3 DEF Fresh
      <3>3. CASE k # key
        BY <1>1, <3>1, <3>3 DEF Check, TypeOK
      <3> QED BY <3>2, <3>3
    <2> QED BY <2>2, <2>3, <2>4 DEF Remembers
  <1>2. ASSUME NEW p \in Procs, RecordAttempt(p)
        PROVE  Remembers'
    <2> DEFINE key == limiter_key(p)
               new == [at |-> req[p].now, n |-> serial]
    <2>1. key \in Keys
      BY <1>2, KeyOfRequest DEF RecordAttempt
    <2>2. UNCHANGED clock
      BY <1>2 DEF RecordAttempt
    <2>3. \A q \in Procs : req'[q].now <= clock
      BY <1>2 DEF RecordAttempt, Answer, Request, TypeOK, Remembers
    <2>4. \A k \in Keys : k # key => /\ failed'[k] = failed[k]
                                     /\ attempts'[k] = attempts[k]
      BY <1>2 DEF RecordAttempt, TypeOK
    <2>5. /\ failed'[key] = failed[key] \cup {new}
          /\ attempts'[key] = attempts[key] \cup {new}
      BY <1>2, <2>1 DEF RecordAttempt, TypeOK
    <2>6. new.at <= clock
      BY DEF Remembers
    <2> QED BY <2>2, <2>3, <2>4, <2>5, <2>6 DEF Remembers
  <1>3. ASSUME NEW p \in Procs, RecordSuccess(p)
        PROVE  Remembers'
    <2>1. \A q \in Procs : req'[q].now <= clock
      BY <1>3 DEF RecordSuccess, Answer, Request, TypeOK, Remembers
    <2>2. \A k \in Keys :
            \/ failed'[k] = {}
            \/ failed'[k] = failed[k] /\ attempts'[k] = attempts[k]
      BY <1>3 DEF RecordSuccess, TypeOK
    <2>3. UNCHANGED clock
      BY <1>3 DEF RecordSuccess
    <2> QED BY <2>1, <2>2, <2>3 DEF Remembers
  <1>4. ASSUME NEW p \in Procs,
               \/ CallLogin(p) \/ ReadClock(p) \/ FindUser(p)
               \/ VerifyPassword(p) \/ SaveSession(p) \/ Cancel(p)
        PROVE  Remembers'
    <2>1. UNCHANGED <<clock, failed, attempts>>
      BY <1>4 DEF CallLogin, ReadClock, FindUser, VerifyPassword,
                  SaveSession, Cancel, shared
    <2>2. \A q \in Procs : req'[q].now <= clock
      BY <1>4 DEF CallLogin, ReadClock, FindUser, VerifyPassword,
                  SaveSession, Cancel, Answer, Request, TypeOK, Remembers
    <2> QED BY <2>1, <2>2 DEF Remembers
  <1>5. CASE Tick
    <2>1. /\ clock \in Nat /\ clock' = clock + 1
          /\ UNCHANGED <<failed, attempts, req>>
      BY <1>5 DEF Tick, TypeOK
    <2>2. \A q \in Procs : req[q].now \in Nat /\ req[q].now <= clock
      BY DEF TypeOK, Remembers
    <2>3. \A k \in Keys : \A a \in failed[k] : a.at \in Nat /\ a.at <= clock
      BY DEF TypeOK, Remembers, Attempt
    <2> QED BY <2>1, <2>2, <2>3, ThrottleAssumption DEF Remembers
  <1>6. CASE UNCHANGED vars
    BY <1>6 DEF vars, Remembers
  <1> QED BY <1>1, <1>2, <1>3, <1>4, <1>5, <1>6
          DEF Next, Login, ClockStepBack

\* A clock that was set back stays so, and until then all is remembered.
LEMMA ForwardStep ==
  ASSUME TypeOK, RemembersForward, [Next]_vars, TypeOK'
  PROVE  RemembersForward'
  <1> SUFFICES ASSUME ~ stepped'
               PROVE  Remembers'
    BY DEF RemembersForward
  <1>1. ~ stepped
    BY DEF Next, Login, vars, CallLogin, ReadClock, Check, FindUser,
           VerifyPassword, RecordAttempt, SaveSession, RecordSuccess, Cancel,
           Tick, ClockStepBack, shared
  <1> QED BY <1>1, RemembersStep DEF RemembersForward

\* The initial state remembers everything, for there is nothing.
LEMMA RemembersInit == Init => Remembers
  BY ThrottleAssumption DEF Init, Remembers, Request

\* What passes check had fewer young failures than the limit.
LEMMA AdmittedStep ==
  ASSUME TypeOK, FailedFinite, Remembers, [Next]_vars,
         NEW p \in Procs, pc[p] = "check_lock", pc'[p] = "find"
  PROVE  Cardinality({a \in failed[limiter_key(p)] : clock - a.at < Window})
           < Limit
  <1> DEFINE key == limiter_key(p)
             young == {a \in failed[key] : clock - a.at < Window}
             fresh == Fresh(attempts[key], req[p].now)
  <1>1. Check(p)
    <2>1. ASSUME NEW q \in Procs, Login(q)
          PROVE  Check(p)
      BY <2>1 DEF Login, CallLogin, ReadClock, Check, FindUser,
           VerifyPassword, RecordAttempt, SaveSession, RecordSuccess, Cancel,
           Goto, Answer, TypeOK
    <2>2. CASE Tick \/ ClockStepBack \/ UNCHANGED vars
      BY <2>2 DEF Tick, ClockStepBack, vars
    <2> QED BY <2>1, <2>2 DEF Next
  <1>2. ~ (key \in known /\ Cardinality(fresh) >= MaxAttempts)
    BY <1>1 DEF Check, Goto, Answer, TypeOK
  <1>3. key \in Keys
    BY KeyOfRequest
  <1>4. IsFiniteSet(fresh)
    <2>1. IsFiniteSet(attempts[key]) /\ fresh \subseteq attempts[key]
      BY <1>3, FiniteState DEF Fresh
    <2> QED BY <2>1, FS_Subset
  <1>5. young \subseteq fresh
    <2> SUFFICES ASSUME NEW a \in failed[key], clock - a.at < Window
                 PROVE  a \in fresh
      OBVIOUS
    <2>1. /\ a \in attempts[key] /\ a.at \in Nat /\ a.at <= clock
      BY <1>3 DEF TypeOK, Remembers, Attempt
    <2>2. req[p].now \in Nat /\ req[p].now <= clock /\ clock \in Nat
      BY DEF TypeOK, Remembers
    <2> QED BY <2>1, <2>2, ThrottleAssumption DEF Fresh, Age
  <1>6. /\ Cardinality(young) <= Cardinality(fresh)
        /\ IsFiniteSet(young)
    BY <1>4, <1>5, FS_Subset
  <1>7. Cardinality(young) \in Nat /\ Cardinality(fresh) \in Nat
    BY <1>4, <1>6, FS_CardinalityType
  <1>8. Cardinality(fresh) < Limit
    BY <1>2, <1>3, BelowLimit DEF TypeOK
  <1> QED BY <1>6, <1>7, <1>8, LimitPositive

\* While the wall clock runs forward, check lets a login pass only below the
\* limit, however the logins of all spellings interleave.
THEOREM AdmissionIsSound == Spec => AdmittedBelowLimit
  <1> DEFINE Inv == TypeOK /\ FailedFinite /\ RemembersForward
  <1>1. Init => Inv
    BY TypeInit, OvershootInit, RemembersInit DEF RemembersForward
  <1>2. Inv /\ [Next]_vars => Inv'
    BY TypeStep, FiniteStep, ForwardStep
  <1>3. Inv /\ [Next]_vars =>
          \A p \in Procs :
            ~ stepped /\ pc[p] = "check_lock" /\ pc'[p] = "find"
              => Cardinality({a \in failed[limiter_key(p)] :
                                clock - a.at < Window}) < Limit
    BY AdmittedStep DEF RemembersForward
  <1> QED BY <1>1, <1>2, <1>3, PTL DEF Spec, AdmittedBelowLimit

\* What check refuses had max_attempts failures younger than window.
LEMMA RefusedStep ==
  ASSUME TypeOK, FailedFinite, [Next]_vars,
         NEW p \in Procs, pc[p] = "check_lock", req'[p].answer = "limited"
  PROVE  Cardinality({a \in failed[limiter_key(p)] :
                        a.at > req[p].now - Window}) >= MaxAttempts
  <1> DEFINE key == limiter_key(p)
             young == {a \in failed[key] : a.at > req[p].now - Window}
             fresh == Fresh(attempts[key], req[p].now)
  <1>1. Check(p)
    <2>1. ASSUME NEW q \in Procs, Login(q)
          PROVE  Check(p)
      BY <2>1 DEF Login, CallLogin, ReadClock, Check, FindUser,
           VerifyPassword, RecordAttempt, SaveSession, RecordSuccess, Cancel,
           Goto, Answer, Request, TypeOK
    <2>2. CASE Tick \/ ClockStepBack \/ UNCHANGED vars
      BY <2>2 DEF Tick, ClockStepBack, vars, TypeOK
    <2> QED BY <2>1, <2>2 DEF Next
  <1>2. Cardinality(fresh) >= MaxAttempts
    BY <1>1 DEF Check, Goto, Answer, Request, TypeOK
  <1>3. key \in Keys
    BY KeyOfRequest
  <1>4. IsFiniteSet(failed[key])
    BY <1>3 DEF FailedFinite
  <1>5. young \subseteq failed[key]
    OBVIOUS
  <1>6. fresh \subseteq young
    <2> SUFFICES ASSUME NEW a \in attempts[key],
                        Age(req[p].now, a.at) < Window
                 PROVE  a \in young
      BY DEF Fresh
    <2>1. a \in failed[key] /\ a.at \in Nat
      BY <1>3 DEF TypeOK, Attempt
    <2>2. req[p].now \in Nat
      BY DEF TypeOK
    <2> QED BY <2>1, <2>2, ThrottleAssumption DEF Age
  <1>7. IsFiniteSet(young) /\ IsFiniteSet(fresh)
    BY <1>4, <1>5, <1>6, FS_Subset
  <1>8. Cardinality(fresh) <= Cardinality(young)
    BY <1>6, <1>7, FS_Subset
  <1>9. Cardinality(young) \in Nat /\ Cardinality(fresh) \in Nat
    BY <1>7, FS_CardinalityType
  <1> QED BY <1>2, <1>8, <1>9, ThrottleAssumption

\* A login is refused only for max_attempts failures that were younger than
\* window at the clock reading it took, whatever the wall clock does.
THEOREM RefusalIsSound == Spec => RefusedAtLimit
  <1> DEFINE Inv == TypeOK /\ FailedFinite
  <1>1. Init => Inv
    BY TypeInit, OvershootInit
  <1>2. Inv /\ [Next]_vars => Inv'
    BY TypeStep, FiniteStep
  <1>3. Inv /\ [Next]_vars =>
          \A p \in Procs :
            pc[p] = "check_lock" /\ req'[p].answer = "limited"
              => Cardinality({a \in failed[limiter_key(p)] :
                                a.at > req[p].now - Window}) >= MaxAttempts
    BY RefusedStep
  <1> QED BY <1>1, <1>2, <1>3, PTL DEF Spec, RefusedAtLimit
=============================================================================
