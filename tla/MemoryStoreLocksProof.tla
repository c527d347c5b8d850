----------------------- MODULE MemoryStoreLocksProof -----------------------
(***************************************************************************)
(* Theorems about MemoryStoreLocks, for every set of threads and methods,  *)
(* for readers that do or do not wait for waiting writers, and for every   *)
(* bound.                                                                  *)
(***************************************************************************)
EXTENDS MemoryStoreLocks, TLAPS

Points == [method : Methods \cup {"none"}, wants : Locks \cup {"none"}]

At(m, l) == [method |-> m, wants |-> l]

\* The points at which a method holds a lock while it wants the other.
Registering(t) == pc[t] = At("insert_user_with_password", "credentials")
LoggingIn(t) == pc[t] = At("find_by_identifier", "users")
Cloning(t) == pc[t] = At("clone", "credentials")

\* The guards of a thread at a point, and nowhere else.
GuardsAt(x) ==
  IF x = At("insert_user_with_password", "credentials")
  THEN {<<"users", "write">>}
  ELSE IF x = At("find_by_identifier", "users") THEN {<<"credentials", "read">>}
  ELSE IF x = At("clone", "credentials") THEN {<<"users", "read">>}
  ELSE {}

Typed ==
  /\ users \in Row /\ credentials \in Row
  /\ inserts \in Nat
  /\ stored \subseteq [user : Row, hash : Row]
  /\ queue \in [Locks -> SUBSET Threads]
  /\ pc \in [Threads -> Points]
  /\ seen \in [Threads -> [user : Row, hash : Row]]
  /\ calls \in Nat

\* A thread holds the guards of its point, and a thread that is registering
\* keeps the user table from every other one.
LocksOK ==
  /\ Typed
  /\ guards = [t \in Threads |-> GuardsAt(pc[t])]
  /\ \A w, t \in Threads :
       Registering(w) /\ (Registering(t) \/ Cloning(t)) => t = w

\* What a thread has read under a lock it still holds is what the table
\* holds; a thread that has both rows saw a pair between two inserts.
SeenFits(t) ==
  /\ Registering(t) => seen[t] = [user |-> users, hash |-> None] /\ users # None
  /\ LoggingIn(t) => seen[t] = [user |-> None, hash |-> credentials]
  /\ Cloning(t) => seen[t] = [user |-> users, hash |-> None]
  /\ pc[t] # Idle /\ GuardsAt(pc[t]) = {} => seen[t] = NoRows
  /\ pc[t] = Idle /\ seen[t].user # None /\ seen[t].hash # None
       => seen[t] \in stored

\* The tables hold such a pair, unless a registration is half way.
PairsOK ==
  /\ (\A t \in Threads : ~ Registering(t))
       => [user |-> users, hash |-> credentials] \in stored
  /\ \A t \in Threads : SeenFits(t)

-----------------------------------------------------------------------------
\* Who holds which lock.

\* The guards held at each point where a method waits.
LEMMA GuardFacts ==
  /\ GuardsAt(At("insert_user_with_password", "credentials")) = {<<"users", "write">>}
  /\ GuardsAt(At("find_by_identifier", "users")) = {<<"credentials", "read">>}
  /\ GuardsAt(At("clone", "credentials")) = {<<"users", "read">>}
  /\ GuardsAt(Idle) = {}
  /\ \A m : m # "find_by_identifier" => GuardsAt(At(m, "users")) = {}
  /\ GuardsAt(At("find_by_identifier", "credentials")) = {}
  BY DEF GuardsAt, At, Idle

\* Hence who holds each lock.
LEMMA HoldersFit ==
  ASSUME LocksOK
  PROVE  /\ Holders("users", "write") = {t \in Threads : Registering(t)}
         /\ Holders("users", "read") = {t \in Threads : Cloning(t)}
         /\ Holders("credentials", "read") = {t \in Threads : LoggingIn(t)}
         /\ Holders("credentials", "write") = {}
  <1>1. \A t \in Threads : guards[t] = GuardsAt(pc[t])
    BY DEF LocksOK
  <1>2. \A x : <<"users", "write">> \in GuardsAt(x)
                <=> x = At("insert_user_with_password", "credentials")
    BY DEF GuardsAt, At
  <1>3. \A x : <<"users", "read">> \in GuardsAt(x)
                <=> x = At("clone", "credentials")
    BY DEF GuardsAt, At
  <1>4. \A x : <<"credentials", "read">> \in GuardsAt(x)
                <=> x = At("find_by_identifier", "users")
    BY DEF GuardsAt, At
  <1>5. \A x : <<"credentials", "write">> \notin GuardsAt(x)
    BY DEF GuardsAt, At
  <1> QED
    BY <1>1, <1>2, <1>3, <1>4, <1>5, Zenon
    DEF Holders, Registering, LoggingIn, Cloning

\* The invariant is the type invariant and more.
LEMMA LocksOKTyped ==
  ASSUME LocksOK
  PROVE  TypeOK
  <1>1. guards \in [Threads -> SUBSET (Locks \X {"read", "write"})]
    BY DEF LocksOK, GuardsAt, Locks
  <1>2. ASSUME NEW l \in Locks, NEW w \in Threads, w \in Holders(l, "write")
        PROVE  Holders(l, "write") \cup Holders(l, "read") = {w}
    <2>1. l = "users" /\ Registering(w)
      BY <1>2, HoldersFit DEF Locks
    <2> QED BY <2>1, HoldersFit DEF LocksOK
  <1>3. \A t \in Threads : pc[t] = Idle => guards[t] = {}
    BY GuardFacts DEF LocksOK
  <1> QED BY <1>1, <1>2, <1>3 DEF TypeOK, LocksOK, Typed, Points

\* A thread moves to another point with the guards of that point; if it
\* starts to hold the user table it was free to.
LEMMA ThreadMoves ==
  ASSUME LocksOK, Typed', NEW t \in Threads, NEW x \in Points,
         pc' = [pc EXCEPT ![t] = x],
         guards' = [guards EXCEPT ![t] = GuardsAt(x)],
         x = At("insert_user_with_password", "credentials")
           => \A w \in Threads : ~ Registering(w) /\ ~ Cloning(w),
         x = At("clone", "credentials")
           => \A w \in Threads : ~ Registering(w)
  PROVE  LocksOK'
  <1>1. pc'[t] = x /\ \A w \in Threads : w # t => pc'[w] = pc[w]
    BY DEF LocksOK, Typed
  <1>2. guards' = [w \in Threads |-> GuardsAt(pc'[w])]
    BY <1>1 DEF LocksOK
  <1>3. ASSUME NEW w \in Threads, NEW u \in Threads,
               Registering(w)', Registering(u)' \/ Cloning(u)'
        PROVE  u = w
    <2>1. CASE w = t
      <3>1. \A v \in Threads : ~ Registering(v) /\ ~ Cloning(v)
        BY <1>1, <1>3, <2>1 DEF Registering
      <3> QED BY <1>1, <1>3, <2>1, <3>1 DEF Registering, Cloning
    <2>2. CASE w # t /\ u = t
      <3>1. Registering(w)
        BY <1>1, <1>3, <2>2 DEF Registering
      <3>2. x = At("insert_user_with_password", "credentials")
            \/ x = At("clone", "credentials")
        BY <1>1, <1>3, <2>2 DEF Registering, Cloning
      <3> QED BY <3>1, <3>2
    <2>3. CASE w # t /\ u # t
      BY <1>1, <1>3, <2>3 DEF Registering, Cloning, LocksOK
    <2> QED BY <2>1, <2>2, <2>3
  <1> QED BY <1>2, <1>3 DEF LocksOK

\* The points the methods reach.
LEMMA PointFacts ==
  /\ Idle \in Points
  /\ \A m \in Methods, l \in Locks : At(m, l) \in Points
  /\ {"insert_user", "insert_user_with_password", "find_by_id",
      "find_by_identifier", "clone"} = Methods
  /\ \A m \in Methods : \A l : At(m, l) # Idle
  BY DEF Idle, Points, At, Methods

\* The same for what the threads have read: a thread that moves and sees
\* what fits its new point disturbs no other, if it leaves alone the tables
\* that the others have read and still hold.
LEMMA PairsMove ==
  ASSUME LocksOK, PairsOK, NEW t \in Threads, NEW x \in Points,
         NEW s \in [user : Row, hash : Row],
         pc' = [pc EXCEPT ![t] = x], seen' = [seen EXCEPT ![t] = s],
         stored \subseteq stored', SeenFits(t)',
         \A w \in Threads :
           /\ w # t /\ (Registering(w) \/ Cloning(w)) => users' = users
           /\ w # t /\ LoggingIn(w) => credentials' = credentials,
         (\A w \in Threads : ~ Registering(w)')
           => [user |-> users', hash |-> credentials'] \in stored'
  PROVE  PairsOK'
  <1>1. \A w \in Threads : w # t => pc'[w] = pc[w] /\ seen'[w] = seen[w]
    BY DEF LocksOK, Typed
  <1>2. ASSUME NEW w \in Threads, w # t
        PROVE  SeenFits(w)'
    <2>1. pc'[w] = pc[w] /\ seen'[w] = seen[w] /\ SeenFits(w)
      BY <1>1, <1>2 DEF PairsOK
    <2>2. (Registering(w)' <=> Registering(w)) /\ (Cloning(w)' <=> Cloning(w))
          /\ (LoggingIn(w)' <=> LoggingIn(w))
      BY <2>1 DEF Registering, Cloning, LoggingIn
    <2> QED BY <1>2, <2>1, <2>2 DEF SeenFits
  <1> QED BY <1>2 DEF PairsOK

\* A lock that may be taken is held by nobody who would mind.
LEMMA FreeLocks ==
  ASSUME LocksOK
  PROVE  /\ CanWrite("users")
              => \A w \in Threads : ~ Registering(w) /\ ~ Cloning(w)
         /\ CanRead("users") => \A w \in Threads : ~ Registering(w)
         /\ CanWrite("credentials") => \A w \in Threads : ~ LoggingIn(w)
  BY HoldersFit DEF CanWrite, CanRead

-----------------------------------------------------------------------------
\* Steps preserve the two invariants.

Invariant == LocksOK /\ PairsOK

\* The store starts empty or seeded, and nobody has called.
LEMMA Starts ==
  ASSUME Init
  PROVE  Invariant
  <1> USE LocksAssumption
  <1>1. users \in Row /\ credentials \in Row
    BY DEF Init, Row
  <1>2. NoRows \in [user : Row, hash : Row]
    BY DEF NoRows, Row
  <1>3. \A t \in Threads : pc[t] = Idle /\ seen[t] = NoRows
    BY DEF Init
  <1>4. Typed
    <2>1. queue \in [Locks -> SUBSET Threads]
      BY DEF Init
    <2>2. pc \in [Threads -> Points]
      BY PointFacts DEF Init
    <2>3. stored \subseteq [user : Row, hash : Row]
      BY <1>1 DEF Init
    <2> QED BY <1>1, <1>2, <2>1, <2>2, <2>3 DEF Typed, Init
  <1>5. \A t \in Threads : ~ Registering(t) /\ ~ LoggingIn(t) /\ ~ Cloning(t)
    BY <1>3, PointFacts DEF Registering, LoggingIn, Cloning
  <1>6. guards = [t \in Threads |-> GuardsAt(pc[t])]
    BY <1>3, GuardFacts DEF Init
  <1>7. ASSUME NEW t \in Threads
        PROVE  SeenFits(t)
    <2>1. seen[t].user = None
      BY <1>3 DEF NoRows
    <2> QED BY <1>3, <1>5, <2>1 DEF SeenFits
  <1> QED BY <1>4, <1>5, <1>6, <1>7 DEF Invariant, LocksOK, PairsOK, Init

\* A call holds nothing yet and has seen nothing.
LEMMA CallKeeps ==
  ASSUME Invariant, NEW t \in Threads, Call(t)
  PROVE  Invariant'
  <1> USE LocksAssumption
  <1>1. PICK m \in Calls : pc' = [pc EXCEPT ![t] =
          [method |-> m, wants |-> IF m = "find_by_identifier"
                                   THEN "credentials" ELSE "users"]]
    BY DEF Call
  <1> DEFINE x == At(m, IF m = "find_by_identifier" THEN "credentials" ELSE "users")
  <1>2. x \in Points /\ GuardsAt(x) = {} /\ x # Idle
        /\ x # At("insert_user_with_password", "credentials")
        /\ x # At("clone", "credentials") /\ x # At("find_by_identifier", "users")
    <2>1. m \in Methods /\ m # "none"
      BY <1>1 DEF Methods
    <2> QED BY <2>1, PointFacts, GuardFacts DEF At, Locks, Idle
  <1>3. pc' = [pc EXCEPT ![t] = x]
    BY <1>1 DEF At
  <1> HIDE DEF x
  <1>4. NoRows \in [user : Row, hash : Row]
    BY DEF NoRows, Row
  <1>5. pc[t] = Idle /\ UNCHANGED <<tables, guards, queue>> /\ calls' \in Nat
        /\ seen' = [seen EXCEPT ![t] = NoRows]
    BY DEF Call, Invariant, LocksOK, Typed
  <1>6. Typed'
    BY <1>2, <1>3, <1>4, <1>5 DEF Typed, Invariant, LocksOK, tables
  <1>7. guards' = [guards EXCEPT ![t] = GuardsAt(x)]
    BY <1>2, <1>5, GuardFacts DEF Invariant, LocksOK
  <1>8. LocksOK'
    BY <1>2, <1>3, <1>6, <1>7, ThreadMoves DEF Invariant
  <1>9. SeenFits(t)'
    <2>1. pc'[t] = x /\ seen'[t] = NoRows
      BY <1>3, <1>5 DEF Invariant, LocksOK, Typed
    <2> QED BY <2>1, <1>2 DEF SeenFits, Registering, LoggingIn, Cloning
  <1>10. (\A w \in Threads : ~ Registering(w)') => \A w \in Threads : ~ Registering(w)
    <2>1. \A w \in Threads : w # t => pc'[w] = pc[w]
      BY <1>3 DEF Invariant, LocksOK, Typed
    <2> QED BY <2>1, <1>5 DEF Registering, Idle, At
  <1>11. PairsOK'
    <2>1. UNCHANGED <<users, credentials, stored>>
      BY <1>5 DEF tables
    <2> QED BY <1>2, <1>3, <1>4, <1>5, <1>9, <1>10, <2>1, PairsMove DEF Invariant, PairsOK
  <1> QED BY <1>8, <1>11 DEF Invariant

\* Waiting changes a queue only.
LEMMA WaitKeeps ==
  ASSUME Invariant, NEW t \in Threads, Wait(t)
  PROVE  Invariant'
  <1>1. UNCHANGED <<tables, guards, pc, seen, calls>>
        /\ queue' \in [Locks -> SUBSET Threads]
    BY DEF Wait, Invariant, LocksOK, Typed
  <1>2. \A w \in Threads :
          /\ Registering(w)' <=> Registering(w)
          /\ Cloning(w)' <=> Cloning(w)
          /\ LoggingIn(w)' <=> LoggingIn(w)
          /\ SeenFits(w)' <=> SeenFits(w)
    BY <1>1 DEF Registering, Cloning, LoggingIn, SeenFits, tables
  <1>3. Typed'
    BY <1>1 DEF Typed, Invariant, LocksOK, tables
  <1>4. LocksOK'
    BY <1>1, <1>2, <1>3 DEF Invariant, LocksOK
  <1>5. PairsOK'
    BY <1>1, <1>2 DEF Invariant, PairsOK, tables
  <1> QED BY <1>4, <1>5 DEF Invariant

\* A method that returns gives its guards back.
LEMMA Returns ==
  ASSUME Invariant, Typed', NEW t \in Threads, Return(t),
         NEW s \in [user : Row, hash : Row], seen' = [seen EXCEPT ![t] = s],
         s.user # None /\ s.hash # None => s \in stored',
         stored \subseteq stored',
         \A w \in Threads :
           /\ w # t /\ (Registering(w) \/ Cloning(w)) => users' = users
           /\ w # t /\ LoggingIn(w) => credentials' = credentials,
         (\A w \in Threads : w # t => ~ Registering(w))
           => [user |-> users', hash |-> credentials'] \in stored'
  PROVE  Invariant'
  <1>1. pc' = [pc EXCEPT ![t] = Idle]
        /\ guards' = [guards EXCEPT ![t] = GuardsAt(Idle)]
    BY GuardFacts DEF Return
  <1>2. /\ Idle \in Points
        /\ Idle # At("insert_user_with_password", "credentials")
        /\ Idle # At("clone", "credentials")
        /\ Idle # At("find_by_identifier", "users")
    BY PointFacts
  <1>3. LocksOK'
    BY <1>1, <1>2, ThreadMoves DEF Invariant
  <1>4. pc'[t] = Idle /\ seen'[t] = s /\ \A w \in Threads : w # t => pc'[w] = pc[w]
    BY <1>1 DEF Invariant, LocksOK, Typed
  <1>5. SeenFits(t)'
    BY <1>2, <1>4 DEF SeenFits, Registering, LoggingIn, Cloning
  <1>6. (\A w \in Threads : ~ Registering(w)')
          => [user |-> users', hash |-> credentials'] \in stored'
    BY <1>4 DEF Registering
  <1>7. PairsOK'
    BY <1>1, <1>2, <1>5, <1>6, PairsMove DEF Invariant
  <1> QED BY <1>3, <1>7 DEF Invariant

\* insert_user writes a table that nobody reads or registers in.
LEMMA InsertUserKeeps ==
  ASSUME Invariant, NEW t \in Threads, InsertUser(t)
  PROVE  Invariant'
  <1> USE LocksAssumption
  <1>1. /\ pc[t] = At("insert_user", "users") /\ CanWrite("users")
        /\ queue' = [queue EXCEPT !["users"] = @ \ {t}]
        /\ inserts' = inserts + 1 /\ users' = inserts + 1
        /\ stored' = stored \cup {[user |-> inserts + 1, hash |-> credentials]}
        /\ Return(t) /\ UNCHANGED <<credentials, seen, calls>>
    BY DEF InsertUser, Wants, At, Leave
  <1>2. Typed
    BY DEF Invariant, LocksOK
  <1>3. seen[t] = NoRows
    <2>1. GuardsAt(pc[t]) = {} /\ pc[t] # Idle
      BY <1>1, GuardFacts, PointFacts DEF Methods
    <2> QED BY <2>1 DEF Invariant, PairsOK, SeenFits
  <1>4. Typed'
    <2>1. pc' \in [Threads -> Points]
      BY <1>1, <1>2, PointFacts DEF Return, Typed
    <2>2. users' \in Row /\ inserts' \in Nat
      BY <1>1, <1>2 DEF Typed, Row
    <2>3. stored' \subseteq [user : Row, hash : Row]
      BY <1>1, <1>2, <2>2 DEF Typed
    <2> QED BY <1>1, <1>2, <2>1, <2>2, <2>3 DEF Typed
  <1>5. \A w \in Threads : ~ Registering(w) /\ ~ Cloning(w)
    BY <1>1, FreeLocks DEF Invariant
  <1>6. seen[t] \in [user : Row, hash : Row] /\ seen' = [seen EXCEPT ![t] = seen[t]]
    BY <1>1, <1>2 DEF Typed
  <1>7. [user |-> users', hash |-> credentials'] \in stored' /\ stored \subseteq stored'
    BY <1>1
  <1>8. ~ (seen[t].user # None)
    BY <1>3 DEF NoRows
  <1> QED BY <1>1, <1>4, <1>5, <1>6, <1>7, <1>8, Returns

\* The user half of insert_user_with_password, likewise; from here on the
\* tables may be a torn pair, which nobody can read.
LEMMA InsertUserRowKeeps ==
  ASSUME Invariant, NEW t \in Threads, InsertUserRow(t)
  PROVE  Invariant'
  <1> USE LocksAssumption
  <1> DEFINE x == At("insert_user_with_password", "credentials")
             s == [user |-> inserts + 1, hash |-> None]
  <1>1. /\ pc[t] = At("insert_user_with_password", "users") /\ CanWrite("users")
        /\ queue' = [queue EXCEPT !["users"] = @ \ {t}]
        /\ inserts' = inserts + 1 /\ users' = inserts + 1
        /\ seen' = [seen EXCEPT ![t].user = inserts + 1]
        /\ guards' = [guards EXCEPT ![t] = @ \cup {<<"users", "write">>}]
        /\ pc' = [pc EXCEPT ![t] = x]
        /\ UNCHANGED <<credentials, stored, calls>>
    BY DEF InsertUserRow, Wants, At, Leave, Hold
  <1>2. Typed
    BY DEF Invariant, LocksOK
  <1>3. GuardsAt(pc[t]) = {} /\ pc[t] # Idle
    BY <1>1, GuardFacts, PointFacts DEF Methods
  <1>4. seen[t] = NoRows
    BY <1>3 DEF Invariant, PairsOK, SeenFits
  <1>5. seen' = [seen EXCEPT ![t] = s] /\ s \in [user : Row, hash : Row]
    <2>1. [seen[t] EXCEPT !.user = inserts + 1] = s
      BY <1>4 DEF NoRows
    <2>2. seen' = [seen EXCEPT ![t] = [seen[t] EXCEPT !.user = inserts + 1]]
      BY <1>1
    <2>3. inserts + 1 \in Row /\ None \in Row
      BY <1>2 DEF Typed, Row
    <2> QED BY <2>1, <2>2, <2>3
  <1>6. guards' = [guards EXCEPT ![t] = GuardsAt(x)]
    <2>1. guards[t] = {}
      BY <1>3 DEF Invariant, LocksOK
    <2> QED BY <1>1, <2>1, GuardFacts
  <1>7. x \in Points /\ x # At("clone", "credentials")
        /\ x # At("find_by_identifier", "users") /\ x # Idle /\ GuardsAt(x) # {}
    <2>1. x # At("clone", "credentials") /\ x # At("find_by_identifier", "users")
      BY DEF At
    <2>2. GuardsAt(x) # {}
      BY GuardFacts
    <2> QED BY <2>1, <2>2, PointFacts DEF Methods, Locks
  <1> HIDE DEF x, s
  <1>8. Typed'
    <2>1. pc' \in [Threads -> Points]
      BY <1>1, <1>2, <1>7 DEF Typed
    <2>2. users' \in Row /\ inserts' \in Nat
      BY <1>1, <1>2 DEF Typed, Row
    <2>3. queue' \in [Locks -> SUBSET Threads]
      BY <1>1, <1>2 DEF Typed
    <2>4. seen' \in [Threads -> [user : Row, hash : Row]]
      BY <1>5, <1>2 DEF Typed
    <2> QED BY <1>1, <1>2, <2>1, <2>2, <2>3, <2>4 DEF Typed
  <1>9. \A w \in Threads : ~ Registering(w) /\ ~ Cloning(w)
    BY <1>1, FreeLocks DEF Invariant
  <1>10. LocksOK'
    BY <1>1, <1>6, <1>7, <1>8, <1>9, ThreadMoves DEF Invariant
  <1>11. pc'[t] = x /\ seen'[t] = s /\ Registering(t)'
    BY <1>1, <1>2, <1>5 DEF Typed, Registering, x
  <1>12. SeenFits(t)'
    <2>1. users' # None /\ s = [user |-> users', hash |-> None]
      BY <1>1, <1>2 DEF Typed, s
    <2> QED BY <1>7, <1>11, <2>1 DEF SeenFits, LoggingIn, Cloning
  <1>13. PairsOK'
    BY <1>1, <1>5, <1>7, <1>9, <1>11, <1>12, PairsMove DEF Invariant
  <1> QED BY <1>10, <1>13 DEF Invariant

\* The credential half makes the pair whole again.
LEMMA InsertCredentialKeeps ==
  ASSUME Invariant, NEW t \in Threads, InsertCredential(t)
  PROVE  Invariant'
  <1>1. /\ Registering(t) /\ CanWrite("credentials")
        /\ queue' = [queue EXCEPT !["credentials"] = @ \ {t}]
        /\ credentials' = seen[t].user
        /\ stored' = stored \cup {[user |-> users, hash |-> seen[t].user]}
        /\ Return(t) /\ UNCHANGED <<users, inserts, seen, calls>>
    BY DEF InsertCredential, Wants, At, Leave, Registering
  <1>2. Typed
    BY DEF Invariant, LocksOK
  <1>3. seen[t] = [user |-> users, hash |-> None]
    BY <1>1 DEF Invariant, PairsOK, SeenFits
  <1>4. credentials' = users /\ seen[t].hash = None
        /\ stored' = stored \cup {[user |-> users, hash |-> users]}
    BY <1>1, <1>3
  <1>5. Typed'
    <2>1. pc' \in [Threads -> Points]
      BY <1>1, <1>2, PointFacts DEF Return, Typed
    <2>2. stored' \subseteq [user : Row, hash : Row]
      BY <1>2, <1>4 DEF Typed
    <2> QED BY <1>1, <1>2, <1>4, <2>1, <2>2 DEF Typed
  <1>6. \A w \in Threads : ~ LoggingIn(w)
    BY <1>1, FreeLocks DEF Invariant
  <1>7. seen[t] \in [user : Row, hash : Row] /\ seen' = [seen EXCEPT ![t] = seen[t]]
    BY <1>1, <1>2 DEF Typed
  <1>8. [user |-> users', hash |-> credentials'] \in stored' /\ stored \subseteq stored'
    BY <1>1, <1>4
  <1> QED BY <1>1, <1>4, <1>5, <1>6, <1>7, <1>8, Returns

\* A method that reads one row and returns, with the tables unchanged: it may
\* only make a pair of rows when no registration is half way.
LEMMA ReadReturns ==
  ASSUME Invariant, NEW t \in Threads, Return(t), UNCHANGED <<tables, queue, calls>>,
         NEW s \in [user : Row, hash : Row], seen' = [seen EXCEPT ![t] = s],
         s.user # None /\ s.hash # None => s \in stored,
         ~ Registering(t)
  PROVE  Invariant'
  <1>1. UNCHANGED <<users, credentials, inserts, stored, queue, calls>>
    BY DEF tables
  <1>2. Typed'
    <2>1. pc' \in [Threads -> Points]
      BY PointFacts DEF Return, Typed, Invariant, LocksOK
    <2> QED BY <1>1, <2>1 DEF Typed, Invariant, LocksOK
  <1>3. (\A w \in Threads : w # t => ~ Registering(w))
          => [user |-> users', hash |-> credentials'] \in stored'
    BY <1>1 DEF Invariant, PairsOK
  <1> QED BY <1>1, <1>2, <1>3, Returns

\* A method that reads its first row and keeps the lock.
LEMMA ReadHolds ==
  ASSUME Invariant, NEW t \in Threads, UNCHANGED <<tables, queue, calls>>,
         NEW x \in Points, pc' = [pc EXCEPT ![t] = x],
         guards' = [guards EXCEPT ![t] = GuardsAt(x)],
         NEW s \in [user : Row, hash : Row], seen' = [seen EXCEPT ![t] = s],
         ~ Registering(t),
         \/ /\ x = At("clone", "credentials")
            /\ \A w \in Threads : ~ Registering(w)
            /\ s = [user |-> users, hash |-> None]
         \/ /\ x = At("find_by_identifier", "users")
            /\ s = [user |-> None, hash |-> credentials]
  PROVE  Invariant'
  <1>1. UNCHANGED <<users, credentials, inserts, stored, queue, calls>>
    BY DEF tables
  <1>2. Typed'
    <2>1. pc' \in [Threads -> Points] /\ seen' \in [Threads -> [user : Row, hash : Row]]
      BY DEF Typed, Invariant, LocksOK
    <2> QED BY <1>1, <2>1 DEF Typed, Invariant, LocksOK
  <1>3. At("clone", "credentials") # At("find_by_identifier", "users")
        /\ At("clone", "credentials") # At("insert_user_with_password", "credentials")
        /\ At("find_by_identifier", "users") # At("insert_user_with_password", "credentials")
    BY DEF At
  <1>4. LocksOK'
    <2>1. x # At("insert_user_with_password", "credentials")
      BY <1>3
    <2>2. x = At("clone", "credentials") => \A w \in Threads : ~ Registering(w)
      BY <1>3
    <2> QED BY <1>2, <2>1, <2>2, ThreadMoves DEF Invariant
  <1>5. pc'[t] = x /\ seen'[t] = s /\ \A w \in Threads : w # t => pc'[w] = pc[w]
    BY DEF Invariant, LocksOK, Typed
  <1>6. SeenFits(t)'
    <2>1. x # Idle /\ GuardsAt(x) # {}
      BY GuardFacts, PointFacts DEF Methods
    <2> QED BY <1>1, <1>3, <1>5, <2>1 DEF SeenFits, Registering, LoggingIn, Cloning
  <1>7. (\A w \in Threads : ~ Registering(w)')
          => [user |-> users', hash |-> credentials'] \in stored'
    BY <1>1, <1>5 DEF Registering, Invariant, PairsOK
  <1>8. PairsOK'
    BY <1>1, <1>6, <1>7, PairsMove DEF Invariant
  <1> QED BY <1>4, <1>8 DEF Invariant

\* find_by_id, find_by_identifier and clone.
LEMMA ReadKeeps ==
  ASSUME Invariant, NEW t \in Threads, Read(t)
  PROVE  Invariant'
  <1> USE LocksAssumption
  <1>1. Typed
    BY DEF Invariant, LocksOK
  <1>2. users \in Row /\ credentials \in Row /\ None \in Row
    BY <1>1 DEF Typed, Row
  <1>3. seen[t] \in [user : Row, hash : Row]
    BY <1>1 DEF Typed
  <1>4. SeenFits(t)
    BY DEF Invariant, PairsOK
  <1>5. CASE FindById(t)
    <2>1. /\ pc[t] = At("find_by_id", "users") /\ Return(t)
          /\ UNCHANGED <<tables, queue, calls>>
          /\ seen' = [seen EXCEPT ![t] = [seen[t] EXCEPT !.user = users]]
      BY <1>5 DEF FindById, Wants, At
    <2>2. seen[t] = NoRows
      BY <2>1, <1>4, GuardFacts, PointFacts DEF SeenFits, Methods
    <2>3. [seen[t] EXCEPT !.user = users] = [user |-> users, hash |-> None]
      BY <2>2 DEF NoRows
    <2>4. ~ Registering(t)
      BY <2>1 DEF Registering, At
    <2> DEFINE s == [user |-> users, hash |-> None]
    <2>5. s \in [user : Row, hash : Row] /\ s.hash = None
      BY <1>2
    <2>6. seen' = [seen EXCEPT ![t] = s]
      BY <2>1, <2>3
    <2> HIDE DEF s
    <2> QED BY <2>1, <2>4, <2>5, <2>6, ReadReturns
  <1>6. CASE FindCredential(t)
    <2>1. /\ pc[t] = At("find_by_identifier", "credentials")
          /\ UNCHANGED <<tables, queue, calls>>
          /\ seen' = [seen EXCEPT ![t] = [seen[t] EXCEPT !.hash = credentials]]
      BY <1>6 DEF FindCredential, Wants, At
    <2>2. GuardsAt(pc[t]) = {} /\ pc[t] # Idle
      BY <2>1, GuardFacts, PointFacts DEF Methods
    <2>3. seen[t] = NoRows
      BY <2>2, <1>4 DEF SeenFits
    <2>4. [seen[t] EXCEPT !.hash = credentials] = [user |-> None, hash |-> credentials]
      BY <2>3 DEF NoRows
    <2>5. ~ Registering(t)
      BY <2>1 DEF Registering, At
    <2> DEFINE s == [user |-> None, hash |-> credentials]
    <2>6. s \in [user : Row, hash : Row] /\ s.user = None
      BY <1>2
    <2>7. seen' = [seen EXCEPT ![t] = s]
      BY <2>1, <2>4
    <2>8. CASE Return(t)
      <3> HIDE DEF s
      <3> QED BY <2>1, <2>5, <2>6, <2>7, <2>8, ReadReturns
    <2>9. CASE Hold(t, "find_by_identifier", "credentials", "read", "users")
      <3> DEFINE x == At("find_by_identifier", "users")
      <3>1. guards[t] = {}
        BY <2>2 DEF Invariant, LocksOK
      <3>2. pc' = [pc EXCEPT ![t] = x] /\ guards' = [guards EXCEPT ![t] = GuardsAt(x)]
        BY <2>9, <3>1, GuardFacts DEF Hold, At
      <3>3. x \in Points
        BY PointFacts DEF Methods, Locks
      <3> QED BY <2>1, <2>5, <2>6, <2>7, <3>2, <3>3, ReadHolds
    <2> QED BY <1>6, <2>8, <2>9 DEF FindCredential
  <1>7. CASE FindUserOfCredential(t)
    <2>1. /\ LoggingIn(t) /\ Return(t) /\ CanRead("users")
          /\ UNCHANGED <<tables, queue, calls>>
          /\ seen' = [seen EXCEPT ![t] = [seen[t] EXCEPT !.user = users]]
      BY <1>7 DEF FindUserOfCredential, Wants, At, LoggingIn
    <2>2. seen[t] = [user |-> None, hash |-> credentials]
      BY <2>1, <1>4 DEF SeenFits
    <2> DEFINE s == [user |-> users, hash |-> credentials]
    <2>3. [seen[t] EXCEPT !.user = users] = s
      BY <2>2
    <2>4. s \in stored
      BY <2>1, FreeLocks DEF Invariant, PairsOK
    <2>5. ~ Registering(t)
      BY <2>1 DEF LoggingIn, Registering, At
    <2>6. s \in [user : Row, hash : Row] /\ seen' = [seen EXCEPT ![t] = s]
      BY <1>2, <2>1, <2>3
    <2> HIDE DEF s
    <2> QED BY <2>1, <2>4, <2>5, <2>6, ReadReturns
  <1>8. CASE CloneUsers(t)
    <2>1. /\ pc[t] = At("clone", "users") /\ CanRead("users")
          /\ UNCHANGED <<tables, queue, calls>>
          /\ seen' = [seen EXCEPT ![t] = [seen[t] EXCEPT !.user = users]]
          /\ Hold(t, "clone", "users", "read", "credentials")
      BY <1>8 DEF CloneUsers, Wants, At
    <2>2. GuardsAt(pc[t]) = {} /\ pc[t] # Idle
      BY <2>1, GuardFacts, PointFacts DEF Methods
    <2>3. seen[t] = NoRows
      BY <2>2, <1>4 DEF SeenFits
    <2>4. [seen[t] EXCEPT !.user = users] = [user |-> users, hash |-> None]
      BY <2>3 DEF NoRows
    <2>5. \A w \in Threads : ~ Registering(w)
      BY <2>1, FreeLocks DEF Invariant
    <2> DEFINE s == [user |-> users, hash |-> None]
               x == At("clone", "credentials")
    <2>6. s \in [user : Row, hash : Row]
      BY <1>2
    <2>7. seen' = [seen EXCEPT ![t] = s]
      BY <2>1, <2>4
    <2>8. guards[t] = {}
      BY <2>2 DEF Invariant, LocksOK
    <2>9. pc' = [pc EXCEPT ![t] = x] /\ guards' = [guards EXCEPT ![t] = GuardsAt(x)]
      BY <2>1, <2>8, GuardFacts DEF Hold, At
    <2>10. x \in Points
      BY PointFacts DEF Methods, Locks
    <2> QED BY <2>1, <2>5, <2>6, <2>7, <2>9, <2>10, ReadHolds
  <1>9. CASE CloneCredentials(t)
    <2>1. /\ Cloning(t) /\ Return(t)
          /\ UNCHANGED <<tables, queue, calls>>
          /\ seen' = [seen EXCEPT ![t] = [seen[t] EXCEPT !.hash = credentials]]
      BY <1>9 DEF CloneCredentials, Wants, At, Cloning
    <2>2. seen[t] = [user |-> users, hash |-> None]
      BY <2>1, <1>4 DEF SeenFits
    <2> DEFINE s == [user |-> users, hash |-> credentials]
    <2>3. [seen[t] EXCEPT !.hash = credentials] = s
      BY <2>2
    <2>4. ~ Registering(t)
      BY <2>1 DEF Cloning, Registering, At
    <2>5. \A w \in Threads : ~ Registering(w)
      BY <2>1, <2>4 DEF Invariant, LocksOK
    <2>6. s \in stored
      BY <2>5 DEF Invariant, PairsOK
    <2>7. s \in [user : Row, hash : Row] /\ seen' = [seen EXCEPT ![t] = s]
      BY <1>2, <2>1, <2>3
    <2> HIDE DEF s
    <2> QED BY <2>1, <2>4, <2>6, <2>7, ReadReturns
  <1> QED BY <1>5, <1>6, <1>7, <1>8, <1>9 DEF Read

-----------------------------------------------------------------------------
\* The two invariants, of every state the store reaches.
LEMMA Reached == Spec => []Invariant
  <1>1. Init => Invariant
    BY Starts
  <1>2. Invariant /\ [Next]_vars => Invariant'
    <2> SUFFICES ASSUME Invariant, [Next]_vars PROVE Invariant'
      OBVIOUS
    <2>1. CASE UNCHANGED vars
      <3>1. UNCHANGED <<users, credentials, inserts, stored, guards, queue, pc, seen, calls>>
        BY <2>1 DEF vars, tables
      <3>2. Typed'
        BY <3>1 DEF Typed, Invariant, LocksOK
      <3>3. \A w \in Threads :
              /\ Registering(w)' <=> Registering(w)
              /\ Cloning(w)' <=> Cloning(w)
              /\ SeenFits(w)' <=> SeenFits(w)
        BY <3>1 DEF Registering, Cloning, LoggingIn, SeenFits
      <3> QED BY <3>1, <3>2, <3>3 DEF Invariant, LocksOK, PairsOK
    <2>2. ASSUME NEW t \in Threads, Call(t) \/ Wait(t) \/ Write(t) \/ Read(t)
          PROVE  Invariant'
      BY <2>2, CallKeeps, WaitKeeps, InsertUserKeeps, InsertUserRowKeeps,
         InsertCredentialKeeps, ReadKeeps DEF Write
    <2> QED BY <2>1, <2>2 DEF Next
  <1> QED BY <1>1, <1>2, PTL DEF Spec

\* Readers and a writer never hold a lock of the store together, and a method
\* that has returned holds none (insert_user_with_password, find_by_identifier
\* and clone each take two).
THEOREM LocksExclude == Spec => []TypeOK
  <1>1. Invariant => TypeOK
    BY LocksOKTyped DEF Invariant
  <1> QED BY <1>1, Reached, PTL

\* No find_by_identifier and no clone ever pairs the user of one
\* insert_user_with_password with the password hash of another.
THEOREM PairsAreWhole == Spec => []PairConsistent
  <1>1. Invariant => PairConsistent
    BY DEF Invariant, PairsOK, SeenFits, PairConsistent
  <1> QED BY <1>1, Reached, PTL
=============================================================================
