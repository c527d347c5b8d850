-------------------------- MODULE MemoryStoreLocks --------------------------
(***************************************************************************)
(* The user table and the credential table of MemoryStore                  *)
(* (storage/memory.rs), each behind a std::sync::RwLock, and the methods    *)
(* that take the two locks: insert_user and insert_user_with_password       *)
(* write, find_by_id, find_by_identifier and clone read.                   *)
(*                                                                         *)
(* Every session method takes the one lock of the session table for its    *)
(* whole body and is a single step of AuthSessions; clone, which takes it   *)
(* last, can only wait for a method that waits for nothing.                *)
(*                                                                         *)
(* One user with one login identifier is enough to tell a torn pair of      *)
(* tables: a row is the serial number of the insert that wrote it.         *)
(***************************************************************************)
EXTENDS Naturals

CONSTANTS
  Threads,       \* threads that call the store
  Calls,         \* the methods they call
  WritersFirst,  \* does a reader wait for the writers that already wait?
  MaxInserts,    \* bound: inserts explored
  MaxCalls,      \* bound: calls explored
  None           \* no row

Methods == {"insert_user", "insert_user_with_password", "find_by_id",
            "find_by_identifier", "clone"}

ASSUME LocksAssumption ==
  /\ Calls \subseteq Methods
  /\ WritersFirst \in BOOLEAN
  /\ MaxInserts \in Nat /\ MaxCalls \in Nat
  /\ None \notin Nat

VARIABLES
  users, credentials,  \* the row of the user in each table
  inserts,             \* inserts begun so far
  stored,              \* history: pairs of rows between two inserts
  guards,              \* the lock guards each thread holds
  queue,               \* the writers that wait for each lock
  pc,                  \* the method of each thread and the lock it wants next
  seen,                \* the rows each thread has read, and its own insert
  calls                \* calls so far

tables == <<users, credentials, inserts, stored>>
vars == <<tables, guards, queue, pc, seen, calls>>

Locks == {"users", "credentials"}

Idle == [method |-> "none", wants |-> "none"]

NoRows == [user |-> None, hash |-> None]

-----------------------------------------------------------------------------
\* std::sync::RwLock.  A guard is released when its method returns: `clone`
\* keeps the guards of its struct expression up to its end, as the others
\* keep those they bound to a name.

Holders(l, mode) == {t \in Threads : <<l, mode>> \in guards[t]}

CanRead(l) ==
  /\ Holders(l, "write") = {}
  /\ WritersFirst => queue[l] = {}

CanWrite(l) == Holders(l, "write") = {} /\ Holders(l, "read") = {}

Wants(t, method, l) == pc[t] = [method |-> method, wants |-> l]

WantsToWrite(t, l) ==
  \/ l = "users" /\ Wants(t, "insert_user", l)
  \/ Wants(t, "insert_user_with_password", l)

\* A writer that finds the lock taken joins its queue.
Wait(t) ==
  \E l \in Locks :
    /\ WantsToWrite(t, l)
    /\ ~ CanWrite(l)
    /\ t \notin queue[l]
    /\ queue' = [queue EXCEPT ![l] = @ \cup {t}]
    /\ UNCHANGED <<tables, guards, pc, seen, calls>>

Leave(t, l) == queue' = [queue EXCEPT ![l] = @ \ {t}]

\* Thread t keeps a guard and goes on to the next lock.
Hold(t, method, l, mode, next) ==
  /\ guards' = [guards EXCEPT ![t] = @ \cup {<<l, mode>>}]
  /\ pc' = [pc EXCEPT ![t] = [method |-> method, wants |-> next]]

Return(t) ==
  /\ guards' = [guards EXCEPT ![t] = {}]
  /\ pc' = [pc EXCEPT ![t] = Idle]

-----------------------------------------------------------------------------
\* A method is called; each wants the user table first, but for
\* find_by_identifier, which starts with the credentials.
Call(t) ==
  /\ pc[t] = Idle
  /\ calls < MaxCalls
  /\ calls' = calls + 1
  /\ seen' = [seen EXCEPT ![t] = NoRows]
  /\ \E m \in Calls :
       /\ m \in {"insert_user", "insert_user_with_password"}
            => inserts < MaxInserts
       /\ pc' = [pc EXCEPT ![t] =
            [method |-> m, wants |-> IF m = "find_by_identifier"
                                     THEN "credentials" ELSE "users"]]
  /\ UNCHANGED <<tables, guards, queue>>

\* insert_user: the row of the user, and only that.
InsertUser(t) ==
  /\ Wants(t, "insert_user", "users")
  /\ CanWrite("users")
  /\ Leave(t, "users")
  /\ inserts' = inserts + 1
  /\ users' = inserts + 1
  /\ stored' = stored \cup {[user |-> inserts + 1, hash |-> credentials]}
  /\ Return(t)
  /\ UNCHANGED <<credentials, seen, calls>>

\* Mutant: the guard of the user table is dropped before the credentials
\* are locked.
InsertUserRowUnguarded(t) ==
  /\ Wants(t, "insert_user_with_password", "users")
  /\ CanWrite("users")
  /\ Leave(t, "users")
  /\ inserts' = inserts + 1
  /\ users' = inserts + 1
  /\ seen' = [seen EXCEPT ![t].user = inserts + 1]
  /\ pc' = [pc EXCEPT ![t].wants = "credentials"]
  /\ UNCHANGED <<credentials, stored, guards, calls>>

\* Mutant: the user table is locked a second time for the credentials.
InsertUserRowLocksTwice(t) ==
  /\ Wants(t, "insert_user_with_password", "users")
  /\ CanWrite("users")
  /\ Leave(t, "users")
  /\ inserts' = inserts + 1
  /\ users' = inserts + 1
  /\ seen' = [seen EXCEPT ![t].user = inserts + 1]
  /\ Hold(t, "insert_user_with_password", "users", "write", "users")
  /\ UNCHANGED <<credentials, stored, calls>>

\* Mutant: the row is written under the read guard of a lookup.
InsertUserRowSharesLock(t) ==
  /\ Wants(t, "insert_user_with_password", "users")
  /\ CanRead("users")
  /\ Leave(t, "users")
  /\ inserts' = inserts + 1
  /\ users' = inserts + 1
  /\ seen' = [seen EXCEPT ![t].user = inserts + 1]
  /\ Hold(t, "insert_user_with_password", "users", "write", "credentials")
  /\ UNCHANGED <<credentials, stored, calls>>

\* insert_user_with_password: first the user, ...
InsertUserRow(t) ==
  /\ Wants(t, "insert_user_with_password", "users")
  /\ CanWrite("users")
  /\ Leave(t, "users")
  /\ inserts' = inserts + 1
  /\ users' = inserts + 1
  /\ seen' = [seen EXCEPT ![t].user = inserts + 1]
  /\ Hold(t, "insert_user_with_password", "users", "write", "credentials")
  /\ UNCHANGED <<credentials, stored, calls>>

\* ... then, with the user table still locked, the credentials.
InsertCredential(t) ==
  /\ Wants(t, "insert_user_with_password", "credentials")
  /\ CanWrite("credentials")
  /\ Leave(t, "credentials")
  /\ credentials' = seen[t].user
  /\ stored' = stored \cup {[user |-> users, hash |-> seen[t].user]}
  /\ Return(t)
  /\ UNCHANGED <<users, inserts, seen, calls>>

FindById(t) ==
  /\ Wants(t, "find_by_id", "users")
  /\ CanRead("users")
  /\ seen' = [seen EXCEPT ![t].user = users]
  /\ Return(t)
  /\ UNCHANGED <<tables, queue, calls>>

\* find_by_identifier: the credentials, ...
FindCredential(t) ==
  /\ Wants(t, "find_by_identifier", "credentials")
  /\ CanRead("credentials")
  /\ seen' = [seen EXCEPT ![t].hash = credentials]
  /\ \/ credentials = None /\ Return(t)
     \/ /\ credentials # None
        /\ Hold(t, "find_by_identifier", "credentials", "read", "users")
  /\ UNCHANGED <<tables, queue, calls>>

\* ... then, with the credentials still locked, the user they name.
FindUserOfCredential(t) ==
  /\ Wants(t, "find_by_identifier", "users")
  /\ CanRead("users")
  /\ seen' = [seen EXCEPT ![t].user = users]
  /\ Return(t)
  /\ UNCHANGED <<tables, queue, calls>>

CloneUsers(t) ==
  /\ Wants(t, "clone", "users")
  /\ CanRead("users")
  /\ seen' = [seen EXCEPT ![t].user = users]
  /\ Hold(t, "clone", "users", "read", "credentials")
  /\ UNCHANGED <<tables, queue, calls>>

CloneCredentials(t) ==
  /\ Wants(t, "clone", "credentials")
  /\ CanRead("credentials")
  /\ seen' = [seen EXCEPT ![t].hash = credentials]
  /\ Return(t)
  /\ UNCHANGED <<tables, queue, calls>>

-----------------------------------------------------------------------------
\* The store is empty, or the application has seeded it before serving.
Init ==
  /\ users \in {None, 0}
  /\ credentials = users
  /\ inserts = 0
  /\ stored = {[user |-> users, hash |-> credentials]}
  /\ guards = [t \in Threads |-> {}]
  /\ queue = [l \in Locks |-> {}]
  /\ pc = [t \in Threads |-> Idle]
  /\ seen = [t \in Threads |-> NoRows]
  /\ calls = 0

Write(t) == InsertUser(t) \/ InsertUserRow(t) \/ InsertCredential(t)

Read(t) ==
  \/ FindById(t) \/ FindCredential(t) \/ FindUserOfCredential(t)
  \/ CloneUsers(t) \/ CloneCredentials(t)

Next == \E t \in Threads : Call(t) \/ Wait(t) \/ Write(t) \/ Read(t)

\* A thread that can take its lock takes it: threads call a bounded number of
\* times, so no lock is kept from a thread for ever by the others.
Fairness == \A t \in Threads : WF_vars(Write(t)) /\ WF_vars(Read(t))

Spec == Init /\ [][Next]_vars /\ Fairness

-----------------------------------------------------------------------------
(***************************************************************************)
(* Properties.                                                             *)
(***************************************************************************)

Row == Nat \cup {None}

\* Besides the types: readers and a writer never hold a lock together, and a
\* thread between two calls holds none.
TypeOK ==
  /\ users \in Row /\ credentials \in Row
  /\ inserts \in Nat
  /\ stored \subseteq [user : Row, hash : Row]
  /\ guards \in [Threads -> SUBSET (Locks \X {"read", "write"})]
  /\ queue \in [Locks -> SUBSET Threads]
  /\ pc \in [Threads -> [method : Methods \cup {"none"},
                         wants : Locks \cup {"none"}]]
  /\ seen \in [Threads -> [user : Row, hash : Row]]
  /\ calls \in Nat
  /\ \A l \in Locks, w \in Threads :
       w \in Holders(l, "write") =>
         Holders(l, "write") \cup Holders(l, "read") = {w}
  /\ \A t \in Threads : pc[t] = Idle => guards[t] = {}

\* A call that has returned both rows saw a pair that the tables held between
\* two inserts: neither a login nor a copy of the store ever pairs an old
\* password hash with the user of a later insert_user_with_password.
PairConsistent ==
  \A t \in Threads :
    pc[t] = Idle /\ seen[t].user # None /\ seen[t].hash # None
      => seen[t] \in stored

\* A registration holds the users and wants the credentials, a login holds the
\* credentials and wants the users.
Crossed ==
  \E w, r \in Threads :
    /\ Wants(w, "insert_user_with_password", "credentials")
    /\ Wants(r, "find_by_identifier", "users")

\* A call can only be kept from returning by threads that wait for each other
\* that way: not by copies, not by waiting writers that hold up new readers.
OnlyCrossingBlocks ==
  \A t \in Threads : pc[t] # Idle ~> (pc[t] = Idle \/ Crossed)

\* Documented: insert_user_with_password inserts the user, so it returns, and
\* so does every other call.
CallsReturn == \A t \in Threads : pc[t] # Idle ~> pc[t] = Idle
=============================================================================
