------------------------------ MODULE SqlStores ------------------------------
(***************************************************************************)
(* The stores of the repository side by side: MemoryStore, the SQLite       *)
(* adapter, the SQLite demo and the sqlx demo.  Either the application      *)
(* calls one of them, with two extensions of a session in progress, or a    *)
(* conformance suite (storage/conformance.rs, the main of sqlite_adapter)   *)
(* runs against it.  Each statement on a connection or under the lock of a  *)
(* map is one step; the default touch_session_if_present is two.            *)
(* A statement the application causes may fail.                             *)
(***************************************************************************)
EXTENDS SqlRows, Sequences

CONSTANTS
  Kinds,       \* the stores explored
  Ids,         \* session ids the application makes
  Tasks,       \* validations that extend a session
  NewSessions, \* sessions the application saves
  Touches,     \* pairs of an expiry and an activity time
  Scripts,     \* suites that are run, "app" when the application runs
  SeedHashes   \* the password hash inside the seeded TestUser

Stores == {"memory", "adapter", "sqlite_demo", "sqlx"}

ASSUME KindsAssumption == Kinds \subseteq Stores

\* A session whose numbers are of the set N: u64 in Rust, signed in a row.
Session(N) ==
  [user : N, created : N, expires : N, active : N \cup {None},
   hash : {s.hash : s \in NewSessions} \cup SeedHashes \cup {None}]

ASSUME NoneAssumption == None \notin Int \cup Session(Int)
ASSUME SessionsAssumption == NewSessions \subseteq Session(0..U64Max)
ASSUME TouchesAssumption == Touches \subseteq (0..U64Max) \X (0..U64Max)
ASSUME ScriptsAssumption ==
  Scripts \subseteq {"app", "users", "passwords", "sessions", "sessions_meant",
                     "engine", "adapter_main"}

\* The user ids and times of the suites, 0 to 3 here, are small i64 numbers.
ASSUME SuiteNumbersAssumption == 0..3 \subseteq (0..I64Max) \cap (0..U64Max)

VARIABLES
  kind,      \* the store
  users,     \* its user table
  rows,      \* its session table
  pend,      \* what each default touch has read: id and new session, or None
  last,      \* the last call and its result
  saved,     \* history: the session saved first under an id
  ended,     \* history: ids whose session was deleted
  settled,   \* history: the ended ids that no default touch was holding
  suite      \* the suite that runs, its next line and the line it failed at

vars == <<kind, users, rows, pend, last, saved, ended, settled, suite>>

Adapter == INSTANCE SqliteAdapterStore
Demo == INSTANCE SqliteDemoStore
Sqlx == INSTANCE SqlxStore

NoCall == [op |-> "none", id |-> None, arg |-> None, out |-> Ok]

\* Stores whose touch_session_if_present is one conditional update.
Conditional == {"memory", "adapter"}

-----------------------------------------------------------------------------
\* MemoryStore: a map under a lock.

memory_find(rs, i) ==
  Returns(rs, IF rs[i] = None THEN Absent ELSE Found(rs[i]))

memory_touch(rs, i, e, a) ==
  Returns(IF rs[i] = None THEN rs
          ELSE [rs EXCEPT ![i].expires = e, ![i].active = a], Ok)

memory_list(rs, u) == Returns(rs, Listed({<<i, rs[i]>> : i \in IdsOf(rs, u)}))

memory_find_user(us, id) ==
  IF id \in UserIds(us) THEN Found(WithId(us, id)) ELSE Absent

memory_find_identifier(us, name) ==
  LET hits == {u \in us : u.email = name} IN
  IF hits = {} THEN Absent ELSE Found(CHOOSE u \in hits : TRUE)

-----------------------------------------------------------------------------
\* The trait's methods, as the store in use implements them.

\* create_user of the SQL stores, insert_user_with_password of MemoryStore.
create_user(us, u) ==
  CASE kind = "memory" -> Returns({v \in us : v.id # u.id} \cup {u}, Ok)
    [] kind = "adapter" -> Adapter!create_user(us, u)
    [] kind = "sqlite_demo" -> Demo!create_user(us, u)
    [] kind = "sqlx" -> Sqlx!create_user(us, u)

save_session(rs, i, s) ==
  CASE kind = "memory" -> Returns([rs EXCEPT ![i] = s], Ok)
    [] kind = "adapter" -> Adapter!save_session(users, rs, i, s)
    [] kind = "sqlite_demo" -> Demo!save_session(users, rs, i, s)
    [] kind = "sqlx" -> Sqlx!save_session(users, rs, i, s)

find_session(rs, i) ==
  CASE kind = "memory" -> memory_find(rs, i)
    [] kind = "adapter" -> Adapter!find_session(rs, i)
    [] kind = "sqlite_demo" -> Demo!find_session(rs, i)
    [] kind = "sqlx" -> Sqlx!find_session(rs, i)

delete_session(rs, i) ==
  CASE kind = "memory" -> Returns(Remove(rs, {i}), Ok)
    [] kind = "adapter" -> Adapter!delete_session(rs, i)
    [] kind = "sqlite_demo" -> Demo!delete_session(rs, i)
    [] kind = "sqlx" -> Sqlx!delete_session(rs, i)

delete_user_sessions(rs, u) ==
  CASE kind = "memory" -> Returns(Remove(rs, IdsOf(rs, u)), Ok)
    [] kind = "adapter" -> Adapter!delete_user_sessions(rs, u)
    [] kind = "sqlite_demo" -> Demo!delete_user_sessions(rs, u)
    [] kind = "sqlx" -> Sqlx!delete_user_sessions(rs, u)

list_user_sessions(rs, u) ==
  CASE kind = "memory" -> memory_list(rs, u)
    [] kind = "adapter" -> Adapter!list_user_sessions(rs, u)
    [] kind = "sqlite_demo" -> Demo!list_user_sessions(rs, u)
    [] kind = "sqlx" -> Sqlx!list_user_sessions(rs, u)

find_by_id(id) ==
  CASE kind = "memory" -> memory_find_user(users, id)
    [] kind = "adapter" -> Adapter!find_by_id(users, id)
    [] kind = "sqlite_demo" -> Demo!find_by_id(users, id)
    [] kind = "sqlx" -> Sqlx!find_by_id(users, id)

find_by_identifier(name) ==
  CASE kind = "memory" -> memory_find_identifier(users, name)
    [] kind = "adapter" -> Adapter!find_by_identifier(users, name)
    [] kind = "sqlite_demo" -> Demo!find_by_identifier(users, name)
    [] kind = "sqlx" -> Sqlx!find_by_identifier(users, name)

\* Session::set_expiry_and_last_active.
Extended(s, e, a) == [s EXCEPT !.expires = e, !.active = a]

\* The session that a result holds.
The(out) == CHOOSE x \in out.got : TRUE

\* touch_session_if_present, nobody else running: the store's own conditional
\* update, or the default body of the trait.
touch_session_if_present(rs, i, e, a) ==
  CASE kind = "memory" -> memory_touch(rs, i, e, a)
    [] kind = "adapter" -> Adapter!touch_session_if_present(rs, i, e, a)
    [] OTHER -> LET found == find_session(rs, i).out IN
                CASE found.tag = "some" -> save_session(rs, i, Extended(The(found), e, a))
                  [] found.tag = "none" -> Returns(rs, Ok)
                  [] found.tag = "err" -> Returns(rs, Err)

-----------------------------------------------------------------------------
\* The application.

Application == suite.script = "app"

\* The ids whose session the step ends, and which of them nobody holds a copy of.
Ending(rs) == {i \in Ids : rows[i] # None /\ rs[i] = None}
Held == {pend[t].id : t \in {t \in Tasks : pend[t] # None}}

\* A call that returns: what it leaves in the table and what it answers.
Call(op, id, arg, ret) ==
  /\ rows' = ret.rows
  /\ last' = [op |-> op, id |-> id, arg |-> arg, out |-> ret.out]
  /\ ended' = ended \cup Ending(ret.rows)
  /\ settled' = settled \cup (Ending(ret.rows) \ Held)
  /\ UNCHANGED <<kind, users, suite>>

\* The engine saves under a token it has just made.
Save(i) ==
  /\ Application /\ saved[i] = None
  /\ \E s \in NewSessions :
       LET ret == save_session(rows, i, s) IN
       /\ Call("save", i, s, ret)
       /\ saved' = [saved EXCEPT ![i] = IF ret.out = Ok THEN s ELSE None]
  /\ UNCHANGED pend

Find(i) ==
  /\ Application
  /\ Call("find", i, None, find_session(rows, i))
  /\ UNCHANGED <<pend, saved>>

Delete(i) ==
  /\ Application
  /\ Call("delete", i, None, delete_session(rows, i))
  /\ UNCHANGED <<pend, saved>>

OwnerIds == {s.user : s \in NewSessions}

DeleteUser ==
  /\ Application
  /\ \E u \in OwnerIds : Call("delete_user", None, u, delete_user_sessions(rows, u))
  /\ UNCHANGED <<pend, saved>>

List ==
  /\ Application
  /\ \E u \in OwnerIds : Call("list", None, u, list_user_sessions(rows, u))
  /\ UNCHANGED <<pend, saved>>

\* touch_session_if_present of MemoryStore and of the adapter.
Touch(i) ==
  /\ Application /\ kind \in Conditional
  /\ \E e \in Touches :
       Call("touch", i, e, touch_session_if_present(rows, i, e[1], e[2]))
  /\ UNCHANGED <<pend, saved>>

\* The default body: find_session, which ends the call when nothing is found ...
TouchFind(t, i) ==
  /\ Application /\ kind \notin Conditional /\ pend[t] = None
  /\ \E e \in Touches :
       LET found == find_session(rows, i).out IN
       \/ /\ found.tag = "some"
          /\ pend' = [pend EXCEPT ![t] =
               [id |-> i, arg |-> e, session |-> Extended(The(found), e[1], e[2])]]
          /\ UNCHANGED <<kind, users, rows, last, saved, ended, settled, suite>>
       \/ /\ found.tag # "some"
          /\ Call("touch", i, e, touch_session_if_present(rows, i, e[1], e[2]))
          /\ UNCHANGED <<pend, saved>>

\* Mutant: the session saved is bound to the user of another row.
TouchSaveRebinds(t) ==
  /\ Application /\ pend[t] # None
  /\ \E u \in OwnerIds :
       Call("touch", pend[t].id, pend[t].arg,
            save_session(rows, pend[t].id, [pend[t].session EXCEPT !.user = u]))
  /\ pend' = [pend EXCEPT ![t] = None]
  /\ UNCHANGED saved

\* ... and then save_session of the session it read, whatever became of it.
TouchSave(t) ==
  /\ Application /\ pend[t] # None
  /\ Call("touch", pend[t].id, pend[t].arg,
          save_session(rows, pend[t].id, pend[t].session))
  /\ pend' = [pend EXCEPT ![t] = None]
  /\ UNCHANGED saved

\* A statement of a SQL store fails (the file is locked, the disk is full) and is
\* rolled back: the call answers an error, and a default touch ends there.
StatementFails ==
  /\ Application /\ kind # "memory"
  /\ \/ /\ \E i \in Ids,
              op \in {"save", "find", "delete", "delete_user", "list", "touch"} :
             last' = [NoCall EXCEPT !.op = op, !.id = i, !.out = Failed]
        /\ UNCHANGED pend
     \/ \E t \in Tasks :
          /\ pend[t] # None
          /\ last' = [NoCall EXCEPT !.op = "touch", !.id = pend[t].id, !.out = Failed]
          /\ pend' = [pend EXCEPT ![t] = None]
  /\ UNCHANGED <<kind, users, rows, saved, ended, settled, suite>>

-----------------------------------------------------------------------------
\* The suites, no statement failing.  A user is what the store's table holds: `hash'
\* is the stored credential, `auth' the hash inside the user value
\* (session_auth_hash).

Correct == "password123"     \* the password of the seeded user
Invalid == [tag |-> "invalid", got |-> {}]

Now == 1
Later == 2                   \* now + ttl, and the activity time of a touch
Extension == 3               \* the expiry a touch sets

\* AuthEngine::login, validate_session and logout, nobody else running.
Login(i, name, password) ==
  LET found == find_by_identifier(name) IN
  CASE found.tag = "err" -> Returns(rows, Err)
    [] found.tag = "none" \/ (found.tag = "some" /\ password # Correct)
         -> Returns(rows, Invalid)
    [] OTHER ->
         LET u == The(found)
             ret == save_session(rows, i, [user |-> u.id, created |-> Now,
                      expires |-> Later, active |-> None, hash |-> u.auth])
         IN IF ret.out = Ok THEN Returns(ret.rows, found) ELSE ret

Validate(i) ==
  LET found == find_session(rows, i).out
      s == The(found)
      owner == find_by_id(s.user)
  IN IF found.tag # "some" THEN Returns(rows, found)
     ELSE
     CASE owner.tag = "err" -> Returns(rows, Err)
       [] owner.tag = "none" \/ (owner.tag = "some" /\ The(owner).auth # s.hash)
            -> Returns(delete_session(rows, i).rows, Absent)
       [] OTHER -> Returns(touch_session_if_present(rows, i, Later, Now).rows, owner)

Logout(i) ==
  LET found == find_session(rows, i).out IN
  CASE found.tag = "err" -> Returns(rows, Err)
    [] found.tag = "some" /\ find_by_id(The(found).user).tag = "some" ->
         delete_session(rows, i)
    [] OTHER -> Returns(rows, Ok)

\* A line of a suite: a call, and what is asserted of its result: the tag, and
\* as much of what it holds as `view' shows.
Line(op, id, arg, tag, view, got) ==
  [op |-> op, id |-> id, arg |-> arg, tag |-> tag, view |-> view, got |-> got]

Does(op, id, arg) == Line(op, id, arg, "ok", "none", {})
IsNone(op, id, arg) == Line(op, id, arg, "none", "none", {})
IsSome(op, id, arg) == Line(op, id, arg, "some", "none", {})

Shown(line, out) ==
  CASE line.view = "none" -> {}
    [] line.view = "whole" -> out.got
    [] line.view = "times" -> {<<s.expires, s.active>> : s \in out.got}
    [] line.view = "ids" -> {x[1] : x \in out.got}
    [] line.view = "user" -> {<<u.id, u.email, u.auth>> : u \in out.got}
    [] line.view = "known" -> {<<u.id, u.email>> : u \in out.got}

Accepts(line, out) == out.tag = line.tag /\ Shown(line, out) = line.got

Perform(line) ==
  LET i == line.id   a == line.arg IN
  CASE line.op = "save" -> save_session(rows, i, a)
    [] line.op = "find" -> find_session(rows, i)
    [] line.op = "delete" -> delete_session(rows, i)
    [] line.op = "delete_user" -> delete_user_sessions(rows, a)
    [] line.op = "list" -> list_user_sessions(rows, a)
    [] line.op = "touch" -> touch_session_if_present(rows, i, Extension, Later)
    [] line.op = "find_by_id" -> Returns(rows, find_by_id(a))
    [] line.op = "find_by_identifier" -> Returns(rows, find_by_identifier(a))
    [] line.op = "login" -> Login(i, a[1], a[2])
    [] line.op = "validate" -> Validate(i)
    [] line.op = "logout" -> Logout(i)

Alice == "alice@example.com"
Unknown == 0                 \* a user id without a row
User42 == 2
User99 == 3

run_user_store_tests ==
  << Line("find_by_id", None, 1, "some", "user", {<<1, Alice, "">>}),
     IsNone("find_by_id", None, Unknown) >>

run_password_user_store_tests ==
  << Line("find_by_identifier", None, Alice, "some", "known", {<<1, Alice>>}),
     IsNone("find_by_identifier", None, "nobody") >>

SessionFor(u) ==
  [user |-> u, created |-> Now, expires |-> Later, active |-> None, hash |-> None]

\* run_session_store_tests up to the listing, the listing, and what follows.
StoresAndDeletes ==
  << Does("save", "s1", SessionFor(User42)),
     Line("find", "s1", None, "some", "whole", {SessionFor(User42)}),
     IsNone("find", "unknown", None),
     Does("delete", "s1", None),
     IsNone("find", "s1", None),
     Does("save", "s2", SessionFor(User42)),
     Does("save", "s3", SessionFor(User99)),
     Does("delete_user", None, User42),
     IsNone("find", "s2", None),
     IsSome("find", "s3", None),
     Does("save", "s4", SessionFor(User42)),
     Does("save", "s5", SessionFor(User99)) >>

\* The assertion as it is written: two sessions, s4 and s5.
ListsUser == << Line("list", None, User42, "list", "ids", {"s4", "s5"}) >>

\* The assertion as its message says it: only the target user's sessions.
ListsOnlyTarget == << Line("list", None, User42, "list", "ids", {"s4"}) >>

TouchesIfPresent ==
  << Does("save", "touch", SessionFor(User42)),
     Does("touch", "touch", None),
     Line("find", "touch", None, "some", "times", {<<Extension, Later>>}),
     Does("touch", "ghost", None),
     IsNone("find", "ghost", None),
     Does("delete", "touch", None),
     Does("touch", "touch", None),
     IsNone("find", "touch", None) >>

run_session_store_tests == StoresAndDeletes \o ListsUser \o TouchesIfPresent

run_engine_lifecycle_tests ==
  << Line("login", "s1", <<Alice, Correct>>, "some", "known", {<<1, Alice>>}),
     Line("validate", "s1", None, "some", "known", {<<1, Alice>>}),
     Line("login", "s2", <<Alice, "wrong">>, "invalid", "none", {}),
     Does("logout", "s1", None),
     IsNone("validate", "s1", None) >>

\* main of sqlite_adapter.rs, charlie under the name of Alice.
adapter_main ==
  << Line("login", "s2", <<Alice, "wrong">>, "invalid", "none", {}),
     Line("login", "s1", <<Alice, Correct>>, "some", "known", {<<1, Alice>>}),
     Line("validate", "s1", None, "some", "known", {<<1, Alice>>}),
     Does("logout", "s1", None),
     IsNone("validate", "s1", None) >>

Lines(script) ==
  CASE script = "app" -> <<>>
    [] script = "users" -> run_user_store_tests
    [] script = "passwords" -> run_password_user_store_tests
    [] script = "sessions" -> run_session_store_tests
    [] script = "sessions_meant" -> StoresAndDeletes \o ListsOnlyTarget \o TouchesIfPresent
    [] script = "engine" -> run_engine_lifecycle_tests
    [] script = "adapter_main" -> adapter_main

\* The suites a store can be given, by its user and id types: TestUser and u64.
Fits(k, script) ==
  CASE script = "app" -> TRUE
    [] script \in {"sessions", "sessions_meant"} -> k # "adapter"
    [] script = "adapter_main" -> k = "adapter"
    [] OTHER -> k = "memory"

\* One line: the suite goes on, or stops at the assertion that fails.
SuiteStep ==
  /\ ~ Application /\ suite.failed = 0 /\ suite.at <= Len(Lines(suite.script))
  /\ LET line == Lines(suite.script)[suite.at]
         ret == Perform(line)
     IN /\ rows' = ret.rows
        /\ suite' = IF Accepts(line, ret.out) THEN [suite EXCEPT !.at = @ + 1]
                    ELSE [suite EXCEPT !.failed = suite.at]
  /\ UNCHANGED <<kind, users, pend, last, saved, ended, settled>>

SuiteIds == {"s1", "s2", "s3", "s4", "s5", "unknown", "touch", "ghost"}

-----------------------------------------------------------------------------
\* The user a suite or an application is seeded with, and those whose sessions
\* a suite saves: a schema with a foreign key needs them too.
Seeded(id, email, auth) ==
  [id |-> id, email |-> email, username |-> email, hash |-> "hash", auth |-> auth]

Others == {Seeded(User42, "bob", ""), Seeded(User99, "carol", "")}

\* An application creates its users at the start, one of them twice.
Created ==
  LET first == create_user({}, Seeded(1, Alice, "hash")).rows
      second == create_user(first, Seeded(2, "bob", "hash")).rows
  IN create_user(second, Seeded(2, "bob", "hash")).rows

Init ==
  /\ kind \in Kinds
  /\ \E script \in {s \in Scripts : Fits(kind, s)} :
       /\ suite = [script |-> script, at |-> 1, failed |-> 0]
       /\ rows = [i \in IF script = "app" THEN Ids ELSE SuiteIds |-> None]
  /\ \/ Application /\ users = Created
     \/ /\ ~ Application
        /\ \E auth \in SeedHashes, others \in {{}, Others} :
             users = {Seeded(1, Alice, auth)} \cup others
  /\ pend = [t \in Tasks |-> None]
  /\ last = NoCall
  /\ saved = [i \in Ids |-> None]
  /\ ended = {} /\ settled = {}

Next ==
  \/ \E i \in Ids : Save(i) \/ Find(i) \/ Delete(i) \/ Touch(i)
                      \/ \E t \in Tasks : TouchFind(t, i)
  \/ \E t \in Tasks : TouchSave(t)
  \/ DeleteUser \/ List \/ StatementFails
  \/ SuiteStep

Spec == Init /\ [][Next]_vars

-----------------------------------------------------------------------------
(***************************************************************************)
(* Properties.                                                             *)
(***************************************************************************)

\* What find_session would answer of each id.
Loaded ==
  [i \in DOMAIN rows |->
     LET found == find_session(rows, i).out IN
     IF found.tag = "some" THEN The(found) ELSE None]

Contract == INSTANCE SessionStoreContract WITH table <- Loaded

ContractStep == kind \in Conditional /\ Application => Contract!Next

\* MemoryStore and the SQLite adapter are implementations of the SessionStore
\* contract, call by call: what is saved is found again over the whole range of
\* u64, though SQL keeps signed numbers, a missing session is None, an extension
\* never makes a session, a deleted id stays empty, and a call whose statement
\* fails has no effect.
ImplementsContract ==
  Contract!Init /\ [][ContractStep]_<<Loaded, ended, last>>

\* The second half of a default touch, late: it stores the session it read before
\* that session was deleted.
LateTouch(t) ==
  /\ pend[t] # None /\ pend'[t] = None /\ last'.op = "touch"
  /\ Loaded[pend[t].id] = None
  /\ Loaded' = [Loaded EXCEPT ![pend[t].id] = pend[t].session]
  /\ UNCHANGED ended

\* An error, and nothing changed.
ErrorAlone == last'.out = Err /\ UNCHANGED <<Loaded, ended>>

DefaultTouchStep ==
  kind \notin Conditional /\ Application =>
    \/ Contract!Next
    \/ \E t \in Tasks : LateTouch(t)
    \/ kind = "sqlite_demo" /\ ErrorAlone

\* The stores that keep the default touch differ from the SessionStore contract in
\* it alone: a touch whose session was not deleted meanwhile is one step of the
\* contract, though it is a find and a save, and so is every other call, a failed
\* one included; only sqlite_demo may answer an error where no statement failed,
\* and changes nothing then.
OnlyLateTouchDiffers == [][DefaultTouchStep]_<<Loaded, ended, last>>

\* With every store, a deleted session stays deleted unless a default touch was
\* holding a copy of it when it was deleted: no other pair of calls revives one.
RevivedOnlyByOverlap ==
  Application => \A i \in settled : rows[i] = None

\* Whatever is found under an id, extended or revived, belongs to the user it was
\* saved for, began when that session began and carries its auth hash: neither
\* the casts nor the partial update of ON CONFLICT rebind a session.
OwnerKept ==
  Application =>
    \A i \in Ids : Loaded[i] # None =>
      /\ saved[i] # None
      /\ <<Loaded[i].user, Loaded[i].created, Loaded[i].hash>>
           = <<saved[i].user, saved[i].created, saved[i].hash>>

\* A store passes every suite that takes its types, if it is seeded as the suite
\* needs and the listing means what its message says, unless it answers an error
\* for a missing session: the suites do not tell the default touch from a
\* conditional one.
SuitesPassCorrectStores ==
  suite.failed # 0 =>
    \/ kind = "sqlite_demo"
    \/ suite.script = "sessions"
    \/ suite.script = "users" /\ \E u \in users : u.id = 1 /\ u.auth # ""
    \/ kind = "sqlx" /\ ~ {User42, User99} \subseteq UserIds(users)

\* Documented: the session suite asserts of a store that it lists only the
\* target user's sessions, so MemoryStore passes it.
SessionSuitePasses == kind = "memory" => suite.failed = 0
=============================================================================
