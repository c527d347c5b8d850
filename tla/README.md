# dioxus-auth in TLA+

Specifications of `dioxus-auth` (the crate in `src/`), model-checked with TLC;
nearly all of their safety properties are also proved with TLAPS. The crate issues and validates sessions on a server
(engine, stores, rate limiter, cookies, axum middleware, server functions) and
keeps the authentication status of a client (provider, restore probe, cross-tab
messages, return-to key, token file). Its `examples/` are five applications and
three SQL stores. What can go wrong in it is concurrency: async requests that
interleave at every `.await` on a shared store, a rate limiter that checks and
records in two steps, two locks taken in two orders, replies and messages that
arrive in another order than they were sent, code that awaits a reply and is
dropped before it comes.

Paths below are relative to the repository root (`src/engine/...` is the crate's
own `src` directory). `PROJECT.json` maps every definition to the lines it models.

## 1. Inventory

| Component | State | Operations | Talks to | What must hold |
|---|---|---|---|---|
| Engine (`engine/auth_engine.rs`) | none of its own; per call: session read, clock reading, auth hash | `login`, `validate_session`, `logout`, `revoke_session`, `revoke_all_user_sessions` | session store, user store, limiter, clock | a deleted session stays deleted; an answered revocation is effective; lifetimes and password changes are honoured |
| Session store (`storage/session.rs`, `storage/memory.rs`) | storage id -> session | find, save, delete, delete by user, conditional touch (or the default find-then-save) | called by the engine | Spec 16: no resurrection |
| User store (`storage/user.rs`, `storage/memory.rs`) | users and credentials, two `RwLock`s | insert, find by id, find by identifier, clone | called by the engine and the application | a user and its hash belong together; calls return |
| Rate limiter (`security/rate_limit.rs`) | key -> failure times, a `Mutex` | `check`, `record_attempt`, `record_success` | called by `login` | bounded overshoot; admits and refuses by the window |
| Cookie and bearer (`security/cookie.rs`, `transport/extract.rs`) | `CookieConfig` | build, delete, extract, Origin checks | server context | one credential per request, the same one for every operation |
| Server context, registry, middleware (`dioxus/server_fn.rs`, `registry.rs`, `axum.rs`) | a process-wide registry; request and response headers | `current_user`, `login_cookie`, `login_bearer`, `logout_current`, three middlewares | engine, cookies, browser | logout ends what validation would accept; Origin guards cookies; a cleared cookie is dead |
| Client status (`dioxus/provider.rs`, `context.rs`, `restore.rs`, `hooks/`) | the `AuthStatus` signal, the whoami probe | restore, `set_user`, `logout` | server functions | a late probe never overwrites a decision; `Loading` ends |
| Cross-tab sync (`dioxus/sync.rs`) | a `BroadcastChannel` per tab | `login`, `logout`, receive | other tabs | tabs agree with the cookie once quiet; one channel |
| Return-to (`dioxus/return_to.rs`) | one `localStorage` key, shared by tabs | capture, consume (a read and a remove), clear | `RouteGate`, login page | a destination is returned once, and never an older one than the tab's own |
| Guards and components (`dioxus/guards.rs`, `components/`) | none | outcome of a status, what to render, redirect | pages, return-to | what is behind a gate always has a user |
| Token storage (`transport/file.rs`, `memory.rs`, `web.rs`) | a file, a `Mutex`, `localStorage` | load, save, clear | native clients | a stopped save leaves the old token or the new one; private mode |
| SQL stores (`examples/sqlite_adapter.rs`, `sqlite-demo`, `sqlx-sqlite`) | tables `users`, `sessions` behind one connection or a pool | the methods of the three store traits, as statements | called by the engine | the contract of the trait, over the whole of `u64`; owner and start of a session are never rewritten |
| Conformance suites (`storage/conformance.rs`) | line reached | the calls and assertions of four suites, `main` of the adapter | a store | correct stores pass |
| Example applications (`examples/basic_auth.rs`, `dioxus-fullstack`, `sqlite-demo`, `sqlx-sqlite`, `registration-demo`) | page, status, form, cookie jar; a server's sessions | navigation, forms, server functions, what follows each `.await` | all of the above | the status shown and the dashboard are those of the cookie; `Loading` ends |
| Registration (`examples/registration-demo`) | users, single-use tokens | register, verify, reset | `MemoryStore` | a token verifies once, and its own account |
| Password hashing, derive macro | none | a pure function; code generation | | not worth a state machine |

Hard behaviours: interleaving at awaits and locks; failing store calls, some of
whose errors are discarded (`let _ = ...`); dropped request futures; a wall clock
that ticks between two reads and may be set back; reordered and lost replies; late
restore probes; pages that are left while their call is on its way; a save that
stops between two file system calls; integers that SQL keeps with a sign; tabs of
different deployments. `PROJECT.json` lists 40 hazards at their lines with the
properties that cover them, or why none does.

## 2. Modules

| Module | Models | Role |
|---|---|---|
| `SessionLifecycle` | what callers are promised about a token | abstract specification |
| `AuthSessions` | engine over session and user store | detailed specification, refines the former |
| `AuthSessionsProof`, `AuthSessionsGuarantees` | | theorems about `AuthSessions`; the second extends the first |
| `LoginThrottle` | rate limiter inside `do_login` | |
| `LoginThrottleProof` | | theorems about `LoginThrottle` |
| `MemoryStoreLocks` | the two locked tables of `MemoryStore` | |
| `MemoryStoreLocksProof` | | theorems about `MemoryStoreLocks` |
| `RequestCredentials` | cookies, bearer tokens, server context, registry, middleware, one client | uses the engine as a set of live sessions |
| `RequestCredentialsProof` | | theorems about `RequestCredentials` |
| `ClientTabs` | tabs of one visitor, restore probe, cross-tab messages | uses the server as one session per cookie jar |
| `ClientTabsProof` | | theorems about `ClientTabs` |
| `SessionStoreContract` | what `SessionStore` promises, method by method | abstract specification |
| `SqlRows` | rows, keys, conflicts, results; integers of `Bits` bits | used by the three stores |
| `SqliteAdapterStore`, `SqliteDemoStore`, `SqlxStore` | the statements of each SQL store | operators from a table to a table and a result |
| `SqlStores` | `MemoryStore` and the three side by side, under an application or under a suite | composition; refines the contract |
| `SqlStoresProof` | | theorems about `SqlStores` |
| `TokenFile` | `FileTokenStorage` of a native client | |
| `ReturnTo` | the return-to key, gates and login pages of several tabs | |
| `AppKit` | guards, gates, the status a probe sets, calls of `ServerAuthContext` | used by the applications |
| `SqliteDemoApp`, `SqlxApp`, `FullstackApp`, `BasicApp`, `RegistrationApp` | the pages and server functions of each example | operators |
| `ExampleApps` | a tab that runs one of them, its calls, cookie jar and server | composition, with `ReturnTo` |
| `ClientPrograms` | the three kinds of client programs | disjoint composition, for one run |
| `ClientProgramsProof` | | theorems about `TokenFile`, `ReturnTo` and `ExampleApps` |
| `MC*` | constants and symmetry for TLC | |

The layers compose by abstraction: `RequestCredentials` sees of the engine only
that a login adds a live session, a logout removes one unless its user is not
found, a validation asks (and may remove one it refuses), and each may fail - what
`AuthSessions` shows of it; `ClientTabs` sees of
`RequestCredentials` only the user of the cookie's session. `AuthSessions` takes
each `MemoryStore` session method as one step, because each holds its one lock
for its whole body; `MemoryStoreLocks` looks at the methods that take two.

### AuthSessions

`req[p]` holds what a request carries from one await to the next and `pc[p]` the
await it is about to run; each store call and each clock read is a step, so
between any two of them any other request, a tick, a password change, a failing
store call (`StoreFault`) or a dropped future (`Cancel`) may come. Errors that
the code propagates with `?` end the request, those it discards with `let _ =`
do not. `AtomicTouch` chooses between a store that overrides
`touch_session_if_present` (`MemoryStore`, `examples/sqlite_adapter.rs`) and the
trait's find-then-save default (which the stores of `examples/sqlite-demo` and
`examples/sqlx-sqlite` use). `now - last_active` is a subtraction modulo
`WordSize`, or a panic when it is negative, as the build's overflow checks have it;
so is `created + ttl` (`ExpiryOf`): a login whose sum does not fit either panics
(`"overflowed"`) or stores a session that has expired long ago.
`verified` and `began` are history: what a token's login proved, and what held
when a request was called. `users[u].active` is FALSE while the application's
`UserStore` does not return the user.

A failed store call is taken to have had no effect. `Mutant:` definitions are
not part of the model: each is a plausible bug, and shows which property it breaks.

### LoginThrottle

`check` and `record_attempt` read the clock first and take the mutex after, so
these are two steps; between them lie the user lookup and the verification,
which have only their outcomes here. An entry of the `Vec<SystemTime>` is a time
and a serial number. `known` holds the keys the map has an entry for: the limit is
applied only to those, so that the first login of a key passes whatever the limit
is, and a limit of 0 acts as one of 1 (`Limit`). `failed` is history: every failure of a key since its last
success, whether or not the limiter has dropped it.

### MemoryStoreLocks

`guards[t]` is what a thread holds, `queue[l]` the writers waiting for a lock.
`WritersFirst = TRUE` makes a new reader wait for a waiting writer; `std`
does not say which policy applies, so the pass run takes the one that can block
more and the violation run the one that blocks less. A row is the number of the
insert that wrote it, enough to tell a torn pair of tables. `clone` keeps its
guards up to the end of its struct expression.

### RequestCredentials

A request goes `sent -> handling -> answered`, through a middleware (`Admit`)
and one server function. It carries the headers sent and those its handler is
given, which differ behind `require_auth_middleware`. The client keeps a cookie
jar (name, path, value) and a bearer token; requests and replies are reordered
and lost. A credential that is no usable token is `"junk"`. `found` is FALSE while
the application's `UserStore` does not return the user: a logout then answers Ok and
leaves the session, a validation refuses and may have deleted it. A reply whose
`Set-Cookie` value is no legal header (`printable` is FALSE for such a cookie
configuration) is an error although the engine has done its part. `Jars` says what
other cookies the browser may hold: one of the application's own.

### ClientTabs

A tab's code runs alone between two awaits, so each continuation is one step.
`session` is the user of the session that the shared cookie names. Sign-in and
sign-out follow `sync.rs` and the examples: call the server, set the own status,
tell the others; a sign-out resets the status even when the server failed.
`wire` keeps the order of messages between two tabs and none across pairs.
`agreed` is history: FALSE once the last change of the session was disturbed by
another one that crossed it. `Skew` lets a message fail to parse.

### SqlStores

`kind` is the store in use; every trait method is one operator that dispatches
to that store's statements and gives back the table it leaves and the result
(`ok`, `some`, `none`, `err`, `list`). A statement is a step: the SQLite stores
hold the one connection for it, the sqlx store has one awaited query per method.
The default `touch_session_if_present` is two steps, `TouchFind` and
`TouchSave`, and `pend[t]` is the copy it holds in between; the conditional ones
(`MemoryStore`, the adapter) are one. `StatementFails`: a statement of any call may
fail in the database, which changes nothing and is answered with an error
(`Failed`); in the second half of a touch it ends the touch. `MemoryStore` has no
statements. The suites are run on a database that works.

What SQL decides is in the model: `ON CONFLICT(id) DO UPDATE` rewrites expiry,
activity and hash and nothing else; `INSERT` of a taken key fails; a foreign key
needs its user; `as i64` wraps, `as u64` wraps back, and `rusqlite` refuses a
`u64` above `i64::MAX`; the SQLite demo answers an error where a row is missing.
Numbers have `Bits` bits, 3 in the runs: with 4..7 as the upper half of `u64`.

A suite is a sequence of lines, each a call and what is asserted of its result;
it stops at the first assertion that fails. Only pairs of store and suite whose
types agree are run (`Fits`): the adapter keys users by `i64`, the suites of
users and passwords want `TestUser`. An application creates its users at the
start, one of them twice. `saved`, `ended` and `settled` are history.

### TokenFile and ReturnTo

A file name refers to a file, so that a saver that opened `.tmp` before another
one renamed it goes on writing to the renamed file. `Stop` is an I/O error, a
killed process or a crash: what was written before is on disk (the code does not
`fsync`; power loss is left out). `FileInit` starts with whatever an earlier
process may have left under either name. `ReturnTo` has one URL of each kind the
filter tells apart; `Redirect` is the effect of `RouteGate`, which captures
before it navigates, and the two halves of `consume_return_to` are two steps
because tabs are processes of their own.

### ExampleApps

A call is `sent` with the cookie of that moment, `served`, has `arrived` in the
browser (which takes its cookie whoever awaits it), and is then continued by the
code behind `.await`, if the component that spawned it is still there: `from` is
the page it belongs to, `"app"` for the navigation bar, `"gone"` once left.
`Render` is the part of every step that changes page or status in which
components come and go: a page that is left loses its tasks, a dashboard that
appears asks for its metrics, once. A page that unwraps a missing user panics; which
pages do is read off the code (section 5) and is not a property, as it rests on the
order of rendering alone. That tasks end with their scope and that a parent renders before its children are
facts of dioxus and marked external. The gate's redirect is an effect and hence
a step of its own. A registration and a verification are two server steps,
because they await twice, and a call can be dropped between them (`Lose`). An
empty field sends nothing, so it is no input.

## 3. Runs

All properties are in the modules, each with a comment that states it. Counts
are distinct states.

| Run | Asks | Bounds | States |
|---|---|---|---|
| `revocation` | do logout, revocation and rotation hold against validations and logins that overlap them, with an atomic touch? `NoResurrection`, `RevokeEndsSession`, `RevokeAllEndsSessions`, `LogoutEndsSession`, refinement of `SessionLifecycle` | 2 requests, 2 tokens, 1 user that is hidden and shown, 1 failing store call | 112,276 |
| `lifetime` | is the absolute lifetime, the idle time and a password change honoured with the find-then-save touch? `AcceptedWithinTtl`, `StaleHashNeverAccepted`, `NoPanic` | 2 requests, 1 token, ttl 3, idle 2, clock to 4, words of 0..5, 1 password change | 527,282 |
| `disturbed` | single-active logins, a clock that steps back, a user that is hidden and shown: `LoginSupersedes`, `RejectionIsFinal`, refinement | 2 requests, 2 tokens, clock to 1 | 361,404 |
| `throttle` | `OvershootBounded`, `AdmittedBelowLimit`, `RefusedAtLimit` | 2 logins, 3 identifiers for 2 keys, limit 2, window 2, 2 failures | 1,170,054 |
| `locks` | `PairConsistent`, `OnlyCrossingBlocks` (liveness) | 3 threads, all methods, 3 inserts, 5 calls | 104,942 |
| `credentials` | `OriginGuardsCookies`, `LogoutEndsWhatValidates`, `ClearedCookieIsDead`, `LoggedOutStays` | 2 requests, 2 tokens, `__Host-` cookie with a path and expected origins, legal header or not, a cookie of the application, a user that is hidden and shown, every middleware | 2,034,520 |
| `tabs` | `InSync`, `LoadingEnds` (liveness) | 2 tabs, 2 users, 2 sign-ins or -outs | 318,828 |
| `stores` | do the stores with a conditional touch keep the contract? `ImplementsContract`; what do the other two do besides? `OnlyLateTouchDiffers`, `RevivedOnlyByOverlap`, `OwnerKept`; do correct stores pass the suites? `SuitesPassCorrectStores` | 4 stores, 2 ids, 2 extensions in progress, 3-bit words, 3 sessions, 2 pairs of new times, failing statements, every suite, seeded in every way | 200,294 |
| `clients` | `FileWhole`, `SecretMode`; `IntentOnce`, `DestinationFresh`; `StatusMatchesJar`, `MetricsFollowSession`, `LoadingOnlyUnanswered`, `VerifiedByOwnToken` | 2 savers, 2 tokens; 2 tabs, 3 bounces; 5 applications, each 2 page loads and 3 forms or log-outs, 2 at once | 1,144,193 |

Three runs are expected to fail: each checks one statement of the documentation
that the code does not keep (section 5).

Why the bounds are enough. Every property of `AuthSessions` speaks of one request,
one token and at most one other actor, so two requests and two tokens have the
interesting cases (a deletion between a read and a write; a token that must not be
touched by the other's deletion); a session can expire, idle out and outlive a clock
step within four ticks, and a login of the last ticks overflows a word of six. The throttle's limit of 2 with two requests reaches the
overshoot of `max_attempts + requests - 1`. Three threads are what a reader, a
queued writer and a holder need, and five calls let each come back. Two tabs have
every pair of crossing calls; `InSync` also held for three tabs with one user. Three
bits give `u64` values on both sides of `i64::MAX`, and the sessions of
`MCNewSessions` straddle it. Two savers show every way two steps of a save can
cross; a third name or saver adds nothing the one `.tmp` name does not already
share. Three bounces let a tab's own destination be older or newer than the other's
by one or two. Three calls with two at once reach a sign-in, a log-out and another
sign-in that cross, and two loads a page that starts over with the cookie of the
first. Symmetry is used only in runs without liveness, over requests and tokens that
no operator orders. The clock and the counters stop at their bound, which disables
an action and cuts nothing else off.

Deadlock is checked except in the two runs of `MemoryStoreLocks`, whose system
stops by design (threads make a bounded number of calls, and can block), in
those of `SqlStores`, where a suite ends, and in `clients`, where a visitor who
has used up the bounds is done.

### Fairness

`AuthSessions`, `LoginThrottle`, `RequestCredentials`, `SqlStores` and
`ClientPrograms` state none: all their properties are safety. `MemoryStoreLocks`
assumes that a thread that can take its lock does (weak fairness of reads and of
writes of each thread); as the calls are bounded no stream of others can keep it
away, so no fairness of the lock itself is assumed. `ClientTabs` assumes that a tab
runs its event loop (weak fairness of `Restore`), that the application restarts the
probe of a `Loading` tab - `use_auth_restore` says "retrying is not optional" - and
that a probe sent again and again is answered once (strong fairness of
`ServeProbe`): a server that is unreachable for ever does leave tabs `Loading`, as
documented.

## 4. Proofs

Theorems hold for every value of the constants that satisfies the named
assumptions. Most of these fix types: `None` is no other value, flags are Booleans,
bounds are natural numbers, the stores, applications and operations are the ones
there are. The others say: the requests of the limiter and the savers of a token
file are finite sets (`ThrottleAssumption`, `SaversAssumption`); nobody saves the
empty token, which `load` takes for none (`TokensAssumption`); the times of a session
and of a touch, and its user, are `u64` (`SessionsAssumption`, `TouchesAssumption`);
a word holds the small numbers the suites use (`SuiteNumbersAssumption`).
Five theorems about the engine have a hypothesis on a constant, stated with them and
true of the run that checks the property: `AtomicTouch` (`DeletionIsFinal`,
`LastLoginWins`, `EngineImplementsLifecycle`), `~ ClockMayStepBack`
(`LifetimeIsBounded`, `IdleCheckIsSafe`).

`AuthSessionsProof`:

- `TypeCorrect`: `Spec => []TypeOK`. `TypeOK` is inductive because it says more
  than types: the control point of a request is one of its operation's
  (`ControlOK`), a request past its first read holds a session, and a stored
  session belongs to a minted token. `RequestStep`, `DeleteStep` and the
  `...KeepsType` lemmas give one step per action.
- `DeletionIsFinal`: `AtomicTouch` implies `NoResurrection`. The only actions
  that store are `LoginSave`, which takes a token that is not minted;
  `ValidateTouch`, conditional on presence; and `ValidateTouchSave`, unreachable
  because `ControlOK` excludes its control point. The digest is injective.
- `RevocationIsEffective`: for either touch and any faults. An answer of Ok comes
  from `RevokeDelete` or from `RevokeFind` on an absent session (`AnswerSteps`).

`AuthSessionsGuarantees`: what these theorems share is that a session has copies -
in the store and in the hands of requests (`Copy`) - and that an invariant about a
token must speak of all of them.

- `NewPasswordNeeded` (`StaleHashNeverAccepted`): for either touch and any faults.
  `CopiesProven` says every copy is of the user and password its login proved,
  `RequestProven` what a validation has learnt of that password at each await.
- `LogoutIsEffective` (`LogoutEndsSession`): for either touch, any faults and users
  that come and go. An Ok is a deletion, an absent session, or a user who is not
  found; by `ProvenOK` the user looked up is the one whose login made the token.
- `RevokeAllIsEffective`, `RefusalIsFinal`: an answer that promises the end of
  sessions rests on a deletion, or a read, after the request began.
- `LastLoginWins` (`LoginSupersedes`, with `AtomicTouch`): a login about to save has
  wiped the user's older sessions (`WipedFirst`), and no touch brings one back.
- `LifetimeIsBounded`, `IdleCheckIsSafe`: while `ClockMayStepBack` is FALSE, for
  either touch. `CopiesTimed`: the expiry of every copy is its start plus the ttl,
  and no copy was used later than now. `NoPanic` then says that `now - last_active`
  never underflows, for every width of a word.
- `EngineImplementsLifecycle`: with `AtomicTouch`, `AuthSessions` implements
  `SessionLifecycle` under `TokenStatus`, `Asking` and `Phase`: one lemma per kind of
  step says which abstract step it is, or that it stutters.

`LoginThrottleProof`:

- `ThrottleTypeCorrect`: types, and the map never holds a failure that a success erased.
- `OvershootIsBounded`: a key's failures and its logins in flight stay below
  `Limit + Cardinality(Procs)`, where `Limit` is `max_attempts`, or 1 where that is 0:
  a key the map does not know is not checked. Counting logins in flight makes it inductive:
  recording turns one into a failure, and `check` admits only below the limit.
  Finiteness of the map (`FailedFinite`) is the strengthening.
- `AdmissionIsSound`: while the clock has not been set back (`stepped`), a login
  passes only below the limit. The invariant `Remembers`: no reading is in the
  future and every failure younger than the window is still in the map.
- `RefusalIsSound`: a refusal rests on `max_attempts` failures that were fresh
  at the reading taken.

`MemoryStoreLocksProof`: for any set of threads and either lock policy.

- `LocksExclude`: the guards a thread holds are those of its point in the code
  (`LocksOK`), which also gives mutual exclusion and that a call that returned
  holds nothing.
- `PairsAreWhole`: `PairsOK` - the two tables hold a pair some insert wrote unless a
  registration is half way, and then its guard of the user table keeps everybody
  who has seen one half from the other (the mutant `InsertUserRowUnguarded` shows
  what an early drop of that guard does).

`RequestCredentialsProof`: for every cookie configuration and middleware.

- `CredentialsTypeCorrect`, `LogoutReachesTheJar`: `JarOK` - the jar never has two
  session cookies, because login and deletion name the same cookie, path and prefix;
  without that a deletion could leave one.
- `OriginIsChecked`, `LogoutEndsTheSession`, `ClearedOnlyWhenDead`: action
  properties, by cases of the credential that `extract` picks; validation and logout
  must pick the same one. The last two say that the session is gone or its user not
  found, the branch of `logout` that deletes nothing.

`ClientTabsProof`:

- `TabsTypeCorrect`; `TabsAgree` (`InSync`), for any number of tabs. `AloneOK`: an
  undisturbed call is the only one, with no message or other change on its way.
  `Agreeing`: between changes every message on a wire tells the session, and a tab
  without one to come, that missed none, shows it or is `Loading` with a probe whose
  answer will say it (`Fresh`). Order per pair of tabs is all it needs of the channel.

`SqlStoresProof`: for every mix of the four stores, number of ids and of
extensions in progress, session, time and width of a word.

- `RevivalNeedsOverlap` (`RevivedOnlyByOverlap`). The lemmas `SaveRows`, `FindRows`,
  `DeleteRows`, `ListRows` and `TouchRows` say what each kind of statement may do to a
  table, store by store. The invariant `Overlap` adds that a filled row, and every
  copy a default touch holds, is of a session that was saved, and that no copy is
  held of a settled one: without the last, `TouchSave` could fill a settled row.
- `OwnersAreKept` (`OwnerKept`). `RoundTrip`: `as i64` and `as u64` cancel on all of
  `u64`, by arithmetic modulo `2^Bits`; from it `SaveWrites`, `UpsertReads` and
  `TouchReads` say what a row written by a store reads back as. The invariant `Kept`:
  every row, and every copy a touch holds, reads back with the user, start and hash
  saved. The copies are needed because `TouchSave` may insert one anew.
- `ConditionalStoresKeepContract` (`ImplementsContract`): a refinement, call by call,
  of `SessionStoreContract` by the sessions `find_session` answers (`View`). A row
  that is filled must not read back as none, which `Kept` gives. A failing statement
  is the contract's `Fail` (`FailedStatement`, `FailureImplements`).
- `OnlyLateTouchesBreakContract` (`OnlyLateTouchDiffers`): the same for the two
  stores with the default touch, which is a find and, later, a save. It is one step
  of the contract although rows may be deleted, extended and listed in between:
  only a touch whose session is gone by then is not (`LateTouch`), and only
  `sqlite_demo` may answer an error where no statement failed. The invariant
  `Linked`: the copy held differs from the session by the times it is to set, a row
  of the sqlx store has its user as `i64`, and that user exists, so that the foreign
  key refuses no second half. `KeysDiffer`: two `u64` users are never one `i64`.
- `CorrectStoresPassSuites` (`SuitesPassCorrectStores`): for every width that holds
  the suites' own numbers (`SuiteNumbersAssumption`; they are 64-bit words in the
  code), every choice of suites and every hash of the seeded user. `SuiteInv`: a
  suite without one of the excuses the property names (`Excused`) has not failed,
  and the table holds what its lines so far have left (`Expected`); then each line
  of each suite is answered as it asserts, store by store (`LineGoes`).

`ClientProgramsProof`:

- `TokenFileIsWhole`, `TokenFileIsPrivate`: for any finite set of savers, which may
  stop anywhere, and whatever an earlier process left. `Alone`: a saver that nobody
  overlaps has `.tmp` to itself, and it is not the token file. `ModesOK`: once any
  saver has set the mode, whatever `.tmp` refers to until it is renamed is private -
  which makes `SecretMode` hold even when saves overlap.
- `DestinationsAreConsumedOnce`, `DestinationsAreFresh`: for any number of tabs.
  Bounces are numbered; what is parked was not returned and is not older than the
  bounce of a tab that is at the login page or reads it (`Fresher`, `OwnOK`).
- `StatusIsOfTheCookie`, `MetricsFollowTheSession`, `LoadingIsUnanswered`: for all five
  applications and any number of loads and calls. `AppOK` has a part for the form of
  each call at each stage (`CallsOK`), one for session numbers, one for the probe
  (`ProbeOK`), and `AgreeOK`: while nothing disturbs them, status and jar agree,
  or a probe under way will make them (`Steady`), or the one call that changes
  them is past its effect (`TookEffect`). `MetricsOK` adds that metrics are on their
  way only while the dashboard shows them, which no sign-in under way lets it do, and
  are asked with the cookie in the jar, whose session lives until a sign-out is
  served.
- `TokensVerifyTheirOwn`: `RegOK` says that what a half-way registration or
  verification holds belongs to nobody else, since it may be dropped there.

Only model-checked:

- `OnlyCrossingBlocks` and `LoadingEnds`: liveness under fairness and `ENABLED`,
  which TLAPS does not reason about.
- The three statements of the documentation that fail (section 5).

## 5. Where the code and its documentation part

Shown by runs:

- `locks_registration`: `insert_user_with_password` and `find_by_identifier` take
  the two locks in opposite orders and can block each other for ever
  (`storage/memory.rs:66-69`, `85-87`). `OnlyCrossingBlocks` shows it is the only way.
- `credentials_require`: `require_auth_middleware` and `permission_middleware` copy
  the headers of a new, empty request onto itself, so the handler gets none
  (`dioxus/axum.rs:180-181`, `254-255`).
- `conformance`: `run_session_store_tests` saves one session for each of two users
  and asserts that a listing of one user's has both, under the message "must list
  only the target user's sessions" (`storage/conformance.rs:236-238`):
  `MemoryStore` fails it. `SuitesPassCorrectStores` runs the suite as its message
  says it (`sessions_meant`), and every correct store passes that.

Seen while modelling, without a run:

Engine, server and tabs.

- `single_active_session` "ensures a user can only have one active session at a
  time" (`engine/builder.rs:93`), but two logins that both delete before either
  saves leave two (`auth_engine.rs:303-321`); `LoginSupersedes` is what does hold.
- `logout` answers Ok and keeps the session when `find_by_id` does not return its
  user (`auth_engine.rs:158`); it validates again once the user is back, and the
  browser has dropped a cookie that was alive. `LogoutEndsSession`,
  `LogoutEndsWhatValidates` and `ClearedCookieIsDead` say that this is the only way.
- A session ttl near `u64::MAX` seconds, such as `Duration::MAX`, overflows in
  `now + ttl` (`auth_engine.rs:301`, and `141` in a validation): logins panic, or
  in a build without overflow checks make sessions that have expired.
- `InMemoryRateLimiter::new(0, ..)` admits the first login of a key: the limit is
  applied to entries of the map only (`rate_limit.rs:58`).
- `CrossTabSync` provides its channel name in a scope without descendants, so with
  a `channel_name` of its own nobody emits on the channel it listens on
  (`dioxus/sync.rs:211`; "Channel parity is automatic", `sync.rs:46`). The `tabs`
  run has the default name (`ChannelProp = None`).
- The idle timeout does not count before the first validation
  (`auth_engine.rs:129`, against `builder.rs:76`); `list_user_sessions` returns
  expired sessions (`auth_engine.rs:190`); `logout_current` demands an Origin of a
  request whose cookies are no session (`server_fn.rs:351`, against `303-304`); a
  store error is an anonymous visitor to one middleware and a 401 to another
  (`axum.rs:107`, `177`).

Stores and suites.

- The session suite is "fully self-contained" (`conformance.rs:155`), but it saves
  sessions of users 42 and 99, which a schema with a foreign key refuses.
- `run_user_store_tests` expects `TestUser::new(..)`, whose hash is empty
  (`conformance.rs:95`), of a store that was seeded as the example shows, with the
  hash in the user (`16-19`).
- The suites cannot tell the default touch from a conditional one: their
  resurrection check deletes and touches in turn, never in between.
- `sqlite_demo` answers an error for a missing session or user; it refuses times
  and user ids above `i64::MAX`, also when it deletes or lists a user's sessions. No schema has columns for `ip_address` and `user_agent`.

Client.

- `transport/file.rs:18` restores the mode "before the contents land"; the code
  writes and then chmods, so the contents are in `.tmp` with the loose mode for a
  step. `SecretMode` is what holds of the file that is put in place. Line 79
  promises as much for a power loss, without an `fsync`.
- "A stale intent can never hijack a later manual login" (`return_to.rs:115`): one
  that was parked and not consumed is taken by the next login, manual or not,
  unless the application calls `clear_return_to`. A destination with a colon is
  not parked and leaves an older one in place. `RouteGate` also parks the login
  page, when `redirect_if_authed` bounces a user from it.

Examples.

- The Dashboards of `sqlite-demo` (610) and `sqlx-sqlite` (556) render
  `auth.user().unwrap()` beside their `RouteGate`, that of `registration-demo`
  (641) without one: they panic whenever nobody is signed in, also while loading.
- `sqlite-demo`: with the cookie of a session that is gone the probe fails, the
  page stays `Loading`, and the log-out fails too and keeps the cookie.
- `sqlx-sqlite`: `get_server_state` blocks on a runtime inside async code (319,
  326), which panics, so every server function fails.
- `dioxus-fullstack` says that any error of the probe means `Unauthenticated`
  (`main.rs:141`); what `use_auth_restore` cannot classify keeps `Loading`.
- A login whose page is left sets its cookie and no status; a log-out ignores its
  error and stays enabled, and a late second one signs a newer session out.
- `registration-demo` stores users without credentials: no duplicate address is
  found, nobody can sign in, no reset token is issued; its server half names a
  variable it does not bind (259, 278).

## 6. Not modelled

- Password hashing and the derive macro: a pure function and compile-time code
  generation, without state.
- Timing defences; attributes of cookies other than name, path and value; metadata
  of sessions (nothing reads it back); hooks (they run under `catch_unwind` and
  reach no engine state); the initialisation of the registry, which happens once,
  and the panics of its misuse; poisoned locks.
- The engine builder beyond its settings: straight-line code.
- The memory and web token storages (single assignments) and `FileTokenStorage` on
  other systems than Unix; power loss, which the code does nothing about.
- The end of `reset_password_server`: no reset token is ever issued, and the
  function does not compile for the server.
- Server-side rendering, styling and layout of the examples; forms with an empty
  field; the `lib.rs` of the crate, which holds re-exports, documentation and the
  crate's tests. The tests are read as documentation.

## 7. Plan

Done, in the order of importance: `AuthSessions` with `SessionLifecycle`,
`LoginThrottle`, `MemoryStoreLocks`, `RequestCredentials`, `ClientTabs`; then
`SqlStores` with `SessionStoreContract` and the suites, and `ClientPrograms` with
`TokenFile`, `ReturnTo` and the five example applications.

Then the proofs, in eight modules: every safety property of the runs, invariant or
action property, and both refinements. What is left is two tabs of one
application, which needs `ClientTabs` and `ExampleApps` composed, and the stores of
`SqlStores` put under `AuthSessions` in place of its one store with two touches.

## 8. Running

    tlc -config Sessions_Revocation.cfg MCAuthSessions.tla
    tlapm AuthSessionsProof.tla

The other runs pair a `.cfg` with the module named in `PROJECT.json`.
