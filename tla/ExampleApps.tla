------------------------------ MODULE ExampleApps ------------------------------
(***************************************************************************)
(* A browser tab that runs one of the example applications, with its        *)
(* server.  Server functions are asynchronous: a call is sent with the      *)
(* cookie of that moment, served, and its reply reaches the cookie jar and  *)
(* then the continuation that awaits it, in any order with other calls, or  *)
(* is lost.  A continuation belongs to the component that spawned it and is *)
(* dropped with it: a page when it is left, everything when it is reloaded. *)
(***************************************************************************)
EXTENDS AppKit, ReturnTo

CONSTANTS
  Apps,        \* of "sqlite_demo", "sqlx", "fullstack", "basic", "registration"
  MaxLoads,    \* bound: page loads after the first
  MaxCalls,    \* bound: forms sent and log-outs pressed
  PageUrl      \* the URL of a page

ASSUME AppsAssumption ==
  Apps \subseteq {"sqlite_demo", "sqlx", "fullstack", "basic", "registration"}

VARIABLES
  app,         \* the application
  ui,          \* page, status, form, metrics, and whether rendering panicked
  calls,       \* server functions on their way
  jar,         \* the session cookie
  srv,         \* the server's sessions
  reg,         \* the users and tokens of the registration demo
  loads, begun,
  agreed       \* history: nothing has disturbed status and cookie since a load

appVars == <<app, ui, calls, jar, srv, reg, loads, begun, agreed>>

SqliteDemo == INSTANCE SqliteDemoApp
Sqlx == INSTANCE SqlxApp
Fullstack == INSTANCE FullstackApp
Basic == INSTANCE BasicApp
Registration == INSTANCE RegistrationApp

-----------------------------------------------------------------------------
\* The application that runs.

Routes ==
  CASE app = "sqlite_demo" -> SqliteDemo!Route
    [] app = "sqlx" -> Sqlx!Route
    [] app = "fullstack" -> Fullstack!Route
    [] app = "basic" -> Basic!Route
    [] app = "registration" -> Registration!Route

FirstStatus ==
  CASE app = "sqlite_demo" -> SqliteDemo!App
    [] app = "sqlx" -> Sqlx!App
    [] app = "fullstack" -> Fullstack!App
    [] app = "basic" -> Basic!App
    [] app = "registration" -> Registration!App

FirstServer ==
  CASE app = "sqlite_demo" -> SqliteDemo!SERVER_STATE
    [] app = "sqlx" -> Sqlx!SERVER_STATE
    [] app = "fullstack" -> Fullstack!SERVER_STATE
    [] app = "basic" -> Server(FALSE, "none")
    [] app = "registration" -> Registration!init_server_state

\* What a page renders: links, a form, the user, the metrics, nothing yet, a
\* redirect or a panic.
View(u) ==
  CASE u.page = "dashboard" /\ app = "sqlite_demo" -> SqliteDemo!Dashboard(u.status)
    [] u.page = "dashboard" /\ app = "sqlx" -> Sqlx!Dashboard(u.status)
    [] u.page = "dashboard" /\ app = "fullstack" -> Fullstack!ProtectedLayout(u.status)
    [] u.page = "dashboard" /\ app = "basic" -> Basic!ProtectedLayout(u.status)
    [] u.page = "dashboard" /\ app = "registration" -> Registration!Dashboard(u.status)
    [] u.page = "login" /\ app = "basic" -> Basic!Login(u.status)
    [] OTHER -> u.page

\* The links and the button in reach.
Controls ==
  CASE app = "sqlite_demo" -> SqliteDemo!NavBar(ui.status)
    [] app = "sqlx" -> Sqlx!NavBar(ui.status)
    [] app = "fullstack" -> Fullstack!Navbar(ui.status)
    [] app = "registration" -> Registration!NavBar(ui.status)
    [] app = "basic" -> CASE ui.page = "home" -> Basic!Home(ui.status)
                          [] View(ui) = "user" -> {"log out"}
                          [] OTHER -> {}

FormEnabled ==
  CASE app = "sqlite_demo" -> SqliteDemo!CanSubmit(ui)
    [] app = "sqlx" -> Sqlx!CanSubmit(ui)
    [] app = "fullstack" -> Fullstack!CanSubmit(ui)
    [] OTHER -> TRUE

\* What a server function leaves in the server and replies.
SessionReply(c) ==
  CASE c.op = "login" ->
         (CASE app = "sqlite_demo" -> SqliteDemo!login_server(srv, c.arg = 1)
            [] app = "sqlx" -> Sqlx!login_server(srv, c.arg = 1)
            [] app = "fullstack" -> Fullstack!login_server(srv, c.arg = 1)
            [] app = "registration" -> Registration!login_server(srv, c.arg = 1))
    [] c.op = "log out" ->
         (CASE app = "sqlite_demo" -> SqliteDemo!logout_server(srv, c.cookie)
            [] app = "sqlx" -> Sqlx!logout_server(srv, c.cookie)
            [] app = "fullstack" -> Fullstack!logout_server(srv, c.cookie)
            [] app = "registration" -> Registration!logout_server(srv, c.cookie))
    [] c.op = "whoami" ->
         (CASE app = "sqlite_demo" -> SqliteDemo!current_user(srv, c.cookie)
            [] app = "sqlx" -> Sqlx!current_user(srv, c.cookie)
            [] app = "fullstack" -> Fullstack!current_user(srv, c.cookie)
            [] app = "registration" -> Registration!current_user(srv, c.cookie))
    [] c.op = "metrics" ->
         (CASE app = "sqlite_demo" -> SqliteDemo!get_secret_metrics(srv, c.cookie)
            [] app = "sqlx" -> Sqlx!get_secret_metrics(srv, c.cookie)
            [] app = "fullstack" -> Fullstack!get_secret_metrics(srv, c.cookie))

RegistrationReply(c) ==
  CASE c.op = "register" -> Registration!register_server(reg, "visitor")
    [] c.op = "verify" -> Registration!verify_email_token(reg, c.arg)
    [] c.op = "request reset" -> Registration!request_password_reset_server(reg, "visitor")
    [] c.op = "reset" -> Registration!reset_password_server(reg, c.arg)

\* What the awaiting code does with a reply; "lost" is an error too.
LoggedIn(tag) ==
  CASE app = "sqlite_demo" -> SqliteDemo!LogIn(ui, tag)
    [] app = "sqlx" -> Sqlx!LogIn(ui, tag)
    [] app = "fullstack" -> Fullstack!LogIn(ui, tag)
    [] app = "registration" -> Registration!LogIn(ui, tag)

LoggedOut ==
  CASE app = "sqlite_demo" -> SqliteDemo!LogOut(ui)
    [] app = "sqlx" -> Sqlx!LogOut(ui)
    [] app = "fullstack" -> Fullstack!LogOut(ui)
    [] app = "basic" -> Basic!LogOut(ui)
    [] app = "registration" -> Registration!LogOut(ui)

Continued(c) ==
  CASE c.op = "whoami" -> [ui EXCEPT !.status = Restored(@, c.tag)]
    [] c.op = "login" -> LoggedIn(c.tag)
    [] c.op = "log out" -> LoggedOut
    [] c.op = "metrics" -> [ui EXCEPT !.metrics = IF c.tag = "ok" THEN "shown" ELSE "error"]
    [] c.op = "register" -> Registration!Registered(ui, c.tag)
    [] OTHER -> ui

-----------------------------------------------------------------------------
Forms == {"first", "second"}
Slots == Forms \cup {"whoami", "metrics"}
SessionOps == {"login", "log out", "whoami", "metrics"}

Idle == [op |-> "none", at |-> "idle", arg |-> 0, cookie |-> NoCookie, tag |-> "",
         set |-> Keep, from |-> "app"]

Sent(op, arg, from) ==
  [Idle EXCEPT !.op = op, !.at = "sent", !.arg = arg, !.cookie = jar, !.from = from]

Changing(c) == c.op \in {"login", "log out"}
Settled == \A f \in Forms : ~ Changing(calls[f])

\* Rendering u after a page that showed `was': what is left loses its tasks, a
\* dashboard that appears asks for the metrics.
Render(u, cs, was) ==
  LET view == View(u)
      mounts == view = "metrics" /\ was # "metrics"
      here(c) == IF c.from \in {u.page, "app"} THEN c ELSE [c EXCEPT !.from = "gone"]
  IN /\ ui' = [u EXCEPT
            !.panicked = (view = "crash"),
            !.submitting = @ /\ u.page = "login",
            !.metrics = IF view # "metrics" \/ mounts THEN "none" ELSE @]
     /\ calls' = [s \in Slots |->
          CASE s = "metrics" -> IF mounts THEN Sent("metrics", 0, u.page)
                                ELSE IF view # "metrics" THEN Idle ELSE cs[s]
            [] OTHER -> here(cs[s])]
     /\ agreed' = (agreed /\ \A f \in Forms : Changing(cs[f]) => here(cs[f]) = cs[f])

Alive == ~ ui.panicked

\* The page is reloaded, or entered by its URL: everything starts again.
Fresh(page) ==
  [page |-> page, status |-> FirstStatus, submitting |-> FALSE, metrics |-> "none",
   panicked |-> FALSE]

Probing == IF app = "basic" THEN Idle ELSE Sent("whoami", 0, "app")

ReloadPage(p) ==
  /\ p \in Routes /\ loads < MaxLoads
  /\ loads' = loads + 1
  /\ LET u == Fresh(p)   view == View(u) IN
     /\ ui' = [u EXCEPT !.panicked = (view = "crash")]
     /\ calls' = [s \in Slots |->
          CASE s = "whoami" -> Probing
            [] s = "metrics" -> IF view = "metrics" THEN Sent("metrics", 0, p) ELSE Idle
            [] OTHER -> IF calls[s] = Idle THEN Idle ELSE [calls[s] EXCEPT !.from = "gone"]]
  /\ agreed' = Settled
  /\ UNCHANGED <<app, jar, srv, reg, begun, parked>>

Follow(p) ==
  /\ Alive /\ p \in Controls \cap Routes /\ p # ui.page
  /\ Render(GoTo(ui, p), calls, View(ui))
  /\ UNCHANGED <<app, jar, srv, reg, loads, begun, parked>>

\* The effect of RouteGate: park the page that was left, whatever the reason.
GateRedirects ==
  /\ Alive /\ View(ui) = "redirect"
  /\ parked' = capture_return_to(parked, [url |-> PageUrl[ui.page], bounce |-> 0])
  /\ Render(GoTo(ui, IF ui.page = "login" THEN "dashboard" ELSE "login"), calls, View(ui))
  /\ UNCHANGED <<app, jar, srv, reg, loads, begun>>

-----------------------------------------------------------------------------
\* Forms and the log-out button, which nothing disables.  The slots of their calls
\* are alike: the first that is free is taken.

Begin(f, op, arg, from) ==
  /\ Alive /\ begun < MaxCalls
  /\ calls[f] = Idle /\ (f = "second" => calls["first"] # Idle)
  /\ begun' = begun + 1
  /\ calls' = [calls EXCEPT ![f] = Sent(op, arg, from)]
  /\ agreed' = (agreed /\ (op \in {"login", "log out"} => Settled))
  /\ UNCHANGED <<app, jar, srv, reg, loads, parked>>

\* arg 1 is the right password; an empty field sends nothing.
SubmitLogin(f) ==
  /\ ui.page = "login" /\ app # "basic" /\ FormEnabled
  /\ \E arg \in {0, 1} : Begin(f, "login", arg, "login")
  /\ ui' = Submitting(ui, app # "registration")

PressLogOut(f) ==
  /\ app # "basic" /\ "log out" \in Controls
  /\ Begin(f, "log out", 0, "app")
  /\ UNCHANGED ui

SubmitForm(f) ==
  /\ app = "registration"
  /\ \E form \in {Registration!Register, Registration!Verify,
                  Registration!ForgotPassword, Registration!ResetPassword},
        token \in 1..reg.next :
       /\ ui.page = form.page
       /\ form.op \in {"register", "request reset"} => token = 1
       /\ Begin(f, form.op, token, form.page)
  /\ UNCHANGED ui

\* Without a server the button acts at once.
SignInHere ==
  /\ app = "basic" /\ ui.page = "login" /\ View(ui) = "form"
  /\ Render(Basic!LogIn(ui), calls, View(ui))
  /\ UNCHANGED <<app, jar, srv, reg, loads, begun, parked>>

SignOutHere ==
  /\ app = "basic" /\ "log out" \in Controls
  /\ Render(LoggedOut, calls, View(ui))
  /\ UNCHANGED <<app, jar, srv, reg, loads, begun, parked>>

-----------------------------------------------------------------------------
\* A call on its way.  It keeps what somebody still needs of it: the server the
\* cookie and the argument, the browser the new cookie, the page the tag.

Answered(c, tag, set) ==
  [c EXCEPT !.at = "served", !.tag = tag, !.set = set, !.arg = 0,
            !.cookie = IF c.op = "whoami" THEN @ ELSE NoCookie]

Serve(s) ==
  LET c == calls[s]   r == SessionReply(c) IN
  /\ c.at = "sent" /\ c.op \in SessionOps
  /\ srv' = r.srv
  /\ calls' = [calls EXCEPT ![s] = Answered(c, r.tag, r.set)]
  /\ UNCHANGED <<app, ui, jar, reg, loads, begun, agreed, parked>>

\* A registration and a verification go on at another await, with the account
\* they are about; a token has the number of its account.
ServeForm(s) ==
  LET c == calls[s]   r == RegistrationReply(c)   goesOn == r.tag = "ok" IN
  /\ c.at = "sent" /\ c.op \notin SessionOps
  /\ reg' = r.reg
  /\ calls' = [calls EXCEPT ![s] =
       IF c.op \in {"register", "verify"} /\ goesOn
       THEN [c EXCEPT !.at = "halfway", !.cookie = NoCookie,
                      !.arg = IF c.op = "register" THEN reg.next ELSE @]
       ELSE Answered(c, r.tag, Keep)]
  /\ UNCHANGED <<app, ui, jar, srv, loads, begun, agreed, parked>>

ServeRest(s) ==
  LET c == calls[s]
      r == IF c.op = "register" THEN Registration!insert_email_token(reg, c.arg)
           ELSE Registration!VerifyUser(reg, c.arg)
  IN /\ c.at = "halfway"
     /\ reg' = r.reg
     /\ calls' = [calls EXCEPT ![s] = Answered(c, r.tag, Keep)]
     /\ UNCHANGED <<app, ui, jar, srv, loads, begun, agreed, parked>>

\* The request or its reply is lost, or the server drops the call.
Lose(s) ==
  /\ calls[s].at \in {"sent", "halfway", "served"}
  /\ calls' = [calls EXCEPT ![s] = [Answered(@, "lost", Keep) EXCEPT !.at = "arrived"]]
  /\ agreed' = (agreed /\ ~ Changing(calls[s]))
  /\ UNCHANGED <<app, ui, jar, srv, reg, loads, begun, parked>>

\* The browser takes the cookie of a reply, also when nobody awaits it.
Arrive(s) ==
  /\ calls[s].at = "served"
  /\ jar' = IF calls[s].set = Keep THEN jar ELSE calls[s].set
  /\ calls' = [calls EXCEPT ![s].at = "arrived", ![s].set = Keep]
  /\ UNCHANGED <<app, ui, srv, reg, loads, begun, agreed, parked>>

\* The continuation runs to its end, if it is still there.
Continue(s) ==
  LET c == calls[s]
      done == [calls EXCEPT ![s] = IF s \in Forms THEN Idle ELSE [c EXCEPT !.at = "done"]]
  IN /\ c.at = "arrived"
     /\ \/ /\ c.from = "gone" \/ ui.panicked
           /\ calls' = done
           /\ UNCHANGED <<ui, agreed>>
        \/ /\ c.from # "gone" /\ Alive
           /\ Render(Continued(c), done, View(ui))
     /\ UNCHANGED <<app, jar, srv, reg, loads, begun, parked>>

\* A session expires, is revoked elsewhere, or the server restarts; a token of the
\* registration demo gets too old.
EndSession ==
  /\ \E t \in srv.live : srv' = [srv EXCEPT !.live = @ \ {t}]
  /\ agreed' = FALSE
  /\ UNCHANGED <<app, ui, calls, jar, reg, loads, begun, parked>>

ExpireToken ==
  /\ \E x \in reg.email_tokens :
       reg' = [reg EXCEPT !.email_tokens = (@ \ {x}) \cup {[x EXCEPT !.expired = TRUE]}]
  /\ UNCHANGED <<app, ui, calls, jar, srv, loads, begun, agreed, parked>>

-----------------------------------------------------------------------------
\* The first load, of any page, without a cookie.
AppInit ==
  /\ jar = NoCookie
  /\ srv = FirstServer /\ reg = Registration!Registry
  /\ loads = 0 /\ begun = 0 /\ agreed = TRUE
  /\ \E p \in Routes :
       LET u == Fresh(p)   view == View(u) IN
       /\ ui = [u EXCEPT !.panicked = (view = "crash")]
       /\ calls = [s \in Slots |->
            IF s = "whoami" THEN Probing
            ELSE IF s = "metrics" /\ view = "metrics" THEN Sent("metrics", 0, p) ELSE Idle]

AppNext ==
  \/ \E p \in Routes : ReloadPage(p) \/ Follow(p)
  \/ GateRedirects \/ SignInHere \/ SignOutHere \/ EndSession \/ ExpireToken
  \/ \E f \in Forms : SubmitLogin(f) \/ PressLogOut(f) \/ SubmitForm(f)
  \/ \E s \in Slots : Serve(s) \/ ServeForm(s) \/ ServeRest(s) \/ Lose(s)
                        \/ Arrive(s) \/ Continue(s)

-----------------------------------------------------------------------------
\* When no sign-in or sign-out is on its way and none since the page was loaded was
\* crossed by another, lost, or left by its page, the tab shows a user exactly if
\* the cookie it holds is of a live session; nobody ever signs in to the sqlx and
\* registration demos.
StatusMatchesJar ==
  Alive /\ app # "basic" /\ agreed /\ Settled /\ ui.status # "Loading" =>
    (ui.status = "Authenticated") = (jar \in srv.live)

\* In the same circumstances a dashboard reports that its metrics failed only if
\* their reply was lost: they are fetched once, with the cookie of the moment the
\* page is rendered for its user, and nothing but that loss puts them in doubt.
MetricsFollowSession ==
  Alive /\ agreed /\ Settled /\ ui.metrics = "error" => calls["metrics"].tag = "lost"

\* Once its restore probe is over the page is Loading only if the reply was lost or
\* the server could not tell: the sqlx demo never can, the SQLite demo cannot for
\* the cookie of a session that is gone.
LoadingOnlyUnanswered ==
  LET probe == calls["whoami"] IN
  Alive /\ ui.status = "Loading" /\ probe.at = "done" =>
    \/ probe.tag = "lost"
    \/ app = "sqlx"
    \/ app = "sqlite_demo" /\ probe.cookie \notin srv.live \cup {NoCookie}

\* A token of the registration demo verifies at most once, and only the account it
\* was issued for: whatever forms overlap and whichever calls are cut short between
\* taking the token and storing the user, a verified account has no token left.
VerifiedByOwnToken ==
  \A u \in reg.users, x \in reg.email_tokens : x.user = u.id => ~ u.verified
=============================================================================
