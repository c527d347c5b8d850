----------------------------- MODULE FullstackApp -----------------------------
(***************************************************************************)
(* examples/dioxus-fullstack: a MemoryStore, the functions that             *)
(* fullstack_server_fns! generates (dioxus/fullstack.rs), a Dashboard       *)
(* behind ProtectedLayout, SignedIn and SignedOut in the bar.               *)
(***************************************************************************)
EXTENDS AppKit

\* Mutant: the store answers an error for a session that is missing.
SERVER_STATE_StoreErrs == Server(TRUE, "err")

SERVER_STATE == Server(TRUE, "none")

login_server(srv, right) == login_cookie(srv, right)
logout_server(srv, cookie) == logout_current(srv, cookie)
current_user(srv, cookie) == current_user_from_request(srv, cookie)
get_secret_metrics(srv, cookie) == require_user_from_request(srv, cookie)

Route == {"home", "login", "dashboard"}

Navbar(status) ==
  {"home", "dashboard"} \cup SignedIn(status, {"log out"})
                        \cup SignedOut(status, {"login"})

LogOut(ui) == GoTo(SetLoggedOut(ui), "home")

CanSubmit(ui) == ~ ui.submitting

\* Mutant: the form signs the user in whatever the reply.
LogInAnyway(ui, tag) == Submitting(GoTo(SetUser(ui), "dashboard"), FALSE)

LogIn(ui, tag) ==
  Submitting(IF tag = "ok" THEN GoTo(SetUser(ui), "dashboard") ELSE ui, FALSE)

Dashboard(status) == Unwrapped(status, "metrics")

\* RouteGate renders the page only when it is allowed.
ProtectedLayout(status) ==
  IF require_auth(status) = "allow" THEN Dashboard(status) ELSE require_auth(status)

App == "Loading"
AuthRestore == "whoami"
=============================================================================
