------------------------------- MODULE SqlxApp -------------------------------
(***************************************************************************)
(* examples/sqlx-sqlite.  Its state is made inside the first server         *)
(* function by Handle::block_on, which panics on a thread of the runtime:   *)
(* the OnceLock stays empty and every server function fails the same way.   *)
(***************************************************************************)
EXTENDS AppKit

SERVER_STATE == Server(FALSE, "err")

\* The panic of get_server_state ends the request, whatever it asked.
get_server_state(srv) == Reply(srv, "err", Keep)

login_server(srv, right) == get_server_state(srv)
logout_server(srv, cookie) == get_server_state(srv)
current_user(srv, cookie) == get_server_state(srv)
get_secret_metrics(srv, cookie) == get_server_state(srv)

Route == {"home", "login", "dashboard"}

NavBar(status) ==
  {"home", "dashboard", IF status = "Authenticated" THEN "log out" ELSE "login"}

LogOut(ui) == GoTo(SetLoggedOut(ui), "home")

CanSubmit(ui) == ~ ui.submitting
LogIn(ui, tag) ==
  Submitting(IF tag = "ok" THEN GoTo(SetUser(ui), "dashboard") ELSE ui, FALSE)

\* As in sqlite-demo, the user is rendered beside the gate.
Dashboard(status) == Unwrapped(status, "metrics")

App == "Loading"
AuthRestore == "whoami"
=============================================================================
