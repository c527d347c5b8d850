---------------------------- MODULE SqliteDemoApp ----------------------------
(***************************************************************************)
(* examples/sqlite-demo.  Its store answers an error for a missing session; *)
(* its Dashboard renders the user beside the gate, not behind it.           *)
(***************************************************************************)
EXTENDS AppKit

SERVER_STATE == Server(TRUE, "err")

login_server(srv, right) == login_cookie(srv, right)
logout_server(srv, cookie) ==
  IF cookie = NoCookie THEN Reply(srv, "ok", Keep)
  ELSE logout_and_clear_cookie(srv, cookie)
current_user(srv, cookie) == current_user_from_request(srv, cookie)
get_secret_metrics(srv, cookie) == require_user_from_request(srv, cookie)

Route == {"home", "login", "dashboard"}

NavBar(status) ==
  {"home", "dashboard", IF status = "Authenticated" THEN "log out" ELSE "login"}

\* logout_server().await.ok(), then auth.logout() and nav.push(Home).
LogOut(ui) == GoTo(SetLoggedOut(ui), "home")

\* The button of the form is disabled while a sign-in is on its way.
CanSubmit(ui) == ~ ui.submitting
LogIn(ui, tag) ==
  Submitting(IF tag = "ok" THEN GoTo(SetUser(ui), "dashboard") ELSE ui, FALSE)

\* The gate redirects or waits, but the rest of the page is rendered with it.
Dashboard(status) == Unwrapped(status, "metrics")

App == "Loading"
AuthRestore == "whoami"
=============================================================================
