------------------------------- MODULE BasicApp -------------------------------
(***************************************************************************)
(* examples/basic_auth: no server.  The login page is gated too, by         *)
(* redirect_if_authed; the status starts Unauthenticated.                   *)
(***************************************************************************)
EXTENDS AppKit

Route == {"home", "login", "dashboard"}

Home(status) == IF status = "Authenticated" THEN {"dashboard"} ELSE {"login"}

\* The button signs the user in at once; the gate then leads to the dashboard.
LogIn(ui) == SetUser(ui)
Login(status) ==
  IF redirect_if_authed(status) = "redirect" THEN "redirect" ELSE "form"

LogOut(ui) == SetLoggedOut(ui)
Dashboard(status) == Unwrapped(status, "user")

ProtectedLayout(status) ==
  IF require_auth(status) = "allow" THEN Dashboard(status) ELSE require_auth(status)

App == "Unauthenticated"
=============================================================================
