------------------------------- MODULE AppKit -------------------------------
(***************************************************************************)
(* What the example applications share: the guards of dioxus/guards.rs and  *)
(* components/, the status AuthRestore sets, and the calls of               *)
(* ServerAuthContext, each as what it leaves in the server and what it      *)
(* replies.  A session token is a number; one password is right.            *)
(***************************************************************************)
EXTENDS Integers

NoCookie == 0
Keep == -1     \* a reply without Set-Cookie

Reply(srv, tag, set) == [srv |-> srv, tag |-> tag, set |-> set]

\* A server: live sessions, tokens issued, whether its user can sign in, and what
\* its store answers for a session that is missing.
Server(seeded, missing) ==
  [live |-> {}, issued |-> 0, seeded |-> seeded, missing |-> missing]

login_cookie(srv, right) ==
  LET token == srv.issued + 1 IN
  IF right /\ srv.seeded
  THEN Reply([srv EXCEPT !.issued = token, !.live = @ \cup {token}], "ok", token)
  ELSE Reply(srv, "err", Keep)

find_session(srv, cookie) == IF cookie \in srv.live THEN "ok" ELSE srv.missing

current_user_from_request(srv, cookie) ==
  Reply(srv, IF cookie = NoCookie THEN "none" ELSE find_session(srv, cookie), Keep)

require_user_from_request(srv, cookie) ==
  Reply(srv, IF cookie \in srv.live THEN "ok" ELSE "err", Keep)

\* The cookie is cleared unless the engine's logout fails.
logout_and_clear_cookie(srv, cookie) ==
  IF find_session(srv, cookie) = "err" THEN Reply(srv, "err", Keep)
  ELSE Reply([srv EXCEPT !.live = @ \ {cookie}], "ok", NoCookie)

\* Without a session cookie there is nothing to log out.
logout_current(srv, cookie) ==
  IF cookie = NoCookie THEN Reply(srv, "ok", Keep)
  ELSE logout_and_clear_cookie(srv, cookie)

\* Mutant: a late reply overwrites a status that is decided.
RestoredAlways(status, tag) ==
  CASE tag = "ok" -> "Authenticated"
    [] tag = "none" -> "Unauthenticated"
    [] OTHER -> status

\* The status a restore probe's reply sets, ServerFnError::new being a 500.
Restored(status, tag) ==
  IF status # "Loading" THEN status ELSE
  CASE tag = "ok" -> "Authenticated"
    [] tag = "none" -> "Unauthenticated"
    [] OTHER -> status

require_auth(status) ==
  CASE status = "Loading" -> "waiting"
    [] status = "Authenticated" -> "allow"
    [] status = "Unauthenticated" -> "redirect"

redirect_if_authed(status) ==
  CASE status = "Loading" -> "waiting"
    [] status = "Authenticated" -> "redirect"
    [] status = "Unauthenticated" -> "allow"

\* SignedIn and SignedOut render what they enclose, or nothing.
SignedIn(status, inside) == IF status = "Authenticated" THEN inside ELSE {}
SignedOut(status, inside) == IF status = "Unauthenticated" THEN inside ELSE {}

\* auth.user().unwrap() in what a page renders.
Unwrapped(status, shown) == IF status = "Authenticated" THEN shown ELSE "crash"

SetUser(ui) == [ui EXCEPT !.status = "Authenticated"]
SetLoggedOut(ui) == [ui EXCEPT !.status = "Unauthenticated"]
GoTo(ui, page) == [ui EXCEPT !.page = page]
Submitting(ui, yes) == [ui EXCEPT !.submitting = yes]
=============================================================================
