--------------------------- MODULE RegistrationApp ---------------------------
(***************************************************************************)
(* examples/registration-demo: accounts, e-mail verification and password   *)
(* reset with single-use tokens, over a MemoryStore whose users are stored  *)
(* by insert_user, without a credential.                                    *)
(***************************************************************************)
EXTENDS AppKit

\* init_server_state: the seeded user has no credential, so nobody can sign in.
init_server_state == Server(FALSE, "none")

\* The user table, the credential table and the tokens of VerificationStore.
Admin == [id |-> 0, email |-> "admin", verified |-> TRUE]
Registry == [users |-> {Admin}, credentials |-> {}, email_tokens |-> {},
             reset_tokens |-> {}, next |-> 1]

Done(reg, tag) == [reg |-> reg, tag |-> tag]

\* insert_user: the row of the id, whatever was in it.
insert_user(reg, user) ==
  [reg EXCEPT !.users = {u \in @ : u.id # user.id} \cup {user}]

\* The address is looked up among the credentials, of which there are none; the
\* id is random, hence new.
register_server(reg, email) ==
  IF \E c \in reg.credentials : c.email = email THEN Done(reg, "err")
  ELSE Done(insert_user([reg EXCEPT !.next = @ + 1],
                        [id |-> reg.next, email |-> email, verified |-> FALSE]), "ok")

\* Then, under the lock of the tokens, the account gets one; it is numbered alike.
insert_email_token(reg, id) ==
  Done([reg EXCEPT !.email_tokens = @ \cup {[token |-> id, user |-> id, expired |-> FALSE]}],
       "ok")

\* The tokens of a list that can still be used.
Usable(tokens, t) == {x \in tokens : x.token = t /\ ~ x.expired}

\* Mutant: the token stays in the list.
verify_email_token_peek(reg, t) ==
  Done(reg, IF Usable(reg.email_tokens, t) = {} THEN "err" ELSE "ok")

\* A token is taken out of the list under the list's lock.
verify_email_token(reg, t) ==
  LET hits == Usable(reg.email_tokens, t) IN
  IF hits = {} THEN Done(reg, "err")
  ELSE Done([reg EXCEPT !.email_tokens = @ \ hits], "ok")

\* verify_email_server after that: the user is read, changed and stored whole.
VerifyUser(reg, id) ==
  LET found == {u \in reg.users : u.id = id} IN
  IF found = {} THEN Done(reg, "err")
  ELSE Done(insert_user(reg, [id |-> id, email |-> (CHOOSE u \in found : TRUE).email,
                              verified |-> TRUE]), "ok")

\* An unknown address gets the answer a known one would, and no token.
request_password_reset_server(reg, email) ==
  LET found == {c \in reg.credentials : c.email = email} IN
  IF found = {} THEN Done(reg, "ok")
  ELSE Done([reg EXCEPT
         !.reset_tokens = @ \cup {[token |-> reg.next, expired |-> FALSE,
                                   user |-> (CHOOSE c \in found : TRUE).user]},
         !.next = @ + 1], "ok")

\* consume_reset_token.  What follows, the new hash and the end of the sessions,
\* is out of reach: without credentials no reset token is ever issued.
reset_password_server(reg, t) ==
  LET hits == Usable(reg.reset_tokens, t) IN
  IF hits = {} THEN Done(reg, "err")
  ELSE Done([reg EXCEPT !.reset_tokens = @ \ hits], "ok")

login_server(srv, right) == login_cookie(srv, right)
logout_server(srv, cookie) ==
  IF cookie = NoCookie THEN Reply(srv, "ok", Keep)
  ELSE logout_and_clear_cookie(srv, cookie)
current_user(srv, cookie) == current_user_from_request(srv, cookie)

Route == {"home", "login", "register", "verify", "forgot", "reset", "dashboard"}

NavBar(status) ==
  {"home", "dashboard", IF status = "Authenticated" THEN "log out" ELSE "login"}

LogOut(ui) == GoTo(SetLoggedOut(ui), "home")
LogIn(ui, tag) == IF tag = "ok" THEN GoTo(SetUser(ui), "dashboard") ELSE ui

\* The calls of the four forms; only a registration leads to another page.
Register == [page |-> "register", op |-> "register"]
Verify == [page |-> "verify", op |-> "verify"]
ForgotPassword == [page |-> "forgot", op |-> "request reset"]
ResetPassword == [page |-> "reset", op |-> "reset"]
Registered(ui, tag) == IF tag = "ok" THEN GoTo(ui, "verify") ELSE ui

\* No gate at all.
Dashboard(status) == Unwrapped(status, "user")

App == "Loading"
AuthRestore == "whoami"
=============================================================================
