-------------------------- MODULE RequestCredentials --------------------------
(***************************************************************************)
(* The credentials of a request and what the server does with them: the    *)
(* cookie and bearer extraction (transport/extract.rs, security/cookie.rs), *)
(* ServerAuthContext (dioxus/server_fn.rs), the process-wide registry       *)
(* (dioxus/registry.rs) and the axum middleware (dioxus/axum.rs), against   *)
(* one client with a cookie jar and a stored bearer token.  Several of its  *)
(* requests are in flight; requests and replies are reordered and lost.     *)
(*                                                                         *)
(* The engine is its set of live sessions, all of one user: a login adds    *)
(* one, a logout removes one, a validation asks, and each may fail or miss  *)
(* the user (AuthSessions has their steps).  A cookie keeps its name, its   *)
(* path and its value; the requests are all within the cookie's path and    *)
(* domain.                                                                 *)
(***************************************************************************)
EXTENDS FiniteSets

CONSTANTS
  Requests,    \* requests the client may have in flight
  Tokens,      \* wire tokens
  None,        \* no token
  Configs,     \* CookieConfigs the server may run with
  Jars,        \* what the client's cookie jar may hold before its first call
  Operations,  \* server functions the client calls
  Layers       \* middleware a call may pass: "none" or one of dioxus/axum.rs

\* printable: the name, path and domain make a valid HeaderValue.
Config == [host_only : BOOLEAN, path : {"/", "/app"}, origins : BOOLEAN,
           printable : BOOLEAN]

ASSUME CredentialsAssumption ==
  /\ Configs \subseteq Config
  /\ Operations \subseteq {"current_user", "login_cookie", "login_bearer",
                           "logout_current", "registry_logout"}
  /\ Layers \subseteq {"none", "auth", "require", "permission"}
  /\ None \notin Tokens
  /\ Tokens \cap {"absent", "junk", "keep", "clear"} = {}

VARIABLES
  config,    \* the server's CookieConfig
  found,     \* does the UserStore find the user of the sessions?
  sessions,  \* tokens with a live session in the engine
  minted,    \* tokens the engine has generated
  jar,       \* the client's cookies
  bearer,    \* the client's stored bearer token, or None
  req,       \* the requests in flight
  loggedOut  \* history: was the last session cookie header a deletion?

vars == <<config, found, sessions, minted, jar, bearer, req, loggedOut>>

Cookie == [name : {"session", "__Host-session", "theme"},
           path : {"/", "/app"}, value : Tokens \cup {None}]

\* A cookie of the application itself.
Theme == [name |-> "theme", path |-> "/", value |-> None]

ASSUME JarsAssumption == Jars \subseteq {{}, {Theme}}

\* An Authorization header that holds no usable token: another scheme, an
\* empty or a malformed Bearer.
Headers == [cookies : SUBSET Cookie,
            auth : Tokens \cup {"absent", "junk"},
            origin : {"absent", "expected", "other"}]

NoHeaders == [cookies |-> {}, auth |-> "absent", origin |-> "absent"]

Reply(answer, cookie, token) ==
  [answer |-> answer, cookie |-> cookie, token |-> token]

NoReply == Reply("none", "keep", None)

Idle == [at |-> "idle", op |-> "none",
         headers |-> NoHeaders, handed |-> NoHeaders, reply |-> NoReply]

-----------------------------------------------------------------------------
\* CookieConfig.

CookieName == IF config.host_only THEN "__Host-session" ELSE "session"

\* The Path of build_set_cookie_header.
SetPath == IF config.host_only THEN "/" ELSE config.path

\* Mutant: the deletion keeps the configured path of a __Host- cookie.
DeletePathConfigured == config.path

\* The Path of build_delete_cookie_header.
DeletePath == IF config.host_only THEN "/" ELSE config.path

\* A pair of the expected name with a well-formed token, if there is one.
extract_session_id(cookies) ==
  LET ours == {c \in cookies : c.name = CookieName /\ c.value \in Tokens}
  IN IF ours = {} THEN None ELSE (CHOOSE c \in ours : TRUE).value

\* Safe requests may lack an Origin, state-changing cookie requests may not.
validate_origin(origin) ==
  config.origins => origin \in {"absent", "expected"}

validate_cookie_origin(origin) == config.origins => origin = "expected"

\* Mutant (the F7 the comments tell of): a junk Authorization header makes the
\* cookie count as a bearer token.
BearerOrCookieToken(h) ==
  IF h.auth \in Tokens THEN h.auth
  ELSE IF h.auth = "junk" THEN extract_session_id(h.cookies) ELSE None

\* extract_session_token(authorization, None, ..).
BearerToken(h) == IF h.auth \in Tokens THEN h.auth ELSE None

-----------------------------------------------------------------------------
\* ServerAuthContext::current_user: the possible outcomes.

\* The credential it validates: the bearer token before the cookie.
CurrentToken(h) ==
  IF BearerToken(h) # None THEN BearerToken(h)
  ELSE extract_session_id(h.cookies)

UsedCookie(h) == BearerToken(h) = None

\* Token t has a live session and find_by_id finds its user.
Validates(t) == t \in sessions /\ found

CurrentUser(h) ==
  IF CurrentToken(h) = None THEN {"anonymous"}
  ELSE IF UsedCookie(h) /\ ~ validate_origin(h.origin) THEN {"csrf"}
  ELSE {"error", IF Validates(CurrentToken(h)) THEN "user" ELSE "anonymous"}

\* One call of current_user.  A session whose user is not found is deleted as
\* it is rejected; the error of that deletion is discarded.
Validation(h, outcome) ==
  /\ outcome \in CurrentUser(h)
  /\ \/ UNCHANGED sessions
     \/ /\ outcome = "anonymous" /\ CurrentToken(h) \in sessions
        /\ sessions' = sessions \ {CurrentToken(h)}

-----------------------------------------------------------------------------
\* The middleware.  permission_middleware and require_auth_middleware hand the
\* next service a new request: its headers are copied from itself, so it has
\* none.
Pass(r, headers) ==
  req' = [req EXCEPT ![r].at = "handling", ![r].handed = headers]

\* The server answers and forgets the request; the client remembers what it
\* called, and with which Authorization.
Respond(r, reply) ==
  req' = [req EXCEPT ![r] =
            [Idle EXCEPT !.at = "answered", !.op = req[r].op,
                         !.headers.auth = req[r].headers.auth,
                         !.reply = reply]]

Refuse(r, status) == Respond(r, Reply(status, "keep", None))

AuthMiddleware(r, outcome) ==
  \/ outcome = "csrf" /\ Refuse(r, "forbidden")
  \/ outcome # "csrf" /\ Pass(r, req[r].headers)

RequireAuthMiddleware(r, outcome) ==
  \/ outcome = "csrf" /\ Refuse(r, "forbidden")
  \/ outcome \in {"anonymous", "error"} /\ Refuse(r, "unauthorized")
  \/ outcome = "user" /\ Pass(r, NoHeaders)

\* With the application's check of the user, which may fail.
PermissionMiddleware(r, outcome) ==
  \/ RequireAuthMiddleware(r, outcome)
  \/ outcome = "user" /\ Refuse(r, "forbidden")

Admit(r) ==
  /\ req[r].at = "sent"
  /\ \/ "none" \in Layers /\ Pass(r, req[r].headers) /\ UNCHANGED sessions
     \/ \E outcome \in CurrentUser(req[r].headers) :
          /\ Validation(req[r].headers, outcome)
          /\ \/ "auth" \in Layers /\ AuthMiddleware(r, outcome)
             \/ "require" \in Layers /\ RequireAuthMiddleware(r, outcome)
             \/ "permission" \in Layers /\ PermissionMiddleware(r, outcome)
  /\ UNCHANGED <<config, found, minted, jar, bearer, loggedOut>>

-----------------------------------------------------------------------------
\* The server functions.

Handling(r, op) == req[r].at = "handling" /\ req[r].op = op

\* Ok with a Set-Cookie header, which is built only once the engine has done
\* its part: what it did stays done when the header is not a valid one.
WithCookie(cookie) ==
  IF config.printable THEN Reply("ok", cookie, None)
  ELSE Reply("error", "keep", None)

\* An answer that leaves the engine and the cookies alone.
RespondOnly(r, answer) ==
  /\ Respond(r, Reply(answer, "keep", None))
  /\ UNCHANGED <<sessions, minted>>

GetCurrentUser(r) ==
  /\ Handling(r, "current_user")
  /\ \E outcome \in CurrentUser(req[r].handed) :
       /\ Validation(req[r].handed, outcome)
       /\ Refuse(r, outcome)
  /\ UNCHANGED <<config, found, minted, jar, bearer, loggedOut>>

\* Mutant: the token is handed out before its session is saved.
EngineLoginUnsaved(t) == t \notin minted /\ UNCHANGED <<minted, sessions>>

\* AuthEngine::login saves a session of a user it found under a fresh token.
EngineLogin(t) ==
  /\ found
  /\ t \notin minted
  /\ minted' = minted \cup {t}
  /\ sessions' = sessions \cup {t}

\* login_cookie: a Set-Cookie with the token, or an error after the login.
LoginCookie(r) ==
  /\ Handling(r, "login_cookie")
  /\ \/ /\ ~ validate_cookie_origin(req[r].handed.origin)
        /\ RespondOnly(r, "csrf")
     \/ /\ validate_cookie_origin(req[r].handed.origin)
        /\ \/ RespondOnly(r, "error")
           \/ \E t \in Tokens :
                EngineLogin(t) /\ Respond(r, WithCookie(t))
  /\ UNCHANGED <<config, found, jar, bearer, loggedOut>>

\* login_bearer: the token in the body.
LoginBearer(r) ==
  /\ Handling(r, "login_bearer")
  /\ \/ RespondOnly(r, "error")
     \/ \E t \in Tokens :
          EngineLogin(t) /\ Respond(r, Reply("ok", "keep", t))
  /\ UNCHANGED <<config, found, jar, bearer, loggedOut>>

\* Mutant: an error of the engine does not keep the cookie from being cleared.
EngineLogoutThenClearAnyway(r, t, reply) ==
  /\ \/ Respond(r, Reply("error", reply.cookie, None)) /\ UNCHANGED sessions
     \/ sessions' = sessions \ {t} /\ Respond(r, reply)
  /\ UNCHANGED minted

\* AuthEngine::logout, then the reply: `?` returns the store's error before any
\* cookie header is built; a user that is not found leaves the session stored.
EngineLogoutThen(r, t, reply) ==
  \/ RespondOnly(r, "error")
  \/ /\ sessions' = IF found THEN sessions \ {t} ELSE sessions
     /\ Respond(r, reply)
     /\ UNCHANGED minted

\* Mutant: the cookie is taken before the bearer token.
LogoutCurrentCookieFirst(r) ==
  LET h == req[r].handed
      cookie == extract_session_id(h.cookies)
      t == IF cookie # None THEN cookie ELSE BearerToken(h)
  IN
  /\ Handling(r, "logout_current")
  /\ \/ /\ cookie # None /\ ~ validate_cookie_origin(h.origin)
        /\ RespondOnly(r, "csrf")
     \/ /\ cookie = None \/ validate_cookie_origin(h.origin)
        /\ \/ t = None /\ RespondOnly(r, "ok")
           \/ t # None /\ EngineLogoutThen(r, t, WithCookie("clear"))
  /\ UNCHANGED <<config, found, jar, bearer, loggedOut>>

\* ServerAuthContext::logout_current: Origin is required of every request with
\* a Cookie header and no bearer token, one without a session cookie included.
LogoutCurrent(r) ==
  LET h == req[r].handed
      cookie == extract_session_id(h.cookies)
      t == IF BearerToken(h) # None THEN BearerToken(h) ELSE cookie
      usingCookie == BearerToken(h) = None /\ h.cookies # {}
  IN
  /\ Handling(r, "logout_current")
  /\ \/ /\ usingCookie /\ ~ validate_cookie_origin(h.origin)
        /\ RespondOnly(r, "csrf")
     \/ /\ usingCookie => validate_cookie_origin(h.origin)
        /\ \/ t = None /\ RespondOnly(r, "ok")
           \/ /\ t # None
              /\ EngineLogoutThen(r, t,
                   IF cookie # None THEN WithCookie("clear")
                                    ELSE Reply("ok", "keep", None))
  /\ UNCHANGED <<config, found, jar, bearer, loggedOut>>

\* registry::logout_current returns the header, which the server function that
\* calls it attaches.
RegistryLogout(r) ==
  LET h == req[r].handed
      cookie == extract_session_id(h.cookies)
  IN
  /\ Handling(r, "registry_logout")
  /\ \/ /\ BearerToken(h) # None
        /\ EngineLogoutThen(r, BearerToken(h), WithCookie("clear"))
     \/ /\ BearerToken(h) = None /\ cookie # None
        /\ \/ /\ ~ validate_cookie_origin(h.origin)
              /\ RespondOnly(r, "csrf")
           \/ /\ validate_cookie_origin(h.origin)
              /\ EngineLogoutThen(r, cookie, WithCookie("clear"))
     \/ /\ BearerToken(h) = None /\ cookie = None
        /\ Respond(r, WithCookie("clear"))
        /\ UNCHANGED <<sessions, minted>>
  /\ UNCHANGED <<config, found, jar, bearer, loggedOut>>

\* A session expires, or is revoked by somebody else.
EndSession ==
  /\ \E t \in sessions : sessions' = sessions \ {t}
  /\ UNCHANGED <<config, found, minted, jar, bearer, req, loggedOut>>

\* The application hides the user from its UserStore, or brings it back.
HideOrShowUser ==
  /\ found' = ~ found
  /\ UNCHANGED <<config, sessions, minted, jar, bearer, req, loggedOut>>

-----------------------------------------------------------------------------
\* The client: a browser, and an application that keeps the token of a bearer
\* login until a logout that used it is answered.

IsLogout(op) == op \in {"logout_current", "registry_logout"}

Send(r) ==
  /\ req[r].at = "idle"
  /\ \E op \in Operations, auth \in {"absent", "junk"} \cup ({bearer} \ {None}),
        origin \in {"absent", "expected", "other"} :
       LET h == [cookies |-> jar, auth |-> auth, origin |-> origin] IN
       req' = [req EXCEPT ![r] =
                 [Idle EXCEPT !.at = "sent", !.op = op, !.headers = h]]
  /\ UNCHANGED <<config, found, sessions, minted, jar, bearer, loggedOut>>

\* Set-Cookie replaces the cookie of the same name and path.
OtherCookies(path) == {c \in jar : ~ (c.name = CookieName /\ c.path = path)}

ApplyCookie(cookie) ==
  \/ cookie = "keep" /\ UNCHANGED <<jar, loggedOut>>
  \/ /\ cookie = "clear"
     /\ jar' = OtherCookies(DeletePath)
     /\ loggedOut' = TRUE
  \/ /\ cookie \in Tokens
     /\ jar' = OtherCookies(SetPath)
                 \cup {[name |-> CookieName, path |-> SetPath,
                        value |-> cookie]}
     /\ loggedOut' = FALSE

Deliver(r) ==
  LET reply == req[r].reply IN
  /\ req[r].at = "answered"
  /\ ApplyCookie(reply.cookie)
  /\ bearer' = IF reply.token # None THEN reply.token
               ELSE IF /\ IsLogout(req[r].op) /\ reply.answer = "ok"
                       /\ req[r].headers.auth = bearer
                    THEN None ELSE bearer
  /\ req' = [req EXCEPT ![r] = Idle]
  /\ UNCHANGED <<config, found, sessions, minted>>

\* A request that never arrives, or a reply that never does.
Lose(r) ==
  /\ req[r].at \in {"sent", "answered"}
  /\ req' = [req EXCEPT ![r] = Idle]
  /\ UNCHANGED <<config, found, sessions, minted, jar, bearer, loggedOut>>

-----------------------------------------------------------------------------
Init ==
  /\ config \in Configs
  /\ found = TRUE
  /\ sessions = {} /\ minted = {}
  /\ jar \in Jars
  /\ bearer = None
  /\ req = [r \in Requests |-> Idle]
  /\ loggedOut = FALSE

Serve(r) ==
  \/ Admit(r) \/ GetCurrentUser(r) \/ LoginCookie(r) \/ LoginBearer(r)
  \/ LogoutCurrent(r) \/ RegistryLogout(r)

Next ==
  \/ \E r \in Requests : Send(r) \/ Serve(r) \/ Deliver(r) \/ Lose(r)
  \/ EndSession \/ HideOrShowUser

Spec == Init /\ [][Next]_vars

-----------------------------------------------------------------------------
(***************************************************************************)
(* Properties.                                                             *)
(***************************************************************************)

Answers == {"none", "anonymous", "user", "csrf", "error", "ok", "forbidden",
            "unauthorized"}

\* Besides the types: only minted tokens have sessions, are in the jar or are
\* stored by the client, and a jar has one session cookie at most.
TypeOK ==
  /\ config \in Config
  /\ found \in BOOLEAN
  /\ minted \subseteq Tokens
  /\ sessions \subseteq minted
  /\ jar \subseteq Cookie
  /\ bearer \in minted \cup {None}
  /\ loggedOut \in BOOLEAN
  /\ req \in [Requests ->
       [at : {"idle", "sent", "handling", "answered"},
        op : Operations \cup {"none"},
        headers : Headers, handed : Headers,
        reply : [answer : Answers, cookie : Tokens \cup {"keep", "clear"},
                 token : Tokens \cup {None}]]]
  /\ \A c, d \in jar : c # Theme /\ d # Theme => c = d
  /\ \A c \in jar : c # Theme => c.value \in minted

\* Request r is answered by its server function.
Handled(r) == req[r].at = "handling" /\ req'[r].at = "answered"

\* A request without a usable bearer token that comes from another origin is
\* told of no user and, like one that names no origin, opens and ends no
\* session (login_bearer, which no cookie takes part in, checks no origin, and
\* current_user without one may delete the session of a user not found).
OriginGuardsCookies ==
  [][\A r \in Requests :
       LET h == req[r].handed IN
       /\ Handled(r) /\ req[r].op # "login_bearer"
       /\ config.origins /\ h.auth \notin Tokens /\ h.origin # "expected"
       => /\ \/ sessions' = sessions
             \/ /\ req[r].op = "current_user" /\ ~ found
                /\ h.origin = "absent"
          /\ h.origin = "other" => req'[r].reply.answer # "user"]_vars

\* After an Ok of either logout, no current_user with the same headers is
\* answered with a user: the credential that it would validate is the one that
\* was logged out.  Its session is gone, unless the UserStore did not find the
\* user; then it is only as good as dead, until the user is found again.
LogoutEndsWhatValidates ==
  [][\A r \in Requests :
       /\ Handled(r) /\ IsLogout(req[r].op)
       /\ req'[r].reply.answer = "ok"
       => ~ (CurrentToken(req[r].handed) \in sessions' /\ found')]_vars

\* After a reply that clears the cookie the browser sends no session cookie
\* until a login sets one again, under every cookie name and path.
LoggedOutStays == loggedOut => extract_session_id(jar) = None

\* The browser is told to drop its session cookie only when the session of the
\* cookie the handler was given no longer validates (it is gone, or its user is
\* not found), unless a bearer token came with it: an error of the store and a
\* refused Origin leave the cookie and the session.
ClearedCookieIsDead ==
  [][\A r \in Requests :
       /\ Handled(r) /\ req'[r].reply.cookie = "clear"
       /\ BearerToken(req[r].handed) = None
       => ~ (/\ extract_session_id(req[r].handed.cookies) \in sessions'
             /\ found')]_vars

\* Documented: the middleware inserts the user into the extensions of the
\* request, so its handler still sees the headers the client sent.
HandlerSeesRequest ==
  \A r \in Requests :
    req[r].at = "handling" => req[r].handed = req[r].headers
=============================================================================
