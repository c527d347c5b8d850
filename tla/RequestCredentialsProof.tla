----------------------- MODULE RequestCredentialsProof -----------------------
(***************************************************************************)
(* Theorems about RequestCredentials, for every set of requests, tokens,   *)
(* configurations and operations, and for every middleware, whether the    *)
(* user of the sessions is found or not.                                   *)
(***************************************************************************)
EXTENDS RequestCredentials, TLAPS

SessionCookie(v) == [name |-> CookieName, path |-> SetPath, value |-> v]

\* A request, or its reply, that names minted tokens only.
Replies == [answer : Answers, cookie : minted \cup {"keep", "clear"},
            token : minted \cup {None}]

Entries == [at : {"idle", "sent", "handling", "answered"},
            op : Operations \cup {"none"},
            headers : Headers, handed : Headers, reply : Replies]

\* The jar holds the cookies the server can set, one of them at most; after a
\* deletion, none.
JarOK ==
  /\ \A c \in jar : c = Theme \/ \E v \in minted : c = SessionCookie(v)
  /\ \A c, d \in jar : c # Theme /\ d # Theme => c = d
  /\ loggedOut => \A c \in jar : c = Theme

Typed ==
  /\ config \in Config
  /\ found \in BOOLEAN
  /\ minted \subseteq Tokens
  /\ sessions \subseteq minted
  /\ bearer \in minted \cup {None}
  /\ loggedOut \in BOOLEAN
  /\ req \in [Requests -> Entries]

Invariant == Typed /\ JarOK

-----------------------------------------------------------------------------
\* Records and cookies.

\* A cookie of the session is none of the application's.
LEMMA CookieFacts ==
  ASSUME config \in Config
  PROVE  /\ Theme \in Cookie
         /\ \A v : SessionCookie(v) # Theme
         /\ \A v \in Tokens : SessionCookie(v) \in Cookie
         /\ \A v : SessionCookie(v).name = CookieName
                   /\ SessionCookie(v).path = SetPath
                   /\ SessionCookie(v).value = v
         /\ Theme.name # CookieName
         /\ SetPath = DeletePath
  <1>1. CookieName \in {"session", "__Host-session"} /\ SetPath \in {"/", "/app"}
    BY DEF CookieName, SetPath, Config
  <1>2. Theme.name # CookieName /\ Theme \in Cookie
    BY <1>1 DEF Theme, Cookie
  <1>3. \A v : SessionCookie(v).name = CookieName
               /\ SessionCookie(v).path = SetPath
               /\ SessionCookie(v).value = v
    BY DEF SessionCookie
  <1>4. \A v \in Tokens : SessionCookie(v) \in Cookie
    BY <1>1 DEF SessionCookie, Cookie
  <1>5. SetPath = DeletePath
    BY DEF SetPath, DeletePath
  <1> QED BY <1>2, <1>3, <1>4, <1>5

\* The extracted token is one of the session cookies', if there is any.
LEMMA Extracted ==
  ASSUME NEW cookies
  PROVE  /\ extract_session_id(cookies) = None
              => \A c \in cookies : c.name = CookieName => c.value \notin Tokens
         /\ extract_session_id(cookies) # None
              => /\ extract_session_id(cookies) \in Tokens
                 /\ cookies # {}
         /\ (\A c \in cookies : c.name # CookieName)
              => extract_session_id(cookies) = None
  <1> DEFINE ours == {c \in cookies : c.name = CookieName /\ c.value \in Tokens}
  <1>1. CASE ours = {}
    BY <1>1 DEF extract_session_id
  <1>2. CASE ours # {}
    <2>1. (CHOOSE c \in ours : TRUE) \in ours
      BY <1>2
    <2>2. extract_session_id(cookies) = (CHOOSE c \in ours : TRUE).value
      BY <1>2 DEF extract_session_id
    <2> HIDE DEF ours
    <2>3. extract_session_id(cookies) \in Tokens
      BY <2>1, <2>2 DEF ours
    <2>4. extract_session_id(cookies) # None
      BY <2>3, CredentialsAssumption
    <2>5. \E c \in cookies : c.name = CookieName
      BY <2>1 DEF ours
    <2> QED BY <2>3, <2>4, <2>5
  <1> QED BY <1>1, <1>2

\* An entry of req.
Entry(at, op, headers, handed, reply) ==
  [at |-> at, op |-> op, headers |-> headers, handed |-> handed, reply |-> reply]

\* The entry Send makes.
SentAs(op, h) == [Idle EXCEPT !.at = "sent", !.op = op, !.headers = h]

\* The entry of a request that is sent.
LEMMA SentEntry ==
  ASSUME NEW op, NEW h
  PROVE  SentAs(op, h)
         = Entry("sent", op, h, NoHeaders, NoReply)
  <1> DEFINE e0 == Entry("idle", "none", NoHeaders, NoHeaders, NoReply)
             e1 == [Idle EXCEPT !.at = "sent"]
             e2 == [e1 EXCEPT !.op = op]
  <1>1. Idle = e0
    BY DEF Idle, Entry
  <1>2. e1 = Entry("sent", "none", NoHeaders, NoHeaders, NoReply)
    BY <1>1 DEF Entry
  <1> HIDE DEF e1
  <1>3. e2 = Entry("sent", op, NoHeaders, NoHeaders, NoReply)
    BY <1>2 DEF Entry
  <1> HIDE DEF e2
  <1>4. [e2 EXCEPT !.headers = h] = Entry("sent", op, h, NoHeaders, NoReply)
    BY <1>3 DEF Entry
  <1>5. [Idle EXCEPT !.at = "sent", !.op = op, !.headers = h]
        = [[[Idle EXCEPT !.at = "sent"] EXCEPT !.op = op] EXCEPT !.headers = h]
    OBVIOUS
  <1> QED BY <1>4, <1>5 DEF e1, e2, SentAs

\* The entry Respond makes.
Answered(op, auth, reply) ==
  [Idle EXCEPT !.at = "answered", !.op = op, !.headers.auth = auth,
               !.reply = reply]

\* The entry of an answered request.
LEMMA AnsweredEntry ==
  ASSUME NEW op, NEW auth, NEW reply
  PROVE  Answered(op, auth, reply)
         = Entry("answered", op, [NoHeaders EXCEPT !.auth = auth], NoHeaders, reply)
  <1> DEFINE h == [NoHeaders EXCEPT !.auth = auth]
             e1 == [Idle EXCEPT !.at = "answered"]
             e2 == [e1 EXCEPT !.op = op]
             e3 == [e2 EXCEPT !.headers = [e2.headers EXCEPT !.auth = auth]]
  <1>1. Idle = Entry("idle", "none", NoHeaders, NoHeaders, NoReply)
    BY DEF Idle, Entry
  <1>2. e1 = Entry("answered", "none", NoHeaders, NoHeaders, NoReply)
    BY <1>1 DEF Entry
  <1> HIDE DEF e1
  <1>3. e2 = Entry("answered", op, NoHeaders, NoHeaders, NoReply)
    BY <1>2 DEF Entry
  <1> HIDE DEF e2
  <1>4. e2.headers = NoHeaders
    BY <1>3 DEF Entry
  <1>5. e3 = Entry("answered", op, h, NoHeaders, NoReply)
    BY <1>3, <1>4 DEF Entry
  <1> HIDE DEF e3
  <1>6. [e3 EXCEPT !.reply = reply] = Entry("answered", op, h, NoHeaders, reply)
    BY <1>5 DEF Entry
  <1>7. [Idle EXCEPT !.at = "answered", !.op = op, !.headers.auth = auth,
                     !.reply = reply]
        = [[[[Idle EXCEPT !.at = "answered"] EXCEPT !.op = op]
              EXCEPT !.headers.auth = auth] EXCEPT !.reply = reply]
    OBVIOUS
  <1>8. [e2 EXCEPT !.headers.auth = auth] = e3
    BY DEF e3
  <1> QED BY <1>6, <1>7, <1>8 DEF e1, e2, Answered

\* An idle request, empty headers and no reply are well typed.
LEMMA IdleTyped ==
  /\ Idle \in Entries
  /\ NoHeaders \in Headers
  /\ NoReply \in Replies
  /\ Idle.at = "idle"
  <1>1. NoHeaders \in Headers
    BY DEF NoHeaders, Headers
  <1>2. NoReply \in Replies
    BY DEF NoReply, Reply, Replies, Answers
  <1> QED BY <1>1, <1>2 DEF Idle, Entries

\* What an answer changes.
LEMMA Responds ==
  ASSUME Typed, NEW r \in Requests, NEW reply, Respond(r, reply)
  PROVE  /\ req'[r].at = "answered" /\ req'[r].reply = reply
         /\ \A s \in Requests : s # r => req'[s] = req[s]
         /\ reply \in Replies' /\ minted \subseteq minted'
              => req' \in [Requests -> Entries']
  <1> DEFINE h == [NoHeaders EXCEPT !.auth = req[r].headers.auth]
             e == Entry("answered", req[r].op, h, NoHeaders, reply)
  <1>1. req' = [req EXCEPT ![r] = e]
    <2>1. req' = [req EXCEPT ![r] =
                    Answered(req[r].op, req[r].headers.auth, reply)]
      BY DEF Respond, Answered
    <2> QED BY <2>1, AnsweredEntry
  <1>2. e.at = "answered" /\ e.reply = reply
    BY DEF Entry
  <1>3. ASSUME reply \in Replies', minted \subseteq minted'
        PROVE  req' \in [Requests -> Entries']
    <2>1. req[r].op \in Operations \cup {"none"}
          /\ req[r].headers.auth \in Tokens \cup {"absent", "junk"}
      BY DEF Typed, Entries, Headers
    <2>2. h \in Headers
      <3>1. h = [cookies |-> {}, auth |-> req[r].headers.auth, origin |-> "absent"]
        BY DEF NoHeaders
      <3> HIDE DEF h
      <3> QED BY <2>1, <3>1 DEF Headers
    <2> HIDE DEF h
    <2>3. e \in Entries'
      BY <2>1, <2>2, <1>3, IdleTyped DEF Entries, Entry
    <2>4. \A s \in Requests : req[s] \in Entries'
      BY <1>3 DEF Typed, Entries, Replies
    <2> HIDE DEF e
    <2> QED BY <1>1, <2>3, <2>4 DEF Typed
  <1> HIDE DEF e
  <1> QED BY <1>1, <1>2, <1>3 DEF Typed

\* A handler that answers with minted tokens and touches no cookie keeps the
\* invariant.
LEMMA RespondKeeps ==
  ASSUME Invariant, NEW r \in Requests, NEW reply, Respond(r, reply),
         UNCHANGED <<config, found, jar, bearer, loggedOut>>,
         minted \subseteq minted', minted' \subseteq Tokens,
         sessions' \subseteq minted', reply \in Replies'
  PROVE  Invariant'
  <1>1. req' \in [Requests -> Entries']
    BY Responds DEF Invariant
  <1>2. Typed'
    BY <1>1 DEF Invariant, Typed
  <1>3. \A v : SessionCookie(v)' = SessionCookie(v)
    BY DEF SessionCookie, CookieName, SetPath
  <1>4. \A c \in jar : c = Theme \/ \E v \in minted' : c = SessionCookie(v)
    BY DEF Invariant, JarOK
  <1>5. JarOK'
    BY <1>3, <1>4 DEF Invariant, JarOK
  <1> QED BY <1>2, <1>5 DEF Invariant

\* The replies that bring no token.
LEMMA PlainReplies ==
  ASSUME NEW answer \in Answers, NEW cookie \in {"keep", "clear"}
  PROVE  Reply(answer, cookie, None) \in Replies
  BY DEF Reply, Replies

\* So does an answer that leaves the engine alone, ...
LEMMA RespondOnlyKeeps ==
  ASSUME Invariant, NEW r \in Requests, NEW answer \in Answers,
         RespondOnly(r, answer), UNCHANGED <<config, found, jar, bearer, loggedOut>>
  PROVE  Invariant'
  <1> DEFINE reply == Reply(answer, "keep", None)
  <1>1. Respond(r, reply) /\ UNCHANGED <<sessions, minted>>
    BY DEF RespondOnly
  <1>2. reply \in Replies'
    <2>1. reply \in Replies
      BY PlainReplies
    <2> QED BY <1>1, <2>1 DEF Replies
  <1> HIDE DEF reply
  <1> QED BY <1>1, <1>2, RespondKeeps DEF Invariant, Typed

\* ... one that ends sessions, ...
LEMMA RefuseKeeps ==
  ASSUME Invariant, NEW r \in Requests, NEW answer \in Answers,
         Refuse(r, answer), sessions' \subseteq sessions,
         UNCHANGED <<config, found, minted, jar, bearer, loggedOut>>
  PROVE  Invariant'
  <1> DEFINE reply == Reply(answer, "keep", None)
  <1>1. Respond(r, reply)
    BY DEF Refuse
  <1>2. reply \in Replies'
    <2>1. reply \in Replies
      BY PlainReplies
    <2> QED BY <2>1 DEF Replies
  <1> HIDE DEF reply
  <1> QED BY <1>1, <1>2, RespondKeeps DEF Invariant, Typed

\* ... a login, ...
LEMMA EngineLoginKeeps ==
  ASSUME Invariant, NEW r \in Requests, NEW t \in Tokens, EngineLogin(t),
         NEW reply, Respond(r, reply),
         UNCHANGED <<config, found, jar, bearer, loggedOut>>,
         reply = WithCookie(t) \/ reply = Reply("ok", "keep", t)
  PROVE  Invariant'
  <1>1. t \in minted' /\ minted \subseteq minted' /\ minted' \subseteq Tokens
        /\ sessions' \subseteq minted'
    BY DEF EngineLogin, Invariant, Typed
  <1>2. reply \in Replies'
    BY <1>1 DEF WithCookie, Reply, Replies, Answers
  <1> QED BY <1>1, <1>2, RespondKeeps

\* The reply of a logout.
LogoutReplies == {WithCookie("clear"), Reply("ok", "keep", None)}

\* It brings no token.
LEMMA LogoutRepliesPlain == LogoutReplies \subseteq Replies
  BY PlainReplies DEF LogoutReplies, WithCookie, Answers

\* ... and a logout.
LEMMA EngineLogoutKeeps ==
  ASSUME Invariant, NEW r \in Requests, NEW t, NEW reply \in LogoutReplies,
         EngineLogoutThen(r, t, reply),
         UNCHANGED <<config, found, jar, bearer, loggedOut>>
  PROVE  Invariant'
  <1>1. CASE RespondOnly(r, "error")
    BY <1>1, RespondOnlyKeeps DEF Answers
  <1>2. CASE /\ sessions' \subseteq sessions
             /\ Respond(r, reply) /\ UNCHANGED minted
    <2>1. reply \in Replies'
      BY <1>2, LogoutRepliesPlain DEF Replies
    <2>2. sessions' \subseteq minted' /\ minted' \subseteq Tokens
          /\ minted \subseteq minted'
      BY <1>2 DEF Invariant, Typed
    <2> QED BY <1>2, <2>1, <2>2, RespondKeeps
  <1>3. (IF found THEN sessions \ {t} ELSE sessions) \subseteq sessions
    OBVIOUS
  <1> QED BY <1>1, <1>2, <1>3 DEF EngineLogoutThen

\* A step that changes one request and may end sessions.
LEMMA EntryKeeps ==
  ASSUME Invariant, NEW r \in Requests, NEW e \in Entries,
         req' = [req EXCEPT ![r] = e], sessions' \subseteq sessions,
         UNCHANGED <<config, found, minted, jar, bearer, loggedOut>>
  PROVE  Invariant'
  <1>1. Entries' = Entries
    BY DEF Entries, Replies
  <1>2. Typed'
    BY <1>1 DEF Invariant, Typed
  <1>3. \A v : SessionCookie(v)' = SessionCookie(v)
    BY DEF SessionCookie, CookieName, SetPath
  <1>4. JarOK'
    BY <1>3 DEF Invariant, JarOK
  <1> QED BY <1>2, <1>4 DEF Invariant

-----------------------------------------------------------------------------
\* Every step preserves the invariant.

\* The middleware hands a request on.
LEMMA PassKeeps ==
  ASSUME Invariant, NEW r \in Requests, NEW headers \in Headers,
         Pass(r, headers), sessions' \subseteq sessions,
         UNCHANGED <<config, found, minted, jar, bearer, loggedOut>>
  PROVE  Invariant'
  <1> DEFINE e1 == [req[r] EXCEPT !.at = "handling"]
             e2 == [e1 EXCEPT !.handed = headers]
             f1 == [req EXCEPT ![r].at = "handling"]
  <1>1. req \in [Requests -> Entries] /\ req[r] \in Entries
    BY DEF Invariant, Typed
  <1>2. e1 \in Entries
    BY <1>1 DEF Entries
  <1> HIDE DEF e1
  <1>3. e2 \in Entries
    BY <1>2 DEF Entries
  <1> HIDE DEF e2
  <1>4. f1 = [req EXCEPT ![r] = e1]
    BY DEF e1
  <1>5. req' = [f1 EXCEPT ![r].handed = headers]
    BY DEF Pass
  <1> HIDE DEF f1
  <1>6. f1[r] = e1
    BY <1>1, <1>4
  <1>7. req' = [f1 EXCEPT ![r] = e2]
    BY <1>5, <1>6 DEF e2
  <1>8. req' = [req EXCEPT ![r] = e2]
    BY <1>1, <1>4, <1>7
  <1> QED BY <1>3, <1>8, EntryKeeps

\* ... or answers it itself.
LEMMA AdmitKeeps ==
  ASSUME Invariant, NEW r \in Requests, Admit(r)
  PROVE  Invariant'
  <1>1. UNCHANGED <<config, found, minted, jar, bearer, loggedOut>>
        /\ sessions' \subseteq sessions
    BY DEF Admit, Validation
  <1>2. ASSUME NEW status \in Answers, Refuse(r, status)
        PROVE  Invariant'
    BY <1>1, <1>2, RefuseKeeps
  <1>3. {"forbidden", "unauthorized"} \subseteq Answers
    BY DEF Answers
  <1>4. req[r].headers \in Headers
    BY DEF Invariant, Typed, Entries
  <1>5. ASSUME Pass(r, req[r].headers) \/ Pass(r, NoHeaders)
        PROVE  Invariant'
    BY <1>1, <1>4, <1>5, PassKeeps, IdleTyped
  <1>6. Pass(r, req[r].headers) \/ Pass(r, NoHeaders)
        \/ Refuse(r, "forbidden") \/ Refuse(r, "unauthorized")
    BY Zenon DEF Admit, AuthMiddleware, RequireAuthMiddleware, PermissionMiddleware
  <1> QED BY <1>2, <1>3, <1>5, <1>6

\* The client sends what it has.
LEMMA SendKeeps ==
  ASSUME Invariant, NEW r \in Requests, Send(r)
  PROVE  Invariant'
  <1>1. PICK op \in Operations, auth \in {"absent", "junk"} \cup ({bearer} \ {None}),
             origin \in {"absent", "expected", "other"} :
          req' = [req EXCEPT ![r] =
            SentAs(op, [cookies |-> jar, auth |-> auth, origin |-> origin])]
    BY DEF Send, SentAs
  <1> DEFINE h == [cookies |-> jar, auth |-> auth, origin |-> origin]
             e == Entry("sent", op, h, NoHeaders, NoReply)
  <1>2. req' = [req EXCEPT ![r] = e]
    BY <1>1, SentEntry
  <1>3. jar \subseteq Cookie
    <2>1. \A c \in jar : c = Theme \/ \E v \in Tokens : c = SessionCookie(v)
      BY DEF Invariant, JarOK, Typed
    <2> QED BY <2>1, CookieFacts DEF Invariant, Typed
  <1>4. h \in Headers
    <2>1. auth \in Tokens \cup {"absent", "junk"}
      BY DEF Invariant, Typed
    <2> QED BY <1>3, <2>1 DEF Headers
  <1> HIDE DEF h
  <1>5. e \in Entries
    BY <1>4, IdleTyped DEF Entry, Entries
  <1> HIDE DEF e
  <1> QED BY <1>2, <1>5, EntryKeeps DEF Send

\* A reply sets or deletes the session cookie, and no other.
LEMMA DeliverKeeps ==
  ASSUME Invariant, NEW r \in Requests, Deliver(r)
  PROVE  Invariant'
  <1> DEFINE reply == req[r].reply
  <1>1. reply.cookie \in minted \cup {"keep", "clear"} /\ reply.token \in minted \cup {None}
    BY DEF Invariant, Typed, Entries, Replies
  <1>2. /\ ApplyCookie(reply.cookie)
        /\ bearer' \in {reply.token, None, bearer}
        /\ req' = [req EXCEPT ![r] = Idle]
        /\ UNCHANGED <<config, found, sessions, minted>>
    BY DEF Deliver
  <1> HIDE DEF reply
  <1>3. Entries' = Entries /\ \A v : SessionCookie(v)' = SessionCookie(v)
    BY <1>2 DEF Entries, Replies, SessionCookie, CookieName, SetPath
  <1>4. Typed'
    <2>1. req' \in [Requests -> Entries]
      BY <1>2, IdleTyped DEF Invariant, Typed
    <2>2. bearer' \in minted \cup {None}
      BY <1>1, <1>2 DEF Invariant, Typed
    <2>3. loggedOut' \in BOOLEAN
      BY <1>2 DEF ApplyCookie, Invariant, Typed
    <2> QED BY <1>2, <1>3, <2>1, <2>2, <2>3 DEF Invariant, Typed
  <1>5. \A path, c : c \in OtherCookies(path) /\ path = SetPath => c = Theme
    <2>1. \A path, c : c \in OtherCookies(path)
                      => c \in jar /\ ~ (c.name = CookieName /\ c.path = path)
      BY DEF OtherCookies
    <2> QED BY <2>1, CookieFacts DEF Invariant, JarOK, Typed
  <1>6. JarOK'
    <2>1. CASE UNCHANGED <<jar, loggedOut>>
      BY <1>2, <1>3, <2>1 DEF Invariant, JarOK
    <2>2. CASE jar' = OtherCookies(DeletePath)
      <3>1. \A c \in jar' : c = Theme
        BY <1>5, <2>2, CookieFacts DEF Invariant, Typed
      <3> QED BY <3>1 DEF JarOK
    <2>3. CASE /\ reply.cookie \in Tokens
               /\ jar' = OtherCookies(SetPath) \cup {SessionCookie(reply.cookie)}
               /\ loggedOut' = FALSE
      <3>1. \A c \in jar' : c = Theme \/ c = SessionCookie(reply.cookie)
        BY <1>5, <2>3
      <3>2. reply.cookie \in minted
        BY <1>1, <2>3, CredentialsAssumption
      <3> QED BY <1>2, <1>3, <2>3, <3>1, <3>2 DEF JarOK
    <2> QED BY <1>2, <2>1, <2>2, <2>3 DEF ApplyCookie, SessionCookie
  <1> QED BY <1>4, <1>6 DEF Invariant

\* The server functions answer with what the engine gave them.
LEMMA HandlersKeep ==
  ASSUME Invariant, NEW r \in Requests,
         \/ GetCurrentUser(r) \/ LoginCookie(r) \/ LoginBearer(r)
         \/ LogoutCurrent(r) \/ RegistryLogout(r)
  PROVE  Invariant'
  <1>1. UNCHANGED <<config, found, jar, bearer, loggedOut>>
    BY Zenon DEF GetCurrentUser, LoginCookie, LoginBearer, LogoutCurrent, RegistryLogout
  <1>2. ASSUME NEW answer \in Answers, RespondOnly(r, answer)
        PROVE  Invariant'
    BY <1>1, <1>2, RespondOnlyKeeps
  <1>3. {"ok", "error", "csrf", "anonymous", "user"} \subseteq Answers
    BY DEF Answers
  <1>4. CASE GetCurrentUser(r)
    <2>1. \A h : CurrentUser(h) \subseteq Answers
      BY DEF CurrentUser, Answers
    <2>2. UNCHANGED minted /\ sessions' \subseteq sessions
      BY <1>4 DEF GetCurrentUser, Validation
    <2>3. \E answer \in Answers : Refuse(r, answer)
      BY <1>4, <2>1 DEF GetCurrentUser
    <2> QED BY <1>1, <2>2, <2>3, RefuseKeeps
  <1>5. CASE LoginCookie(r)
    <2>1. CASE RespondOnly(r, "csrf") \/ RespondOnly(r, "error")
      BY <1>2, <1>3, <2>1
    <2>2. CASE \E t \in Tokens : EngineLogin(t) /\ Respond(r, WithCookie(t))
      BY <1>1, <2>2, EngineLoginKeeps
    <2> QED BY <1>5, <2>1, <2>2, Zenon DEF LoginCookie
  <1>6. CASE LoginBearer(r)
    <2>1. CASE RespondOnly(r, "error")
      BY <1>2, <1>3, <2>1
    <2>2. CASE \E t \in Tokens : EngineLogin(t) /\ Respond(r, Reply("ok", "keep", t))
      BY <1>1, <2>2, EngineLoginKeeps
    <2> QED BY <1>6, <2>1, <2>2, Zenon DEF LoginBearer
  <1>7. ASSUME NEW t, NEW reply \in LogoutReplies, EngineLogoutThen(r, t, reply)
        PROVE  Invariant'
    BY <1>1, <1>7, EngineLogoutKeeps
  <1>8. CASE LogoutCurrent(r)
    <2>1. \/ RespondOnly(r, "csrf") \/ RespondOnly(r, "ok")
          \/ \E t : \E reply \in LogoutReplies : EngineLogoutThen(r, t, reply)
      BY <1>8 DEF LogoutCurrent, LogoutReplies
    <2> QED BY <1>2, <1>3, <1>7, <2>1
  <1>9. CASE RegistryLogout(r)
    <2> DEFINE reply == WithCookie("clear")
    <2>1. reply \in LogoutReplies
      BY DEF LogoutReplies
    <2>2. \/ RespondOnly(r, "csrf")
          \/ \E t : EngineLogoutThen(r, t, reply)
          \/ Respond(r, reply) /\ UNCHANGED <<sessions, minted>>
      BY <1>9, Zenon DEF RegistryLogout
    <2> HIDE DEF reply
    <2>3. CASE Respond(r, reply) /\ UNCHANGED <<sessions, minted>>
      <3>1. reply \in Replies'
        BY <2>1, <2>3, LogoutRepliesPlain DEF Replies
      <3> QED BY <1>1, <2>3, <3>1, RespondKeeps DEF Invariant, Typed
    <2> QED BY <1>2, <1>3, <1>7, <2>1, <2>2, <2>3
  <1> QED BY <1>4, <1>5, <1>6, <1>8, <1>9

\* The jar and the requests start empty.
LEMMA Starts ==
  ASSUME Init
  PROVE  Invariant
  <1>1. config \in Config /\ found \in BOOLEAN /\ minted = {} /\ sessions = {} /\ bearer = None
        /\ loggedOut = FALSE /\ req = [r \in Requests |-> Idle]
        /\ \A c \in jar : c = Theme
    BY CredentialsAssumption, JarsAssumption DEF Init
  <1>2. Typed
    BY <1>1, IdleTyped DEF Typed
  <1> QED BY <1>1, <1>2 DEF Invariant, JarOK

\* The invariant holds in every state the system reaches.
LEMMA Reached == Spec => []Invariant
  <1>1. Init => Invariant
    BY Starts
  <1>2. Invariant /\ [Next]_vars => Invariant'
    <2> SUFFICES ASSUME Invariant, [Next]_vars PROVE Invariant'
      OBVIOUS
    <2>1. ASSUME UNCHANGED <<config, minted, jar, bearer, req, loggedOut>>,
                 sessions' \subseteq sessions, found' \in BOOLEAN
          PROVE  Invariant'
      <3>1. Entries' = Entries /\ \A v : SessionCookie(v)' = SessionCookie(v)
        BY <2>1 DEF Entries, Replies, SessionCookie, CookieName, SetPath
      <3>2. Typed'
        BY <2>1, <3>1 DEF Invariant, Typed
      <3>3. JarOK'
        BY <2>1, <3>1 DEF Invariant, JarOK
      <3> QED BY <3>2, <3>3 DEF Invariant
    <2>2. CASE UNCHANGED vars
      BY <2>1, <2>2 DEF vars, Invariant, Typed
    <2>3. CASE EndSession \/ HideOrShowUser
      BY <2>1, <2>3 DEF EndSession, HideOrShowUser, Invariant, Typed
    <2>4. ASSUME NEW r \in Requests, Send(r) \/ Serve(r) \/ Deliver(r) \/ Lose(r)
          PROVE  Invariant'
      <3>1. CASE Lose(r)
        BY <3>1, IdleTyped, EntryKeeps DEF Lose
      <3> QED BY <2>4, <3>1, SendKeeps, AdmitKeeps, HandlersKeep, DeliverKeeps DEF Serve
    <2> QED BY <2>2, <2>3, <2>4 DEF Next
  <1> QED BY <1>1, <1>2, PTL DEF Spec

-----------------------------------------------------------------------------
\* What one answer of the server does.

\* A step in which request r is answered by its server function.
LEMMA HandledBy ==
  ASSUME Invariant, [Next]_vars, NEW r \in Requests, Handled(r)
  PROVE  \/ GetCurrentUser(r) \/ LoginCookie(r) \/ LoginBearer(r)
         \/ LogoutCurrent(r) \/ RegistryLogout(r)
  <1>1. req[r].at = "handling" /\ req'[r].at = "answered" /\ req'[r] # req[r]
    BY DEF Handled
  <1>2. req \in [Requests -> Entries]
    BY DEF Invariant, Typed
  <1>3. PICK s \in Requests : Send(s) \/ Serve(s) \/ Deliver(s) \/ Lose(s)
    BY <1>1 DEF Next, EndSession, HideOrShowUser, vars
  <1>4. CASE s = r
    BY <1>1, <1>3, <1>4 DEF Send, Serve, Admit, Deliver, Lose
  <1>5. CASE s # r
    <2>1. req'[r] = req[r]
      <3>1. CASE \E reply : Respond(s, reply)
        BY <1>5, <3>1, Responds DEF Invariant
      <3>2. CASE \E e : req' = [req EXCEPT ![s] = e]
        BY <1>2, <1>5, <3>2
      <3>3. CASE \E headers : Pass(s, headers)
        BY <1>2, <1>5, <3>3 DEF Pass
      <3>4. CASE Admit(s)
        <4>1. \/ \E headers : Pass(s, headers)
              \/ \E status : Refuse(s, status)
          BY <3>4, Zenon DEF Admit, AuthMiddleware, RequireAuthMiddleware,
             PermissionMiddleware
        <4> QED BY <3>1, <3>3, <4>1 DEF Refuse
      <3>5. CASE GetCurrentUser(s) \/ LoginCookie(s) \/ LoginBearer(s)
                 \/ LogoutCurrent(s) \/ RegistryLogout(s)
        <4>1. \/ \E answer : RespondOnly(s, answer)
              \/ \E answer : Refuse(s, answer)
              \/ \E reply : Respond(s, reply)
              \/ \E t, reply : EngineLogoutThen(s, t, reply)
          BY <3>5, Zenon DEF GetCurrentUser, LoginCookie, LoginBearer,
             LogoutCurrent, RegistryLogout
        <4> QED BY <3>1, <4>1 DEF RespondOnly, Refuse, EngineLogoutThen
      <3>6. CASE Send(s) \/ Deliver(s) \/ Lose(s)
        BY <3>2, <3>6 DEF Send, Deliver, Lose
      <3> QED BY <1>3, <3>4, <3>5, <3>6 DEF Serve
    <2> QED BY <1>1, <2>1
  <1> QED BY <1>4, <1>5

\* What the answer tells, and what it did to the sessions.
LEMMA AnswerTells ==
  ASSUME Invariant, NEW r \in Requests
  PROVE  /\ \A answer : RespondOnly(r, answer)
              => /\ req'[r].reply = Reply(answer, "keep", None)
                 /\ sessions' = sessions
         /\ \A t, reply : EngineLogoutThen(r, t, reply)
              => \/ /\ req'[r].reply = Reply("error", "keep", None)
                    /\ sessions' = sessions
                 \/ /\ req'[r].reply = reply
                    /\ t \notin sessions' \/ ~ found
         /\ \A reply : Respond(r, reply) => req'[r].reply = reply
         /\ \A answer : Refuse(r, answer)
              => req'[r].reply = Reply(answer, "keep", None)
         /\ \A answer, cookie, token :
              /\ Reply(answer, cookie, token).answer = answer
              /\ Reply(answer, cookie, token).cookie = cookie
  <1>1. \A reply : Respond(r, reply) => req'[r].reply = reply
    BY Responds DEF Invariant
  <1>2. \A answer, cookie, token :
              /\ Reply(answer, cookie, token).answer = answer
              /\ Reply(answer, cookie, token).cookie = cookie
    BY DEF Reply
  <1>3. \A answer : RespondOnly(r, answer)
              => /\ req'[r].reply = Reply(answer, "keep", None)
                 /\ sessions' = sessions
    BY <1>1 DEF RespondOnly
  <1>4. ASSUME NEW t, NEW reply, EngineLogoutThen(r, t, reply)
        PROVE  \/ /\ req'[r].reply = Reply("error", "keep", None)
                  /\ sessions' = sessions
               \/ /\ req'[r].reply = reply
                  /\ t \notin sessions' \/ ~ found
    <2>1. CASE RespondOnly(r, "error")
      BY <2>1, <1>3
    <2>2. CASE /\ Respond(r, reply)
               /\ sessions' = IF found THEN sessions \ {t} ELSE sessions
      BY <2>2, <1>1
    <2> QED BY <1>4, <2>1, <2>2 DEF EngineLogoutThen
  <1>5. \A answer : Refuse(r, answer)
              => req'[r].reply = Reply(answer, "keep", None)
    BY <1>1 DEF Refuse
  <1> QED BY <1>1, <1>2, <1>3, <1>4, <1>5

\* The bearer token of a request, if it has one.
LEMMA BearerFacts ==
  ASSUME NEW h
  PROVE  /\ BearerToken(h) = None <=> h.auth \notin Tokens
         /\ BearerToken(h) # None => CurrentToken(h) = BearerToken(h)
         /\ BearerToken(h) = None => CurrentToken(h) = extract_session_id(h.cookies)
  BY CredentialsAssumption DEF BearerToken, CurrentToken

\* A request without a usable bearer token that comes from another origin is
\* told of no user, and only a request from an expected one logs its cookie in
\* or out (current_user, login_cookie, logout_current of the context and of
\* the registry); one without an Origin can at most have current_user delete
\* the session of a user that is not found.
THEOREM OriginIsChecked == Spec => OriginGuardsCookies
  <1>1. ASSUME Invariant, [Next]_vars, NEW r \in Requests, Handled(r),
               req[r].op # "login_bearer", config.origins,
               req[r].handed.auth \notin Tokens, req[r].handed.origin # "expected"
        PROVE  /\ \/ sessions' = sessions
                  \/ /\ req[r].op = "current_user" /\ ~ found
                     /\ req[r].handed.origin = "absent"
               /\ req[r].handed.origin = "other" => req'[r].reply.answer # "user"
    <2> DEFINE h == req[r].handed
    <2>1. BearerToken(h) = None /\ ~ validate_cookie_origin(h.origin)
          /\ (h.origin \notin {"absent", "expected"} => ~ validate_origin(h.origin))
      BY <1>1, BearerFacts DEF validate_cookie_origin, validate_origin
    <2>2. extract_session_id(h.cookies) # None => h.cookies # {}
      BY Extracted
    <2>3. ASSUME NEW answer, RespondOnly(r, answer), answer # "user"
          PROVE  sessions' = sessions /\ req'[r].reply.answer # "user"
      BY <1>1, <2>3, AnswerTells
    <2>4. CASE GetCurrentUser(r)
      <3>1. PICK outcome \in CurrentUser(h) : Validation(h, outcome) /\ Refuse(r, outcome)
        BY <2>4 DEF GetCurrentUser
      <3>2. h.origin \notin {"absent", "expected"} => outcome \in {"anonymous", "csrf"}
        BY <2>1, <3>1, BearerFacts DEF CurrentUser, UsedCookie
      <3>3. h.origin = "other" => req'[r].reply.answer # "user"
        BY <1>1, <3>1, <3>2, AnswerTells
      <3>4. req[r].op = "current_user"
        BY <2>4 DEF GetCurrentUser, Handling
      <3>5. CASE sessions' # sessions
        <4>1. outcome = "anonymous" /\ CurrentToken(h) \in sessions
          BY <3>1, <3>5 DEF Validation
        <4>2. CurrentToken(h) # None
          BY <1>1, <4>1, CredentialsAssumption DEF Invariant, Typed
        <4>3. ~ Validates(CurrentToken(h))
          BY <3>1, <4>1, <4>2 DEF CurrentUser
        <4>4. ~ found
          BY <4>1, <4>3 DEF Validates
        <4>5. h.origin \in {"absent", "expected"}
          BY <2>1, <3>1, <4>1, <4>2 DEF CurrentUser, UsedCookie
        <4> QED BY <1>1, <3>3, <3>4, <4>4, <4>5
      <3> QED BY <3>3, <3>5
    <2>5. CASE LoginCookie(r)
      BY <2>1, <2>3, <2>5 DEF LoginCookie
    <2>6. CASE LoginBearer(r)
      BY <1>1, <2>6 DEF LoginBearer, Handling
    <2>7. CASE LogoutCurrent(r)
      <3>1. RespondOnly(r, "csrf") \/ RespondOnly(r, "ok")
        BY <2>1, <2>2, <2>7 DEF LogoutCurrent
      <3> QED BY <2>3, <3>1
    <2>8. CASE RegistryLogout(r)
      <3>1. \/ RespondOnly(r, "csrf")
            \/ Respond(r, WithCookie("clear")) /\ UNCHANGED sessions
        BY <2>1, <2>8 DEF RegistryLogout
      <3>2. WithCookie("clear").answer # "user"
        BY AnswerTells, <1>1 DEF WithCookie
      <3> QED BY <1>1, <2>3, <3>1, <3>2, AnswerTells
    <2> QED BY <1>1, <2>4, <2>5, <2>6, <2>7, <2>8, HandledBy
  <1>2. Invariant /\ [Next]_vars =>
          [\A r \in Requests :
             LET h == req[r].handed IN
             /\ Handled(r) /\ req[r].op # "login_bearer"
             /\ config.origins /\ h.auth \notin Tokens /\ h.origin # "expected"
             => /\ \/ sessions' = sessions
                   \/ /\ req[r].op = "current_user" /\ ~found
                      /\ h.origin = "absent"
                /\ h.origin = "other" => req'[r].reply.answer # "user"]_vars
    BY <1>1
  <1> QED BY <1>2, Reached, PTL DEF Spec, OriginGuardsCookies

\* Either logout that answers Ok leaves no session that current_user would
\* validate for the same headers: it has ended it, or the UserStore does not
\* find its user (logout_current of the context and of the registry).
THEOREM LogoutEndsTheSession == Spec => LogoutEndsWhatValidates
  <1>1. ASSUME Invariant, [Next]_vars, NEW r \in Requests, Handled(r),
               IsLogout(req[r].op), req'[r].reply.answer = "ok"
        PROVE  ~ (CurrentToken(req[r].handed) \in sessions' /\ found')
    <2> DEFINE h == req[r].handed
               cookie == extract_session_id(h.cookies)
    <2>1. None \notin sessions
      BY <1>1, CredentialsAssumption DEF Invariant, Typed
    <2>2. ASSUME NEW t, NEW reply, EngineLogoutThen(r, t, reply), found' = found
          PROVE  t \notin sessions' \/ ~ found'
      BY <1>1, <2>2, AnswerTells
    <2>3. ~ RespondOnly(r, "csrf")
      BY <1>1, AnswerTells
    <2>4. CASE LogoutCurrent(r)
      <3>1. \/ CurrentToken(h) = None /\ RespondOnly(r, "ok")
            \/ \E reply : EngineLogoutThen(r, CurrentToken(h), reply)
        BY <2>3, <2>4, BearerFacts DEF LogoutCurrent
      <3>2. found' = found
        BY <2>4 DEF LogoutCurrent
      <3> QED BY <1>1, <2>1, <2>2, <3>1, <3>2, AnswerTells
    <2>5. CASE RegistryLogout(r)
      <3>1. \/ CurrentToken(h) = None /\ UNCHANGED sessions
            \/ EngineLogoutThen(r, CurrentToken(h), WithCookie("clear"))
        BY <2>3, <2>5, BearerFacts DEF RegistryLogout
      <3>2. found' = found
        BY <2>5 DEF RegistryLogout
      <3> QED BY <2>1, <2>2, <3>1, <3>2
    <2>6. LogoutCurrent(r) \/ RegistryLogout(r)
      BY <1>1, HandledBy DEF IsLogout, GetCurrentUser, LoginCookie, LoginBearer, Handling
    <2> QED BY <2>4, <2>5, <2>6
  <1>2. Invariant /\ [Next]_vars =>
          [\A r \in Requests :
             /\ Handled(r) /\ IsLogout(req[r].op)
             /\ req'[r].reply.answer = "ok"
             => ~ (CurrentToken(req[r].handed) \in sessions' /\ found')]_vars
    BY <1>1
  <1> QED BY <1>2, Reached, PTL DEF Spec, LogoutEndsWhatValidates

\* The browser is told to drop its session cookie only when the session of the
\* cookie the handler was given no longer validates (it is gone, or its user is
\* not found), unless a bearer token came with it.
THEOREM ClearedOnlyWhenDead == Spec => ClearedCookieIsDead
  <1>1. ASSUME Invariant, [Next]_vars, NEW r \in Requests, Handled(r),
               req'[r].reply.cookie = "clear", BearerToken(req[r].handed) = None
        PROVE  ~ (/\ extract_session_id(req[r].handed.cookies) \in sessions'
                  /\ found')
    <2> DEFINE h == req[r].handed
               cookie == extract_session_id(h.cookies)
    <2>1. None \notin sessions
      BY <1>1, CredentialsAssumption DEF Invariant, Typed
    <2>2. ASSUME NEW reply, EngineLogoutThen(r, cookie, reply), found' = found
          PROVE  cookie \notin sessions' \/ ~ found'
      BY <1>1, <2>2, AnswerTells
    <2>3. \A answer : ~ RespondOnly(r, answer) /\ ~ Refuse(r, answer)
      BY <1>1, AnswerTells
    <2>4. ASSUME NEW t \in Tokens,
                 Respond(r, WithCookie(t)) \/ Respond(r, Reply("ok", "keep", t))
          PROVE  FALSE
      <3>1. "clear" \notin Tokens
        BY CredentialsAssumption
      <3>2. \A reply : Respond(r, reply) => reply.cookie = "clear"
        BY <1>1, AnswerTells
      <3>3. WithCookie(t).cookie \in {t, "keep"}
        BY <1>1, AnswerTells DEF WithCookie
      <3>4. Reply("ok", "keep", t).cookie = "keep"
        BY <1>1, AnswerTells
      <3> QED BY <2>4, <3>1, <3>2, <3>3, <3>4
    <2>6. ~ GetCurrentUser(r) /\ ~ LoginCookie(r) /\ ~ LoginBearer(r)
      <3>1. ~ GetCurrentUser(r)
        BY <2>3, Zenon DEF GetCurrentUser
      <3>2. ~ LoginCookie(r)
        BY <2>3, <2>4, Zenon DEF LoginCookie
      <3>3. ~ LoginBearer(r)
        BY <2>3, <2>4, Zenon DEF LoginBearer
      <3> QED BY <3>1, <3>2, <3>3
    <2>7. CASE LogoutCurrent(r)
      <3>1. \E reply : EngineLogoutThen(r, cookie, reply)
        BY <1>1, <2>3, <2>7 DEF LogoutCurrent
      <3>2. found' = found
        BY <2>7 DEF LogoutCurrent
      <3> QED BY <2>2, <3>1, <3>2
    <2>8. CASE RegistryLogout(r)
      <3>1. \/ cookie = None /\ UNCHANGED sessions
            \/ EngineLogoutThen(r, cookie, WithCookie("clear"))
        BY <1>1, <2>3, <2>8 DEF RegistryLogout
      <3>2. found' = found
        BY <2>8 DEF RegistryLogout
      <3> QED BY <2>1, <2>2, <3>1, <3>2
    <2> QED BY <1>1, <2>6, <2>7, <2>8, HandledBy
  <1>2. Invariant /\ [Next]_vars =>
          [\A r \in Requests :
             /\ Handled(r) /\ req'[r].reply.cookie = "clear"
             /\ BearerToken(req[r].handed) = None
             => ~ (/\ extract_session_id(req[r].handed.cookies) \in sessions'
                   /\ found')]_vars
    BY <1>1
  <1> QED BY <1>2, Reached, PTL DEF Spec, ClearedCookieIsDead

\* Every reachable state is well typed; only minted tokens have a session, are
\* in the jar or are stored by the client, and the jar never holds two session
\* cookies.
THEOREM CredentialsTypeCorrect == Spec => []TypeOK
  <1>1. Invariant => TypeOK
    <2> SUFFICES ASSUME Invariant PROVE TypeOK
      OBVIOUS
    <2>1. \A c \in jar : c = Theme \/ \E v \in minted : v \in Tokens /\ c = SessionCookie(v)
      BY DEF Invariant, JarOK, Typed
    <2>2. jar \subseteq Cookie /\ \A c \in jar : c # Theme => c.value \in minted
      BY <2>1, CookieFacts DEF Invariant, Typed
    <2>3. Replies \subseteq [answer : Answers, cookie : Tokens \cup {"keep", "clear"},
                           token : Tokens \cup {None}]
      BY DEF Replies, Invariant, Typed
    <2>4. Entries \subseteq
            [at : {"idle", "sent", "handling", "answered"},
             op : Operations \cup {"none"},
             headers : Headers, handed : Headers,
             reply : [answer : Answers, cookie : Tokens \cup {"keep", "clear"},
                      token : Tokens \cup {None}]]
      BY <2>3 DEF Entries
    <2> QED BY <2>2, <2>4 DEF Invariant, Typed, JarOK, TypeOK
  <1> QED BY <1>1, Reached, PTL

\* After a reply that clears the cookie the browser sends no session cookie
\* until a login sets one again: build_delete_cookie_header names the cookie
\* and the path of build_set_cookie_header, with host_only and without.
THEOREM LogoutReachesTheJar == Spec => []LoggedOutStays
  <1>1. Invariant => LoggedOutStays
    BY CookieFacts, Extracted DEF Invariant, Typed, JarOK, LoggedOutStays
  <1> QED BY <1>1, Reached, PTL
=============================================================================
