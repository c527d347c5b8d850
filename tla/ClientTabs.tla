------------------------------ MODULE ClientTabs ------------------------------
(***************************************************************************)
(* The browser tabs of one visitor: AuthProvider and Auth                   *)
(* (dioxus/provider.rs, context.rs), the restore probe (restore.rs,         *)
(* hooks/use_auth_restore.rs) and the cross-tab messages of CrossTabSync    *)
(* and AuthBroadcaster (sync.rs).                                           *)
(*                                                                         *)
(* The tabs share the cookie jar, hence the session.  A tab signs in and    *)
(* out as sync.rs and the examples show: it awaits the server function,     *)
(* sets its own status and tells the other tabs.  Between two awaits a tab  *)
(* runs alone, so each continuation is one step.  Messages of one tab to    *)
(* another arrive in order; messages of different tabs in any order.        *)
(***************************************************************************)
EXTENDS Sequences, Naturals

CONSTANTS
  Tabs,          \* browser tabs
  Users,         \* users that sign in
  None,          \* nobody
  ChannelProp,   \* the channel_name prop of CrossTabSync, or None
  Whoami,        \* the probe's server function: "current_user" or "require_user"
  Skew,          \* may a tab run a deployment whose User differs on the wire?
  MaxCalls       \* bound: sign-ins and sign-outs explored

ASSUME TabsAssumption ==
  /\ Whoami \in {"current_user", "require_user"}
  /\ Skew \in BOOLEAN
  /\ MaxCalls \in Nat
  /\ None \notin Users
  /\ (Users \cup {None}) \cap {"closed", "Loading", "Unauthenticated", "Logout",
                              "rejected", "unknown"} = {}

VARIABLES
  session,    \* the user of the session the cookie jar holds, or None
  status,     \* the AuthStatus of each tab; a user when authenticated
  listening,  \* tabs in which the effect of CrossTabSync has run
  probe,      \* the whoami resource of each tab
  call,       \* the sign-in or sign-out of each tab
  wire,       \* messages on the way: sender, receiver -> sequence
  calls,      \* sign-ins and sign-outs begun
  agreed,     \* history: was the last change of the session an undisturbed one?
  missed      \* history: tabs that did not hear the last message

vars == <<session, status, listening, probe, call, wire, calls, agreed, missed>>

Open == {t \in Tabs : status[t] # "closed"}

-----------------------------------------------------------------------------
\* The channel.

DefaultChannel == "dioxus-auth-sync"

ListenChannel == IF ChannelProp = None THEN DefaultChannel ELSE ChannelProp

\* CrossTabSync publishes SyncChannelName in its own scope, which has no
\* children; a page that emits is mounted beside it, under the same provider.
Provides == [CrossTabSync |-> ListenChannel]
ScopesAbovePage == {"AuthProvider", "Router", "Page"}

\* use_auth_broadcaster: the name found in its scope or above it.
EmitChannel ==
  IF ScopesAbovePage \cap DOMAIN Provides = {} THEN DefaultChannel
  ELSE Provides[CHOOSE s \in ScopesAbovePage \cap DOMAIN Provides : TRUE]

\* The tabs that hear what tab s posts.
Audience(s) ==
  {t \in listening \ {s} : EmitChannel = ListenChannel}

\* AuthBroadcaster::post: a message to every other tab on the channel.
Post(s, m) ==
  /\ wire' = [w \in Tabs \X Tabs |->
       IF w[1] = s /\ w[2] \in Audience(s) THEN Append(wire[w], m) ELSE wire[w]]
  /\ missed' = Open \ (Audience(s) \cup {s})

-----------------------------------------------------------------------------
\* The tabs.

NoProbe == [at |-> "none", answer |-> None]
NoCall == [at |-> "none", op |-> "none", user |-> None, ok |-> FALSE,
           alone |-> FALSE]

\* No sign-in or sign-out and no message is on its way.
Quiet == /\ \A t \in Tabs : call[t] = NoCall
         /\ \A w \in Tabs \X Tabs : wire[w] = <<>>

\* AuthProvider mounts with the default status, and AuthRestore asks whoami.
OpenTab(t) ==
  /\ status[t] = "closed"
  /\ status' = [status EXCEPT ![t] = "Loading"]
  /\ probe' = [probe EXCEPT ![t] = [NoProbe EXCEPT !.at = "sent"]]
  /\ UNCHANGED <<session, listening, call, wire, calls, agreed, missed>>

\* The effect of CrossTabSync opens the channel.
Listen(t) ==
  /\ t \in Open \ listening
  /\ listening' = listening \cup {t}
  /\ UNCHANGED <<session, status, probe, call, wire, calls, agreed, missed>>

\* What a tab posted survives it; what was on its way to it does not.
CloseTab(t) ==
  /\ t \in Open
  /\ status' = [status EXCEPT ![t] = "closed"]
  /\ listening' = listening \ {t}
  /\ missed' = missed \ {t}
  /\ probe' = [probe EXCEPT ![t] = NoProbe]
  /\ call' = [call EXCEPT ![t] = NoCall]
  /\ agreed' = (agreed /\ call[t] = NoCall)
  /\ wire' = [w \in Tabs \X Tabs |-> IF w[2] = t THEN <<>> ELSE wire[w]]
  /\ UNCHANGED <<session, calls>>

-----------------------------------------------------------------------------
\* The restore probe.

\* The answer of the server, or none that tells anything: no network, a
\* timeout, a 5xx.
AnswerOf(s) ==
  IF s = None /\ Whoami = "require_user" THEN "rejected" ELSE s

AnswerProbe(t, a) ==
  /\ probe[t].at = "sent"
  /\ probe' = [probe EXCEPT ![t] = [at |-> "answered", answer |-> a]]
  /\ UNCHANGED <<session, status, listening, call, wire, calls, agreed, missed>>

ServeProbe(t) == AnswerProbe(t, AnswerOf(session))
FailProbe(t) == AnswerProbe(t, "unknown")

\* Mutant: the answer itself becomes the status.
RestoredRaw(s, a) == IF a = "unknown" THEN s ELSE a

\* restore_verdict and use_auth_restore: the status a decided answer sets; an
\* answer that tells nothing leaves the status as it is.
Restored(s, a) ==
  CASE a \in Users -> a
    [] a \in {None, "rejected"} -> "Unauthenticated"
    [] a = "unknown" -> s

\* Mutant: only Ok decides, a 401 or 403 does not.
RestoreIgnoresRejection(t) ==
  /\ probe[t].at = "answered"
  /\ probe' = [probe EXCEPT ![t] = [NoProbe EXCEPT !.at = "rendered"]]
  /\ status' = [status EXCEPT ![t] =
       IF @ # "Loading" \/ probe[t].answer = "rejected"
       THEN @ ELSE Restored(@, probe[t].answer)]
  /\ UNCHANGED <<session, listening, call, wire, calls, agreed, missed>>

\* Mutant: a late probe overwrites a status that is decided.
RestoreUnguarded(t) ==
  /\ probe[t].at = "answered"
  /\ probe' = [probe EXCEPT ![t] = [NoProbe EXCEPT !.at = "rendered"]]
  /\ status' = [status EXCEPT ![t] = Restored(@, probe[t].answer)]
  /\ UNCHANGED <<session, listening, call, wire, calls, agreed, missed>>

\* The resource has its value and AuthRestore renders: only a Loading status is touched.
Restore(t) ==
  /\ probe[t].at = "answered"
  /\ probe' = [probe EXCEPT ![t] = [NoProbe EXCEPT !.at = "rendered"]]
  /\ status' = [status EXCEPT ![t] =
       IF @ # "Loading" THEN @ ELSE Restored(@, probe[t].answer)]
  /\ UNCHANGED <<session, listening, call, wire, calls, agreed, missed>>

\* The application asks again when a Loading tab gets the focus.
RetryProbe(t) ==
  /\ probe[t].at = "rendered" /\ status[t] = "Loading"
  /\ probe' = [probe EXCEPT ![t] = [NoProbe EXCEPT !.at = "sent"]]
  /\ UNCHANGED <<session, status, listening, call, wire, calls, agreed, missed>>

-----------------------------------------------------------------------------
\* Signing in and out.

\* A tab calls login_server or, signed in, logout_server.  A call that begins
\* while another call or a message is on its way disturbs both.
Begin(t) ==
  /\ t \in Open /\ call[t] = NoCall
  /\ calls < MaxCalls
  /\ calls' = calls + 1
  /\ \E op \in {"login", "logout"}, u \in Users \cup {None} :
       /\ (op = "login") = (u \in Users)
       /\ op = "logout" => status[t] \in Users
       /\ call' = [s \in Tabs |->
            IF s = t THEN [NoCall EXCEPT !.at = "sent", !.op = op, !.user = u,
                                         !.alone = Quiet]
            ELSE [call[s] EXCEPT !.alone = FALSE]]
  /\ agreed' = (agreed /\ Quiet)
  /\ UNCHANGED <<session, status, listening, probe, wire, missed>>

\* The server answers; the Set-Cookie of its reply reaches the jar.  A failed
\* sign-in changes nothing, a failed sign-out may have ended the session.
Answer(t) ==
  /\ call[t].at = "sent"
  /\ \E ok \in BOOLEAN :
       /\ call' = [call EXCEPT ![t].at = "answered", ![t].ok = ok]
       /\ \/ session' = call[t].user /\ (ok \/ call[t].op = "logout")
          \/ UNCHANGED session /\ ~ ok
  /\ UNCHANGED <<status, listening, probe, wire, calls, agreed, missed>>

\* Auth::set_user, then AuthBroadcaster::login.
SignedIn(t) ==
  /\ call[t].at = "answered" /\ call[t].op = "login"
  /\ call' = [call EXCEPT ![t] = NoCall]
  /\ \/ /\ call[t].ok
        /\ status' = [status EXCEPT ![t] = call[t].user]
        /\ Post(t, call[t].user)
        /\ agreed' = call[t].alone
     \/ /\ ~ call[t].ok
        /\ UNCHANGED <<status, wire, agreed, missed>>
  /\ UNCHANGED <<session, listening, probe, calls>>

\* Auth::logout, whatever the server answered, then AuthBroadcaster::logout.
SignedOut(t) ==
  /\ call[t].at = "answered" /\ call[t].op = "logout"
  /\ call' = [call EXCEPT ![t] = NoCall]
  /\ status' = [status EXCEPT ![t] = "Unauthenticated"]
  /\ Post(t, "Logout")
  /\ agreed' = (call[t].ok /\ call[t].alone)
  /\ UNCHANGED <<session, listening, probe, calls>>

\* The session expires, or is revoked from another device.
EndSession ==
  /\ session # None
  /\ session' = None
  /\ agreed' = FALSE
  /\ call' = [t \in Tabs |-> [call[t] EXCEPT !.alone = FALSE]]
  /\ UNCHANGED <<status, listening, probe, wire, calls, missed>>

-----------------------------------------------------------------------------
\* CrossTabSync: a message sets the status, whatever it is.  A user that does
\* not parse, sent by another deployment, is dropped.
Receive(t) ==
  \E s \in Tabs :
    LET m == Head(wire[<<s, t>>]) IN
    /\ wire[<<s, t>>] # <<>>
    /\ wire' = [wire EXCEPT ![<<s, t>>] = Tail(@)]
    /\ \/ /\ m = "Logout"
          /\ status' = [status EXCEPT ![t] = "Unauthenticated"]
          /\ UNCHANGED missed
       \/ /\ m \in Users
          /\ status' = [status EXCEPT ![t] = m]
          /\ UNCHANGED missed
       \/ /\ m \in Users /\ Skew
          /\ missed' = missed \cup {t}
          /\ UNCHANGED status
    /\ UNCHANGED <<session, listening, probe, call, calls, agreed>>

-----------------------------------------------------------------------------
Init ==
  /\ session \in Users \cup {None}
  /\ status = [t \in Tabs |-> "closed"]
  /\ listening = {}
  /\ probe = [t \in Tabs |-> NoProbe]
  /\ call = [t \in Tabs |-> NoCall]
  /\ wire = [w \in Tabs \X Tabs |-> <<>>]
  /\ calls = 0
  /\ agreed = TRUE
  /\ missed = {}

Probing(t) == ServeProbe(t) \/ FailProbe(t) \/ Restore(t) \/ RetryProbe(t)

Calling(t) == Begin(t) \/ Answer(t) \/ SignedIn(t) \/ SignedOut(t)

Next ==
  \/ \E t \in Tabs : OpenTab(t) \/ Listen(t) \/ CloseTab(t) \/ Probing(t)
                       \/ Calling(t) \/ Receive(t)
  \/ EndSession

\* A tab runs its event loop, and asks again while it knows nothing, as
\* use_auth_restore requires of the application; the server can be reached
\* again and again, so a probe asked again and again is answered.
Fairness ==
  \A t \in Tabs : /\ WF_vars(Restore(t)) /\ WF_vars(RetryProbe(t))
                  /\ SF_vars(ServeProbe(t))

Spec == Init /\ [][Next]_vars /\ Fairness

-----------------------------------------------------------------------------
(***************************************************************************)
(* Properties.                                                             *)
(***************************************************************************)

Statuses == Users \cup {"closed", "Loading", "Unauthenticated"}

\* Besides the types: only open tabs listen, probe, call and are sent messages.
TypeOK ==
  /\ session \in Users \cup {None}
  /\ status \in [Tabs -> Statuses]
  /\ listening \subseteq Open /\ missed \subseteq Open
  /\ probe \in [Tabs ->
       [at : {"none", "sent", "answered", "rendered"},
        answer : Users \cup {None, "rejected", "unknown"}]]
  /\ call \in [Tabs ->
       [at : {"none", "sent", "answered"}, op : {"none", "login", "logout"},
        user : Users \cup {None}, ok : BOOLEAN, alone : BOOLEAN]]
  /\ wire \in [Tabs \X Tabs -> Seq(Users \cup {"Logout"})]
  /\ calls \in Nat
  /\ agreed \in BOOLEAN
  /\ \A t \in Tabs \ Open : probe[t] = NoProbe /\ call[t] = NoCall
  /\ \A w \in Tabs \X Tabs : wire[w] # <<>> => w[2] \in listening

\* Once things are quiet after a sign-in or sign-out that nothing disturbed,
\* every tab that heard of it shows what the server would say, whatever the
\* tabs showed before and however late its own restore probe was answered; so
\* do the tabs opened since.
InSync ==
  Quiet /\ agreed =>
    \A t \in Open \ missed :
      status[t] # "Loading" =>
        status[t] = IF session = None THEN "Unauthenticated" ELSE session

\* A tab does not stay Loading for ever: neither a failed probe nor a rejected
\* one leaves it without an answer.
LoadingEnds == \A t \in Tabs : status[t] = "Loading" ~> status[t] # "Loading"
=============================================================================
