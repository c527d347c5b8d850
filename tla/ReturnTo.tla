------------------------------- MODULE ReturnTo -------------------------------
(***************************************************************************)
(* Return-to navigation (dioxus/return_to.rs) and its use by RouteGate      *)
(* (components/route_gate.rs): a gate parks the URL a visitor was bounced   *)
(* from, the login page pops it after the sign-in, as the module's          *)
(* documentation shows.  All tabs share the one localStorage key.           *)
(***************************************************************************)
EXTENDS Naturals

CONSTANTS
  Visitors,    \* browser tabs
  Urls,        \* URLs, as far as the filter tells them apart
  Foreign,     \* what other code may have put under the key
  MaxBounces   \* bound: redirects explored

VARIABLES
  parked,      \* the value under the key and the bounce that put it there
  visitor,     \* each tab: away, at the login page, or between get and remove
  bounces,     \* redirects so far
  consumed,    \* history: bounces whose destination was returned
  misled,      \* history: a destination older than the tab's own
  twice        \* history: a destination returned again by calls that did not overlap

returnVars == <<parked, visitor, bounces, consumed, misled, twice>>

NotParked == [url |-> [name |-> "none"], bounce |-> 0]
Away == [at |-> "away", own |-> 0, read |-> NotParked, alone |-> TRUE]

\* A relative path, with no scheme, whitespace or control character.
is_safe_return_to(u) == u.rooted /\ ~ u.double_slash /\ ~ u.colon /\ ~ u.blank

\* What the key holds after the call: an unsafe URL leaves it as it was.
capture_return_to(old, new) == IF is_safe_return_to(new.url) THEN new ELSE old

\* Mutant: the first destination parked is kept.
RedirectKeepsFirst(v, u) ==
  LET here == [url |-> u, bounce |-> bounces + 1] IN
  /\ visitor[v].at = "away" /\ bounces < MaxBounces
  /\ bounces' = bounces + 1
  /\ parked' = IF parked = NotParked THEN capture_return_to(parked, here) ELSE parked
  /\ visitor' = [visitor EXCEPT ![v] = [Away EXCEPT !.at = "login",
       !.own = IF is_safe_return_to(u) THEN here.bounce ELSE 0]]
  /\ UNCHANGED <<consumed, misled, twice>>

\* The effect of RouteGate: park the URL, go to the login page.
Redirect(v, u) ==
  LET here == [url |-> u, bounce |-> bounces + 1] IN
  /\ visitor[v].at = "away" /\ bounces < MaxBounces
  /\ bounces' = bounces + 1
  /\ parked' = capture_return_to(parked, here)
  /\ visitor' = [visitor EXCEPT ![v] = [Away EXCEPT !.at = "login",
       !.own = IF is_safe_return_to(u) THEN here.bounce ELSE 0]]
  /\ UNCHANGED <<consumed, misled, twice>>

\* The visitor goes to the login page by a link.
GoToLogin(v) ==
  /\ visitor[v].at = "away"
  /\ visitor' = [visitor EXCEPT ![v] = [Away EXCEPT !.at = "login"]]
  /\ UNCHANGED <<parked, bounces, consumed, misled, twice>>

\* The visitor leaves it; the application may call clear_return_to.
Leave(v) ==
  /\ visitor[v].at = "login"
  /\ visitor' = [visitor EXCEPT ![v] = Away]
  /\ \/ parked' = NotParked
     \/ UNCHANGED parked
  /\ UNCHANGED <<bounces, consumed, misled, twice>>

\* Signed in, consume_return_to reads the key ...
ConsumeGet(v) ==
  /\ visitor[v].at = "login"
  /\ LET alone == \A w \in Visitors : visitor[w].at # "consuming" IN
     visitor' = [w \in Visitors |->
       IF w = v THEN IF parked = NotParked THEN Away
                     ELSE [visitor[v] EXCEPT !.at = "consuming", !.read = parked,
                                             !.alone = alone]
       ELSE [visitor[w] EXCEPT !.alone = FALSE]]
  /\ UNCHANGED <<parked, bounces, consumed, misled, twice>>

\* The destination a login is sent to: its bounce, 0 for the default.
Destination(v) ==
  IF visitor[v].read.bounce > 0 /\ is_safe_return_to(visitor[v].read.url)
  THEN visitor[v].read.bounce ELSE 0

Returned(v) ==
  /\ visitor' = [visitor EXCEPT ![v] = Away]
  /\ consumed' = consumed \cup ({Destination(v)} \ {0})
  /\ twice' = (twice \/ (visitor[v].alone /\ Destination(v) \in consumed))
  /\ misled' = (misled \/ Destination(v) \in 1..(visitor[v].own - 1))
  /\ UNCHANGED bounces

\* Mutant: the key is not removed.
ConsumeRemoveForgets(v) ==
  /\ visitor[v].at = "consuming"
  /\ Returned(v)
  /\ UNCHANGED parked

\* ... and removes it, whoever parked what is there by now.
ConsumeRemove(v) ==
  /\ visitor[v].at = "consuming"
  /\ parked' = NotParked
  /\ Returned(v)

ReturnInit ==
  /\ parked \in {NotParked} \cup {[url |-> u, bounce |-> 0] : u \in Foreign}
  /\ visitor = [v \in Visitors |-> Away]
  /\ bounces = 0 /\ consumed = {} /\ misled = FALSE /\ twice = FALSE

ReturnNext ==
  \E v \in Visitors :
    \/ \E u \in Urls : Redirect(v, u)
    \/ GoToLogin(v) \/ Leave(v) \/ ConsumeGet(v) \/ ConsumeRemove(v)

-----------------------------------------------------------------------------
\* A parked destination is returned to one login only, whatever the other tabs
\* do, unless the calls of two logins overlap between get and remove.
IntentOnce == ~ twice

\* A login that follows a bounce of its tab is never sent to a destination that
\* was parked before that bounce, in this tab or another, if the filter let the
\* tab's own destination in.
DestinationFresh == ~ misled
=============================================================================
