--------------------------- MODULE ClientTabsProof ---------------------------
(***************************************************************************)
(* Theorems about ClientTabs, for every set of tabs and users, whichever   *)
(* channel and probe the application uses, and for every bound.            *)
(***************************************************************************)
EXTENDS ClientTabs, SequenceTheorems, TLAPS

NoMessages(t) == \A s \in Tabs : wire[<<s, t>>] = <<>>

\* What the tabs should show, and what a tab posts to say it.
Shown == IF session = None THEN "Unauthenticated" ELSE session
Told == IF session = None THEN "Logout" ELSE session

\* An undisturbed call is the only one, and nothing else is on its way; once
\* it is answered Ok the session is the one it asked for.
AloneOK ==
  \A t \in Tabs :
    /\ agreed /\ call[t] # NoCall => call[t].alone
    /\ call[t].alone =>
         /\ \A s \in Tabs : s # t => call[s] = NoCall
         /\ \A w \in Tabs \X Tabs : wire[w] = <<>>
         /\ call[t].at = "answered" /\ call[t].ok => session = call[t].user

\* A call whose answer changed the session, or may have.
Changed(t) == call[t].at = "answered" /\ (call[t].ok \/ call[t].op = "logout")

\* A tab shows the session, or will: its probe has not been answered, or has
\* been answered with this session or nothing.
Fresh(t) ==
  /\ status[t] # "Loading" => status[t] = Shown
  /\ status[t] = "Loading" /\ probe[t].at = "answered"
       => probe[t].answer \in {AnswerOf(session), "unknown"}

\* While nothing disturbs the tabs, every message tells the session, and a tab
\* that missed none and has none to come is fresh.
Agreeing ==
  /\ \A w \in Tabs \X Tabs : \A i \in 1..Len(wire[w]) : wire[w][i] = Told
  /\ \A t \in Open \ missed : NoMessages(t) => Fresh(t)

Agreement == agreed /\ (\A t \in Tabs : ~ Changed(t)) => Agreeing

CallOK ==
  \A t \in Tabs :
    /\ call[t].op = "login" => call[t].user \in Users
    /\ call[t].op = "logout" => call[t].user = None
    /\ call[t] # NoCall => call[t].at # "none" /\ call[t].op # "none"

Invariant == TypeOK /\ CallOK /\ AloneOK /\ Agreement

Probes == [at : {"none", "sent", "answered", "rendered"},
           answer : Users \cup {None, "rejected", "unknown"}]

CallTypes == [at : {"none", "sent", "answered"}, op : {"none", "login", "logout"},
              user : Users \cup {None}, ok : BOOLEAN, alone : BOOLEAN]

Messages == Users \cup {"Logout"}

-----------------------------------------------------------------------------
\* The parts of the type invariant.
LEMMA Types ==
  TypeOK <=>
    /\ session \in Users \cup {None}
    /\ status \in [Tabs -> Statuses]
    /\ listening \subseteq Open /\ missed \subseteq Open
    /\ probe \in [Tabs -> Probes]
    /\ call \in [Tabs -> CallTypes]
    /\ wire \in [Tabs \X Tabs -> Seq(Messages)]
    /\ calls \in Nat
    /\ agreed \in BOOLEAN
    /\ \A t \in Tabs : status[t] = "closed" => probe[t] = NoProbe /\ call[t] = NoCall
    /\ \A w \in Tabs \X Tabs : wire[w] # <<>> => w[2] \in listening
  BY DEF TypeOK, Probes, CallTypes, Messages, Open

\* The same of the next state.
LEMMA TypesNext ==
  TypeOK' <=>
    /\ session' \in Users \cup {None}
    /\ status' \in [Tabs -> Statuses]
    /\ listening' \subseteq Open' /\ missed' \subseteq Open'
    /\ probe' \in [Tabs -> Probes]
    /\ call' \in [Tabs -> CallTypes]
    /\ wire' \in [Tabs \X Tabs -> Seq(Messages)]
    /\ calls' \in Nat
    /\ agreed' \in BOOLEAN
    /\ \A t \in Tabs : status'[t] = "closed" => probe'[t] = NoProbe /\ call'[t] = NoCall
    /\ \A w \in Tabs \X Tabs : wire'[w] # <<>> => w[2] \in listening'
  BY DEF TypeOK, Probes, CallTypes, Messages, Open

\* Words that are no users.
LEMMA Words ==
  /\ None \notin Users
  /\ \A x \in Users \cup {None} :
       /\ x # "closed" /\ x # "Loading" /\ x # "Unauthenticated"
       /\ x # "Logout" /\ x # "rejected" /\ x # "unknown"
  /\ "closed" # "Loading" /\ "Loading" # "Unauthenticated"
  /\ "closed" # "Unauthenticated"
  BY TabsAssumption

\* A probe that is on its way, and one that has been rendered.
LEMMA ProbeFacts ==
  /\ [NoProbe EXCEPT !.at = "sent"] = [at |-> "sent", answer |-> None]
  /\ [NoProbe EXCEPT !.at = "rendered"] = [at |-> "rendered", answer |-> None]
  /\ NoProbe \in Probes
  /\ \A a \in {"sent", "rendered"} : [at |-> a, answer |-> None] \in Probes
  /\ NoProbe.at = "none"
  <1>1. [NoProbe EXCEPT !.at = "sent"] = [at |-> "sent", answer |-> None]
    BY DEF NoProbe
  <1>2. [NoProbe EXCEPT !.at = "rendered"] = [at |-> "rendered", answer |-> None]
    BY DEF NoProbe
  <1>3. NoProbe \in Probes /\ NoProbe.at = "none"
    BY DEF NoProbe, Probes
  <1>4. \A a \in {"sent", "rendered"} : [at |-> a, answer |-> None] \in Probes
    BY DEF Probes
  <1> QED BY <1>1, <1>2, <1>3, <1>4

\* No call is no call.
LEMMA NoCallFacts ==
  /\ NoCall \in CallTypes
  /\ NoCall.at = "none" /\ NoCall.op = "none" /\ NoCall.alone = FALSE
  BY DEF NoCall, CallTypes

\* What the server says becomes what a tab shows.
LEMMA RestoredFacts ==
  ASSUME session \in Users \cup {None}
  PROVE  /\ Restored("Loading", AnswerOf(session)) = Shown
         /\ \A s : Restored(s, "unknown") = s
         /\ \A s, a : a \in Users \cup {None, "rejected", "unknown"}
              => Restored(s, a) \in Users \cup {"Unauthenticated", s}
         /\ AnswerOf(session) \in Users \cup {None, "rejected"}
         /\ Shown \in Users \cup {"Unauthenticated"}
  <1>1. \A s : Restored(s, "unknown") = s
    BY Words DEF Restored
  <1>2. \A s : \A a \in Users : Restored(s, a) = a
    BY Words DEF Restored
  <1>3. \A s : \A a \in {None, "rejected"} : Restored(s, a) = "Unauthenticated"
    BY Words DEF Restored
  <1>4. AnswerOf(session) \in IF session = None THEN {None, "rejected"} ELSE {session}
    BY DEF AnswerOf
  <1>5. CASE session = None
    BY <1>1, <1>2, <1>3, <1>4, <1>5 DEF Shown
  <1>6. CASE session \in Users
    <2>1. session # None
      BY <1>6, Words
    <2>2. AnswerOf(session) = session /\ Shown = session
      BY <1>4, <2>1 DEF Shown
    <2> QED BY <1>1, <1>2, <1>3, <1>6, <2>2
  <1> QED BY <1>5, <1>6

\* A step of tab t that concerns no call and no message keeps the invariant if
\* t stays as fresh as it was.
LEMMA TabMoves ==
  ASSUME Invariant, TypeOK', NEW t \in Tabs,
         UNCHANGED <<session, call, wire, agreed, missed>>,
         \A s \in Tabs : s # t => status'[s] = status[s] /\ probe'[s] = probe[s],
         (t \in Open => Fresh(t)) => Fresh(t)'
  PROVE  Invariant'
  <1>1. CallOK' /\ AloneOK'
    BY DEF Invariant, CallOK, AloneOK
  <1>2. Agreement'
    <2> SUFFICES ASSUME agreed, \A s \in Tabs : ~ Changed(s)
                 PROVE  /\ \A w \in Tabs \X Tabs :
                             \A i \in 1..Len(wire[w]) : wire[w][i] = Told
                        /\ \A s \in Open' \ missed : NoMessages(s) => Fresh(s)'
      BY DEF Agreement, Agreeing, Changed, Told, NoMessages
    <2>1. \A s \in Open \ missed : NoMessages(s) => Fresh(s)
      BY DEF Invariant, Agreement, Agreeing
    <2>2. ASSUME NEW s \in Open' \ missed, NoMessages(s)
          PROVE  Fresh(s)'
      <3>1. CASE s = t
        BY <2>1, <2>2, <3>1
      <3>2. CASE s # t
        <4>1. s \in Open /\ Fresh(s)
          BY <2>1, <2>2, <3>2 DEF Open
        <4> QED BY <3>2, <4>1 DEF Fresh, Open, Shown
      <3> QED BY <3>1, <3>2
    <2> QED BY <2>2 DEF Invariant, Agreement, Agreeing
  <1> QED BY <1>1, <1>2 DEF Invariant

\* Opening a tab, probing and restoring.
LEMMA ProbingKeeps ==
  ASSUME Invariant, NEW t \in Tabs, OpenTab(t) \/ Listen(t) \/ Probing(t)
  PROVE  Invariant'
  <1>1. TypeOK
    BY DEF Invariant
  <1>2. status \in [Tabs -> Statuses] /\ probe \in [Tabs -> Probes]
    BY <1>1, Types
  <1>3. CASE OpenTab(t)
    <2>1. /\ status[t] = "closed"
          /\ status' = [status EXCEPT ![t] = "Loading"]
          /\ probe' = [probe EXCEPT ![t] = [at |-> "sent", answer |-> None]]
          /\ UNCHANGED <<session, listening, call, wire, calls, agreed, missed>>
      BY <1>3, ProbeFacts DEF OpenTab
    <2>2. status' \in [Tabs -> Statuses] /\ probe' \in [Tabs -> Probes]
      BY <1>2, <2>1, ProbeFacts DEF Statuses
    <2>3. Open' = Open \cup {t}
      BY <1>2, <2>1 DEF Open
    <2>4. \A s \in Tabs : status'[s] = "closed" => s # t /\ status[s] = "closed"
      BY <1>2, <2>1
    <2>5. TypeOK'
      BY <1>1, <1>2, <2>1, <2>2, <2>3, <2>4, Types, TypesNext
    <2>6. Fresh(t)'
      BY <1>2, <2>1 DEF Fresh
    <2> QED BY <1>2, <2>1, <2>5, <2>6, TabMoves
  <1>4. CASE Listen(t)
    <2>1. TypeOK'
      BY <1>1, <1>4, Types, TypesNext DEF Listen, Open
    <2>2. t \in Open /\ Fresh(t)' = Fresh(t)
      BY <1>4 DEF Listen, Fresh, Shown
    <2> QED BY <1>4, <2>1, <2>2, TabMoves DEF Listen
  <1>5. ASSUME NEW a \in {AnswerOf(session), "unknown"}, AnswerProbe(t, a)
        PROVE  Invariant'
    <2>1. a \in Users \cup {None, "rejected", "unknown"}
      BY <1>1, Types, RestoredFacts
    <2>2. /\ probe[t].at = "sent"
          /\ probe' = [probe EXCEPT ![t] = [at |-> "answered", answer |-> a]]
          /\ UNCHANGED <<session, status, listening, call, wire, calls, agreed, missed>>
      BY <1>5 DEF AnswerProbe
    <2>3. probe' \in [Tabs -> Probes] /\ status[t] # "closed"
      BY <1>1, <1>2, <2>1, <2>2, Types, ProbeFacts DEF Probes
    <2>4. TypeOK'
      BY <1>1, <1>2, <2>2, <2>3, Types, TypesNext DEF Open
    <2>5. (t \in Open => Fresh(t)) => Fresh(t)'
      <3>1. probe'[t] = [at |-> "answered", answer |-> a] /\ t \in Open
        BY <1>2, <2>2, <2>3 DEF Open
      <3> QED BY <2>2, <3>1 DEF Fresh, Shown
    <2> QED BY <1>2, <2>2, <2>4, <2>5, TabMoves
  <1>6. CASE Restore(t)
    <2> DEFINE x == IF status[t] # "Loading" THEN status[t]
                    ELSE Restored(status[t], probe[t].answer)
    <2>1. /\ probe[t].at = "answered"
          /\ probe' = [probe EXCEPT ![t] = [at |-> "rendered", answer |-> None]]
          /\ status' = [status EXCEPT ![t] = x]
          /\ UNCHANGED <<session, listening, call, wire, calls, agreed, missed>>
      BY <1>6, ProbeFacts DEF Restore
    <2>2. t \in Open
      BY <1>1, <2>1, Types, ProbeFacts DEF Open
    <2>3. probe[t].answer \in Users \cup {None, "rejected", "unknown"}
      BY <1>2 DEF Probes
    <2>4. x \in Statuses /\ x # "closed"
      <3>1. session \in Users \cup {None}
        BY <1>1, Types
      <3>2. Restored(status[t], probe[t].answer) \in Users \cup {"Unauthenticated", status[t]}
        BY <2>3, <3>1, RestoredFacts
      <3> QED BY <1>2, <2>2, <3>2, Words DEF Statuses, Open
    <2>5. Fresh(t) => (x # "Loading" => x = Shown)
      <3>1. session \in Users \cup {None}
        BY <1>1, Types
      <3> QED BY <2>1, <3>1, RestoredFacts DEF Fresh
    <2> HIDE DEF x
    <2>6. status' \in [Tabs -> Statuses] /\ probe' \in [Tabs -> Probes] /\ Open' = Open
      BY <1>2, <2>1, <2>2, <2>4, ProbeFacts DEF Open
    <2>7. TypeOK'
      <3>1. \A s \in Tabs : status'[s] = "closed" => s # t /\ status[s] = "closed"
        BY <1>2, <2>1, <2>4
      <3> QED BY <1>1, <1>2, <2>1, <2>6, <3>1, Types, TypesNext
    <2>8. Fresh(t) => Fresh(t)'
      <3>1. status'[t] = x /\ probe'[t].at # "answered" /\ Shown' = Shown
        BY <1>2, <2>1 DEF Shown
      <3> QED BY <2>5, <3>1 DEF Fresh
    <2> QED BY <1>2, <2>1, <2>2, <2>7, <2>8, TabMoves
  <1>7. CASE RetryProbe(t)
    <2>1. /\ status[t] = "Loading"
          /\ probe' = [probe EXCEPT ![t] = [at |-> "sent", answer |-> None]]
          /\ UNCHANGED <<session, status, listening, call, wire, calls, agreed, missed>>
      BY <1>7, ProbeFacts DEF RetryProbe
    <2>2. probe' \in [Tabs -> Probes] /\ status[t] # "closed"
      BY <1>2, <2>1, ProbeFacts
    <2>3. TypeOK'
      BY <1>1, <1>2, <2>1, <2>2, Types, TypesNext DEF Open
    <2>4. Fresh(t)'
      BY <1>2, <2>1 DEF Fresh
    <2> QED BY <1>2, <2>1, <2>3, <2>4, TabMoves
  <1> QED BY <1>3, <1>4, <1>5, <1>6, <1>7 DEF Probing, ServeProbe, FailProbe

\* Closing a tab in the middle of a call leaves the others in doubt.
LEMMA CloseKeeps ==
  ASSUME Invariant, NEW t \in Tabs, CloseTab(t)
  PROVE  Invariant'
  <1>1. /\ t \in Open
        /\ status' = [status EXCEPT ![t] = "closed"]
        /\ listening' = listening \ {t} /\ missed' = missed \ {t}
        /\ probe' = [probe EXCEPT ![t] = NoProbe]
        /\ call' = [call EXCEPT ![t] = NoCall]
        /\ agreed' = (agreed /\ call[t] = NoCall)
        /\ wire' = [w \in Tabs \X Tabs |-> IF w[2] = t THEN <<>> ELSE wire[w]]
        /\ UNCHANGED <<session, calls>>
    BY DEF CloseTab
  <1>2. TypeOK
    BY DEF Invariant
  <1>3. /\ status \in [Tabs -> Statuses] /\ probe \in [Tabs -> Probes]
        /\ call \in [Tabs -> CallTypes] /\ wire \in [Tabs \X Tabs -> Seq(Messages)]
    BY <1>2, Types
  <1>4. \A s \in Tabs : s # t => /\ status'[s] = status[s] /\ probe'[s] = probe[s]
                                /\ call'[s] = call[s]
    BY <1>1, <1>3
  <1>5. status'[t] = "closed" /\ probe'[t] = NoProbe /\ call'[t] = NoCall
    BY <1>1, <1>3
  <1>6. Open' = Open \ {t}
    BY <1>4, <1>5 DEF Open
  <1>7. \A w \in Tabs \X Tabs : /\ w[2] # t => wire'[w] = wire[w]
                                /\ w[2] = t => wire'[w] = <<>>
    BY <1>1
  <1>8. TypeOK'
    <2>1. status' \in [Tabs -> Statuses] /\ probe' \in [Tabs -> Probes]
          /\ call' \in [Tabs -> CallTypes]
      BY <1>1, <1>3, ProbeFacts, NoCallFacts DEF Statuses
    <2>2. wire' \in [Tabs \X Tabs -> Seq(Messages)]
      <3>1. \A w \in Tabs \X Tabs : wire'[w] \in Seq(Messages)
        <4>1. <<>> \in Seq(Messages)
          OBVIOUS
        <4> QED BY <1>3, <1>7, <4>1, Zenon
      <3> QED BY <1>1, <3>1
    <2>3. listening' \subseteq Open' /\ missed' \subseteq Open'
      BY <1>1, <1>2, <1>6, Types
    <2>4. \A w \in Tabs \X Tabs : wire'[w] # <<>> => w[2] \in listening'
      BY <1>1, <1>2, <1>7, Types
    <2>5. \A s \in Tabs : status'[s] = "closed" => probe'[s] = NoProbe /\ call'[s] = NoCall
      BY <1>2, <1>4, <1>5, Types
    <2>6. session' \in Users \cup {None} /\ calls' \in Nat /\ agreed' \in BOOLEAN
      BY <1>1, <1>2, Types
    <2> QED BY <2>1, <2>2, <2>3, <2>4, <2>5, <2>6, TypesNext
  <1>9. CallOK'
    <2>1. CallOK
      BY DEF Invariant
    <2> QED BY <1>4, <1>5, <2>1, NoCallFacts DEF CallOK
  <1>10. AloneOK'
    <2>1. AloneOK
      BY DEF Invariant
    <2>2. ASSUME NEW s \in Tabs, call'[s].alone
          PROVE  call[s].alone /\ call'[s] = call[s]
      BY <1>4, <1>5, <2>2, NoCallFacts
    <2>3. ASSUME NEW s \in Tabs, call'[s].alone
          PROVE  \A w \in Tabs \X Tabs : wire'[w] = <<>>
      BY <1>7, <2>1, <2>2, <2>3, Zenon DEF AloneOK
    <2>4. ASSUME NEW s \in Tabs, call'[s].alone
          PROVE  \A r \in Tabs : r # s => call'[r] = NoCall
      BY <1>4, <1>5, <2>1, <2>2, <2>4, Zenon DEF AloneOK
    <2>5. \A s \in Tabs : agreed' /\ call'[s] # NoCall => call'[s].alone
      BY <1>1, <1>4, <1>5, <2>1, Zenon DEF AloneOK
    <2>6. \A s \in Tabs : call'[s].alone /\ call'[s].at = "answered" /\ call'[s].ok
                          => session' = call'[s].user
      BY <1>1, <2>1, <2>2 DEF AloneOK
    <2> QED BY <2>3, <2>4, <2>5, <2>6, Zenon DEF AloneOK
  <1>11. Agreement'
    <2> SUFFICES ASSUME agreed', \A s \in Tabs : ~ Changed(s)'
                 PROVE  /\ \A w \in Tabs \X Tabs :
                             \A i \in 1..Len(wire'[w]) : wire'[w][i] = Told
                        /\ \A s \in Open' \ missed' : NoMessages(s)' => Fresh(s)'
      BY <1>1 DEF Agreement, Agreeing, Told
    <2>1. agreed /\ \A s \in Tabs : ~ Changed(s)
      BY <1>1, <1>4, NoCallFacts DEF Changed
    <2>2. /\ \A w \in Tabs \X Tabs : \A i \in 1..Len(wire[w]) : wire[w][i] = Told
          /\ \A s \in Open \ missed : NoMessages(s) => Fresh(s)
      BY <2>1 DEF Invariant, Agreement, Agreeing
    <2>3. ASSUME NEW w \in Tabs \X Tabs, NEW i \in 1..Len(wire'[w])
          PROVE  wire'[w][i] = Told
      <3>1. CASE w[2] = t
        <4>1. wire'[w] = <<>>
          BY <1>7, <3>1, Zenon
        <4>2. Len(wire'[w]) = 0
          BY <4>1
        <4> QED BY <4>2
      <3>2. CASE w[2] # t
        <4>1. wire'[w] = wire[w]
          BY <1>7, <3>2, Zenon
        <4> QED BY <2>2, <4>1
      <3> QED BY <3>1, <3>2
    <2>4. ASSUME NEW s \in Open' \ missed', NoMessages(s)'
          PROVE  Fresh(s)'
      <3>1. s \in Tabs /\ s # t /\ s \in Open \ missed
        BY <1>1, <1>6 DEF Open
      <3>2. NoMessages(s)
        <4>1. \A q \in Tabs : <<q, s>> \in Tabs \X Tabs /\ <<q, s>>[2] # t
          BY <3>1
        <4> QED BY <1>7, <2>4, <4>1, Zenon DEF NoMessages
      <3>3. Fresh(s)
        BY <2>2, <3>1, <3>2
      <3> QED BY <1>1, <1>4, <3>1, <3>3 DEF Fresh, Shown, AnswerOf
    <2> QED BY <2>3, <2>4
  <1> QED BY <1>8, <1>9, <1>10, <1>11 DEF Invariant

\* The session ends: the tabs do not know.
LEMMA EndSessionKeeps ==
  ASSUME Invariant, EndSession
  PROVE  Invariant'
  <1>1. /\ session' = None /\ agreed' = FALSE
        /\ call' = [t \in Tabs |-> [call[t] EXCEPT !.alone = FALSE]]
        /\ UNCHANGED <<status, listening, probe, wire, calls, missed>>
    BY DEF EndSession
  <1>2. TypeOK
    BY DEF Invariant
  <1>3. call \in [Tabs -> CallTypes]
    BY <1>2, Types
  <1>4. ASSUME NEW t \in Tabs
        PROVE  /\ call'[t] \in CallTypes
               /\ call'[t].alone = FALSE /\ call'[t].at = call[t].at
               /\ call'[t].op = call[t].op /\ call'[t].user = call[t].user
               /\ call[t] = NoCall => call'[t] = NoCall
               /\ call'[t] # NoCall => call[t] # NoCall
    <2>1. call'[t] = [call[t] EXCEPT !.alone = FALSE] /\ call[t] \in CallTypes
      BY <1>1, <1>3
    <2>2. [NoCall EXCEPT !.alone = FALSE] = NoCall
      <3>1. NoCall \in CallTypes /\ NoCall.alone = FALSE
        BY NoCallFacts
      <3> QED BY <3>1 DEF CallTypes
    <2> QED BY <2>1, <2>2 DEF CallTypes
  <1>5. TypeOK'
    <2>1. call' \in [Tabs -> CallTypes]
      BY <1>1, <1>4
    <2> QED BY <1>1, <1>2, <1>4, <2>1, Types, TypesNext DEF Open
  <1>6. CallOK'
    BY <1>4 DEF Invariant, CallOK
  <1>7. AloneOK' /\ Agreement'
    BY <1>1, <1>4 DEF AloneOK, Agreement, Agreeing
  <1> QED BY <1>5, <1>6, <1>7 DEF Invariant

\* A message arrives: while the tabs agree it tells the session.
LEMMA ReceiveKeeps ==
  ASSUME Invariant, NEW t \in Tabs, Receive(t)
  PROVE  Invariant'
  <1>1. PICK s \in Tabs :
          /\ wire[<<s, t>>] # <<>>
          /\ wire' = [wire EXCEPT ![<<s, t>>] = Tail(wire[<<s, t>>])]
          /\ \/ /\ Head(wire[<<s, t>>]) = "Logout"
                /\ status' = [status EXCEPT ![t] = "Unauthenticated"]
                /\ UNCHANGED missed
             \/ /\ Head(wire[<<s, t>>]) \in Users
                /\ status' = [status EXCEPT ![t] = Head(wire[<<s, t>>])]
                /\ UNCHANGED missed
             \/ /\ missed' = missed \cup {t}
                /\ UNCHANGED status
          /\ UNCHANGED <<session, listening, probe, call, calls, agreed>>
    BY DEF Receive
  <1> DEFINE c == <<s, t>>
             m == Head(wire[c])
  <1>2. TypeOK
    BY DEF Invariant
  <1>3. /\ status \in [Tabs -> Statuses]
        /\ wire \in [Tabs \X Tabs -> Seq(Messages)]
        /\ c \in Tabs \X Tabs /\ c[2] = t
    BY <1>2, Types
  <1>4. t \in listening /\ t \in Open
    BY <1>1, <1>2, <1>3, Types
  <1>5. /\ wire'[c] = Tail(wire[c])
        /\ \A w \in Tabs \X Tabs : w # c => wire'[w] = wire[w]
    BY <1>1, <1>3
  <1>6. wire[c] \in Seq(Messages) /\ wire[c] # <<>> /\ Len(wire[c]) \in Nat \ {0}
    BY <1>1, <1>3
  <1>7. /\ Tail(wire[c]) \in Seq(Messages) /\ m = wire[c][1]
        /\ Len(Tail(wire[c])) = Len(wire[c]) - 1
        /\ \A i \in 1..(Len(wire[c]) - 1) : Tail(wire[c])[i] = wire[c][i + 1]
    BY <1>6
  <1>8. \A r \in Tabs : r # t => status'[r] = status[r] /\ (r \in missed' <=> r \in missed)
    BY <1>1, <1>3
  <1>9. status' \in [Tabs -> Statuses] /\ status'[t] # "closed" /\ Open' = Open
    <2>1. CASE UNCHANGED status
      BY <1>3, <1>4, <2>1 DEF Open
    <2>2. CASE \E x \in Users \cup {"Unauthenticated"} : status' = [status EXCEPT ![t] = x]
      BY <1>3, <1>4, <2>2, Words DEF Open, Statuses
    <2> QED BY <1>1, <2>1, <2>2
  <1>10. TypeOK'
    <2>1. wire' \in [Tabs \X Tabs -> Seq(Messages)]
      BY <1>1, <1>3, <1>7
    <2>2. \A w \in Tabs \X Tabs : wire'[w] # <<>> => w[2] \in listening'
      BY <1>1, <1>2, <1>3, <1>4, <1>5, Types
    <2>3. missed' \subseteq Open'
      BY <1>1, <1>2, <1>4, <1>9, Types
    <2>4. \A r \in Tabs : status'[r] = "closed" => status[r] = "closed"
      BY <1>8, <1>9
    <2> QED BY <1>1, <1>2, <1>9, <2>1, <2>2, <2>3, <2>4, Types, TypesNext
  <1>11. CallOK'
    BY <1>1 DEF Invariant, CallOK
  <1>12. AloneOK'
    <2>1. \A r \in Tabs : ~ call[r].alone
      BY <1>1, <1>3 DEF Invariant, AloneOK
    <2> QED BY <1>1, <2>1 DEF Invariant, AloneOK
  <1>13. Agreement'
    <2> SUFFICES ASSUME agreed, \A r \in Tabs : ~ Changed(r)
                 PROVE  /\ \A w \in Tabs \X Tabs :
                             \A i \in 1..Len(wire'[w]) : wire'[w][i] = Told
                        /\ \A r \in Open \ missed' : NoMessages(r)' => Fresh(r)'
      BY <1>1, <1>9 DEF Agreement, Agreeing, Changed, Told
    <2>1. /\ \A w \in Tabs \X Tabs : \A i \in 1..Len(wire[w]) : wire[w][i] = Told
          /\ \A r \in Open \ missed : NoMessages(r) => Fresh(r)
      BY DEF Invariant, Agreement, Agreeing
    <2>2. m = Told
      BY <1>3, <1>6, <1>7, <2>1
    <2>3. ASSUME NEW w \in Tabs \X Tabs, NEW i \in 1..Len(wire'[w])
          PROVE  wire'[w][i] = Told
      <3>1. CASE w = c
        <4>1. i \in 1..(Len(wire[c]) - 1) /\ i + 1 \in 1..Len(wire[c])
          <5>1. Len(wire'[w]) = Len(wire[c]) - 1
            BY <1>5, <1>7, <3>1
          <5>2. Len(wire[c]) \in Nat
            BY <1>6
          <5> HIDE DEF c
          <5> QED BY <5>1, <5>2
        <4>2. wire'[w][i] = wire[c][i + 1]
          BY <1>5, <1>7, <3>1, <4>1
        <4> QED BY <1>3, <2>1, <4>1, <4>2
      <3>2. CASE w # c
        BY <1>5, <2>1, <3>2
      <3> QED BY <3>1, <3>2
    <2>4. ASSUME NEW r \in Open \ missed', NoMessages(r)'
          PROVE  Fresh(r)'
      <3>1. r \in Tabs
        BY DEF Open
      <3>2. CASE r = t
        <4>1. \/ m = "Logout" /\ status'[t] = "Unauthenticated"
              \/ m \in Users /\ status'[t] = m
          BY <1>1, <1>3, <2>4, <3>2
        <4>2. session \in Users \cup {None}
          BY <1>2, Types
        <4>3. status'[t] = Shown /\ status'[t] # "Loading"
          BY <2>2, <4>1, <4>2, Words DEF Told, Shown
        <4> QED BY <1>1, <3>2, <4>3 DEF Fresh, Shown
      <3>3. CASE r # t
        <4>1. r \in Open \ missed
          BY <1>8, <3>1, <3>3
        <4>2. NoMessages(r)
          <5>1. \A q \in Tabs : <<q, r>> \in Tabs \X Tabs /\ <<q, r>> # c
            BY <3>1, <3>3
          <5> QED BY <1>5, <2>4, <5>1 DEF NoMessages
        <4>3. Fresh(r)
          BY <2>1, <4>1, <4>2
        <4> QED BY <1>1, <1>8, <3>1, <3>3, <4>3 DEF Fresh, Shown, AnswerOf
      <3> QED BY <3>2, <3>3
    <2> QED BY <2>3, <2>4
  <1> QED BY <1>10, <1>11, <1>12, <1>13 DEF Invariant

-----------------------------------------------------------------------------
\* Calls.

\* What Begin does to the call of its own tab, and to those of the others.
BegunAs(op, u, q) == [NoCall EXCEPT !.at = "sent", !.op = op, !.user = u, !.alone = q]

\* What Begin does to the call of its own tab, and to those of the others.
LEMMA BegunFacts ==
  ASSUME NEW op \in {"login", "logout"}, NEW u \in Users \cup {None},
         NEW q \in BOOLEAN
  PROVE  /\ BegunAs(op, u, q) \in CallTypes
         /\ BegunAs(op, u, q).at = "sent" /\ BegunAs(op, u, q).op = op
         /\ BegunAs(op, u, q).user = u /\ BegunAs(op, u, q).alone = q
  <1> DEFINE e1 == [NoCall EXCEPT !.at = "sent"]
             e2 == [e1 EXCEPT !.op = op]
             e3 == [e2 EXCEPT !.user = u]
             e4 == [e3 EXCEPT !.alone = q]
  <1>1. BegunAs(op, u, q) = e4
    BY DEF BegunAs
  <1>2. e1 \in CallTypes /\ e1.at = "sent"
    BY NoCallFacts DEF CallTypes
  <1> HIDE DEF e1
  <1>3. e2 \in CallTypes /\ e2.at = "sent" /\ e2.op = op
    BY <1>2 DEF CallTypes
  <1> HIDE DEF e2
  <1>4. e3 \in CallTypes /\ e3.at = "sent" /\ e3.op = op /\ e3.user = u
    BY <1>3 DEF CallTypes
  <1> HIDE DEF e3
  <1>5. e4 \in CallTypes /\ e4.at = "sent" /\ e4.op = op /\ e4.user = u /\ e4.alone = q
    BY <1>4 DEF CallTypes
  <1> QED BY <1>1, <1>5

\* A call that is disturbed keeps everything else.
LEMMA DisturbedFacts ==
  ASSUME NEW c \in CallTypes
  PROVE  /\ [c EXCEPT !.alone = FALSE] \in CallTypes
         /\ [c EXCEPT !.alone = FALSE].alone = FALSE
         /\ [c EXCEPT !.alone = FALSE].at = c.at
         /\ [c EXCEPT !.alone = FALSE].op = c.op
         /\ [c EXCEPT !.alone = FALSE].user = c.user
         /\ c = NoCall <=> [c EXCEPT !.alone = FALSE] = NoCall /\ c.alone = FALSE
  <1>1. NoCall.alone = FALSE /\ NoCall \in CallTypes
    BY NoCallFacts
  <1>2. /\ [c EXCEPT !.alone = FALSE] \in CallTypes
        /\ [c EXCEPT !.alone = FALSE].alone = FALSE
        /\ [c EXCEPT !.alone = FALSE].at = c.at
        /\ [c EXCEPT !.alone = FALSE].op = c.op
        /\ [c EXCEPT !.alone = FALSE].user = c.user
    BY DEF CallTypes
  <1>3. c.alone = FALSE => [c EXCEPT !.alone = FALSE] = c
    BY DEF CallTypes
  <1> QED BY <1>1, <1>2, <1>3

\* Calls do not make tabs disagree by themselves.
LEMMA SameAgreeing ==
  ASSUME UNCHANGED <<session, status, probe, wire, missed>>
  PROVE  Agreeing' <=> Agreeing
  <1>1. Told' = Told /\ Open' = Open
    BY DEF Told, Open
  <1>2. \A t : (NoMessages(t)' <=> NoMessages(t)) /\ (Fresh(t)' <=> Fresh(t))
    BY DEF NoMessages, Fresh, Shown, AnswerOf
  <1> QED BY <1>1, <1>2 DEF Agreeing

\* A call that begins while nothing else is on its way is undisturbed; any
\* other disturbs all.
LEMMA BeginKeeps ==
  ASSUME Invariant, NEW t \in Tabs, Begin(t)
  PROVE  Invariant'
  <1> DEFINE quiet == Quiet
  <1>1. PICK op \in {"login", "logout"}, u \in Users \cup {None} :
          /\ (op = "login") = (u \in Users)
          /\ call' = [s \in Tabs |-> IF s = t THEN BegunAs(op, u, Quiet)
                                     ELSE [call[s] EXCEPT !.alone = FALSE]]
    BY DEF Begin, BegunAs
  <1>2. /\ t \in Open /\ call[t] = NoCall /\ calls' = calls + 1
        /\ agreed' = (agreed /\ Quiet)
        /\ UNCHANGED <<session, status, listening, probe, wire, missed>>
    BY DEF Begin
  <1>3. TypeOK
    BY DEF Invariant
  <1>4. call \in [Tabs -> CallTypes] /\ calls \in Nat /\ agreed \in BOOLEAN
    BY <1>3, Types
  <1>5. quiet \in BOOLEAN /\ (quiet <=> Quiet)
    BY DEF Quiet
  <1>6. call'[t] = BegunAs(op, u, quiet)
    BY <1>1
  <1>7. agreed' = (agreed /\ quiet)
    BY <1>2
  <1>8. quiet => (\A s \in Tabs : call[s] = NoCall)
                 /\ (\A w \in Tabs \X Tabs : wire[w] = <<>>)
    BY DEF Quiet
  <1> HIDE DEF quiet
  <1>9. call'[t] \in CallTypes /\ call'[t].at = "sent" /\ call'[t].op = op
        /\ call'[t].user = u /\ call'[t].alone = quiet
    BY <1>5, <1>6, BegunFacts
  <1>10. ASSUME NEW s \in Tabs, s # t
         PROVE  /\ call'[s] \in CallTypes
                /\ call'[s].alone = FALSE /\ call'[s].at = call[s].at
                /\ call'[s].op = call[s].op /\ call'[s].user = call[s].user
                /\ call[s] = NoCall => call'[s] = NoCall
                /\ call'[s] # NoCall => call[s] # NoCall
    <2>1. call'[s] = [call[s] EXCEPT !.alone = FALSE] /\ call[s] \in CallTypes
      BY <1>1, <1>4, <1>10
    <2> QED BY <2>1, DisturbedFacts
  <1>11. TypeOK'
    <2>1. call' \in [Tabs -> CallTypes]
      <3>1. \A s \in Tabs : call'[s] \in CallTypes
        BY <1>9, <1>10
      <3> QED BY <1>1, <3>1
    <2>2. agreed' \in BOOLEAN
      BY <1>4, <1>5, <1>7
    <2>3. \A s \in Tabs : status[s] = "closed" => call'[s] = NoCall
      BY <1>2, <1>3, <1>10, Types DEF Open
    <2>4. Open' = Open
      BY <1>2 DEF Open
    <2> QED BY <1>2, <1>3, <1>4, <2>1, <2>2, <2>3, <2>4, Types, TypesNext
  <1>12. CallOK'
    <2>1. ASSUME NEW s \in Tabs
          PROVE  /\ call'[s].op = "login" => call'[s].user \in Users
                 /\ call'[s].op = "logout" => call'[s].user = None
                 /\ call'[s] # NoCall => call'[s].at # "none" /\ call'[s].op # "none"
      <3>1. CASE s = t
        BY <1>1, <1>9, <3>1
      <3>2. CASE s # t
        BY <1>10, <3>2 DEF Invariant, CallOK
      <3> QED BY <3>1, <3>2
    <2> QED BY <2>1 DEF CallOK
  <1>13. AloneOK'
    <2>1. ASSUME NEW s \in Tabs
          PROVE  /\ agreed' /\ call'[s] # NoCall => call'[s].alone
                 /\ call'[s].alone =>
                      /\ \A r \in Tabs : r # s => call'[r] = NoCall
                      /\ \A w \in Tabs \X Tabs : wire'[w] = <<>>
                      /\ call'[s].at # "answered"
      <3>1. CASE s = t
        BY <1>2, <1>7, <1>8, <1>9, <1>10, <3>1
      <3>2. CASE s # t
        BY <1>7, <1>8, <1>10, <3>2
      <3> QED BY <3>1, <3>2
    <2> QED BY <2>1 DEF AloneOK
  <1>14. Agreement'
    <2> SUFFICES ASSUME agreed, quiet PROVE Agreeing'
      BY <1>7 DEF Agreement
    <2>1. \A s \in Tabs : ~ Changed(s)
      BY <1>8, NoCallFacts DEF Changed
    <2>2. Agreeing
      BY <2>1 DEF Invariant, Agreement
    <2> QED BY <1>2, <2>2, SameAgreeing
  <1> QED BY <1>11, <1>12, <1>13, <1>14 DEF Invariant

\* The answer changes the session, or nothing the tabs show.
LEMMA AnswerKeeps ==
  ASSUME Invariant, NEW t \in Tabs, Answer(t)
  PROVE  Invariant'
  <1>1. PICK ok \in BOOLEAN :
          /\ call' = [call EXCEPT ![t].at = "answered", ![t].ok = ok]
          /\ \/ session' = call[t].user /\ (ok \/ call[t].op = "logout")
             \/ UNCHANGED session /\ ~ ok
    BY DEF Answer
  <1>2. call[t].at = "sent"
        /\ UNCHANGED <<status, listening, probe, wire, calls, agreed, missed>>
    BY DEF Answer
  <1>3. TypeOK
    BY DEF Invariant
  <1>4. call \in [Tabs -> CallTypes] /\ call[t] \in CallTypes
    BY <1>3, Types
  <1> DEFINE e1 == [call[t] EXCEPT !.at = "answered"]
             e2 == [e1 EXCEPT !.ok = ok]
             f1 == [call EXCEPT ![t].at = "answered"]
  <1>5. e1 \in CallTypes /\ e1.at = "answered" /\ e1.op = call[t].op
        /\ e1.user = call[t].user /\ e1.alone = call[t].alone
    BY <1>4 DEF CallTypes
  <1> HIDE DEF e1
  <1>6. e2 \in CallTypes /\ e2.at = "answered" /\ e2.op = call[t].op
        /\ e2.user = call[t].user /\ e2.alone = call[t].alone /\ e2.ok = ok
    BY <1>5 DEF CallTypes
  <1> HIDE DEF e2
  <1>7. f1 = [call EXCEPT ![t] = e1]
    BY DEF e1
  <1>8. call' = [f1 EXCEPT ![t].ok = ok]
    BY <1>1
  <1> HIDE DEF f1
  <1>9. f1[t] = e1
    BY <1>4, <1>7
  <1>10. call' = [f1 EXCEPT ![t] = e2]
    BY <1>8, <1>9 DEF e2
  <1>11. /\ call'[t] = e2 /\ call' \in [Tabs -> CallTypes]
         /\ \A s \in Tabs : s # t => call'[s] = call[s]
    BY <1>4, <1>6, <1>7, <1>10
  <1>12. call[t] # NoCall
    BY <1>2, NoCallFacts
  <1>13. session' \in Users \cup {None}
    BY <1>1, <1>3, <1>4, Types DEF CallTypes
  <1>14. TypeOK'
    <2>1. \A s \in Tabs : status[s] = "closed" => s # t
      BY <1>3, <1>12, Types
    <2> QED BY <1>2, <1>3, <1>11, <1>13, <2>1, Types, TypesNext DEF Open
  <1>15. CallOK'
    <2>1. CallOK
      BY DEF Invariant
    <2>2. e2.op # "none"
      BY <1>6, <1>12, <2>1 DEF CallOK
    <2> QED BY <1>6, <1>11, <2>1, <2>2 DEF CallOK
  <1>16. AloneOK'
    <2>1. ASSUME NEW s \in Tabs
          PROVE  /\ agreed' /\ call'[s] # NoCall => call'[s].alone
                 /\ call'[s].alone =>
                      /\ \A r \in Tabs : r # s => call'[r] = NoCall
                      /\ \A w \in Tabs \X Tabs : wire'[w] = <<>>
                      /\ call'[s].at = "answered" /\ call'[s].ok => session' = call'[s].user
      <3>1. CASE s = t
        BY <1>1, <1>2, <1>6, <1>11, <1>12, <3>1 DEF Invariant, AloneOK
      <3>2. CASE s # t
        <4>1. ~ call[s].alone
          BY <1>12, <3>2 DEF Invariant, AloneOK
        <4> QED BY <1>2, <1>11, <3>2, <4>1 DEF Invariant, AloneOK
      <3> QED BY <3>1, <3>2
    <2> QED BY <2>1 DEF AloneOK
  <1>17. Agreement'
    <2> SUFFICES ASSUME agreed', \A s \in Tabs : ~ Changed(s)'
                 PROVE  Agreement'
      BY DEF Agreement, Agreeing
    <2>1. ~ ok /\ call[t].op # "logout"
      BY <1>6, <1>11 DEF Changed
    <2>2. UNCHANGED session
      BY <1>1, <2>1
    <2>3. \A s \in Tabs : ~ Changed(s)
      BY <1>2, <1>11 DEF Changed
    <2>4. Agreeing
      BY <1>2, <2>3 DEF Invariant, Agreement
    <2>5. Agreeing'
      BY <1>2, <2>2, <2>4, SameAgreeing
    <2> QED BY <2>5 DEF Agreement
  <1> QED BY <1>14, <1>15, <1>16, <1>17 DEF Invariant

\* A tab that was answered shows the session and tells the others.
LEMMA PostKeeps ==
  ASSUME Invariant, NEW t \in Tabs, call[t].at = "answered",
         NEW x \in Users \cup {"Unauthenticated"}, NEW m \in Messages,
         status' = [status EXCEPT ![t] = x],
         call' = [call EXCEPT ![t] = NoCall],
         Post(t, m), UNCHANGED <<session, listening, probe, calls>>,
         agreed' \in BOOLEAN, agreed' => call[t].alone /\ call[t].ok,
         session = call[t].user => x = Shown /\ m = Told
  PROVE  Invariant'
  <1>1. TypeOK
    BY DEF Invariant
  <1>2. /\ status \in [Tabs -> Statuses] /\ call \in [Tabs -> CallTypes]
        /\ wire \in [Tabs \X Tabs -> Seq(Messages)] /\ listening \subseteq Open
    BY <1>1, Types
  <1>3. call[t] # NoCall
    BY NoCallFacts
  <1>4. t \in Open
    BY <1>1, <1>3, Types DEF Open
  <1>5. \A s \in Tabs : s # t => status'[s] = status[s] /\ call'[s] = call[s]
    BY <1>2
  <1>6. status'[t] = x /\ call'[t] = NoCall /\ x # "closed" /\ x # "Loading"
    BY <1>2, Words
  <1>7. Open' = Open
    BY <1>4, <1>5, <1>6 DEF Open
  <1> DEFINE heard == Audience(t)
  <1>8. heard \subseteq listening
    BY DEF Audience
  <1>9. /\ wire' = [w \in Tabs \X Tabs |->
              IF w[1] = t /\ w[2] \in heard THEN Append(wire[w], m) ELSE wire[w]]
        /\ missed' = Open \ (heard \cup {t})
    BY DEF Post
  <1> HIDE DEF heard
  <1>10. ASSUME NEW w \in Tabs \X Tabs
         PROVE  /\ wire'[w] \in Seq(Messages)
                /\ wire'[w] # <<>> => wire[w] # <<>> \/ w[2] \in heard
    <2>1. CASE w[1] = t /\ w[2] \in heard
      BY <1>2, <1>9, <2>1
    <2>2. CASE ~ (w[1] = t /\ w[2] \in heard)
      <3>1. wire'[w] = wire[w]
        BY <1>9, <2>2
      <3> QED BY <1>2, <3>1
    <2> QED BY <2>1, <2>2
  <1>11. TypeOK'
    <2>1. status' \in [Tabs -> Statuses] /\ call' \in [Tabs -> CallTypes]
      BY <1>2, NoCallFacts DEF Statuses
    <2>2. wire' \in [Tabs \X Tabs -> Seq(Messages)]
      BY <1>9, <1>10
    <2>3. \A w \in Tabs \X Tabs : wire'[w] # <<>> => w[2] \in listening'
      BY <1>1, <1>8, <1>10, Types
    <2>4. listening' \subseteq Open' /\ missed' \subseteq Open'
      BY <1>2, <1>7, <1>9
    <2>5. \A s \in Tabs : status'[s] = "closed" => probe'[s] = NoProbe /\ call'[s] = NoCall
      BY <1>1, <1>5, <1>6, Types
    <2> QED BY <1>1, <2>1, <2>2, <2>3, <2>4, <2>5, Types, TypesNext
  <1>12. CallOK'
    BY <1>5, <1>6, NoCallFacts DEF Invariant, CallOK
  <1>13. call[t].alone => \A s \in Tabs : s # t => call[s] = NoCall
    BY DEF Invariant, AloneOK
  <1>14. AloneOK'
    <2>1. \A s \in Tabs : ~ call'[s].alone
      BY <1>3, <1>5, <1>6, NoCallFacts DEF Invariant, AloneOK
    <2>2. \A s \in Tabs : agreed' => call'[s] = NoCall
      BY <1>5, <1>6, <1>13
    <2> QED BY <2>1, <2>2 DEF AloneOK
  <1>15. Agreement'
    <2> SUFFICES ASSUME agreed'
                 PROVE  /\ \A w \in Tabs \X Tabs :
                             \A i \in 1..Len(wire'[w]) : wire'[w][i] = Told
                        /\ \A s \in Open \ missed' : NoMessages(s)' => Fresh(s)'
      BY <1>7 DEF Agreement, Agreeing, Told
    <2>1. /\ \A w \in Tabs \X Tabs : wire[w] = <<>>
          /\ session = call[t].user
      BY DEF Invariant, AloneOK
    <2>2. x = Shown /\ m = Told
      BY <2>1
    <2>3. ASSUME NEW w \in Tabs \X Tabs, NEW i \in 1..Len(wire'[w])
          PROVE  wire'[w][i] = Told
      <3>1. CASE w[1] = t /\ w[2] \in heard
        <4>1. wire'[w] = Append(wire[w], m)
          BY <1>9, <3>1, Zenon
        <4>2. wire[w] \in Seq(Messages) /\ Len(wire[w]) = 0
          BY <1>2, <2>1
        <4>3. wire'[w][1] = m /\ Len(wire'[w]) = 1
          BY <4>1, <4>2
        <4> QED BY <2>2, <4>3
      <3>2. CASE ~ (w[1] = t /\ w[2] \in heard)
        <4>1. wire'[w] = <<>>
          BY <1>9, <2>1, <3>2
        <4>2. Len(wire'[w]) = 0
          BY <4>1
        <4> QED BY <4>2
      <3> QED BY <3>1, <3>2
    <2>4. ASSUME NEW s \in Open \ missed', NoMessages(s)'
          PROVE  Fresh(s)'
      <3>1. s \in Tabs /\ s \in heard \cup {t}
        BY <1>9 DEF Open
      <3>2. s \notin heard
        <4>1. ASSUME s \in heard
              PROVE  FALSE
          <5>1. <<t, s>> \in Tabs \X Tabs /\ <<t, s>>[1] = t /\ <<t, s>>[2] = s
            BY <3>1
          <5>2. wire'[<<t, s>>] = Append(wire[<<t, s>>], m)
            BY <1>9, <4>1, <5>1, Zenon
          <5>3. wire[<<t, s>>] \in Seq(Messages) /\ m \in Messages
            BY <1>2, <5>1
          <5>4. Append(wire[<<t, s>>], m) # <<>>
              BY <5>3, AppendProperties
          <5> QED BY <2>4, <3>1, <5>2, <5>4 DEF NoMessages
        <4> QED BY <4>1
      <3>3. s = t
        BY <3>1, <3>2
      <3> QED BY <1>6, <2>2, <3>3 DEF Fresh, Shown
    <2> QED BY <2>3, <2>4
  <1> QED BY <1>11, <1>12, <1>14, <1>15 DEF Invariant

\* The two ends of a call.
LEMMA SignedKeeps ==
  ASSUME Invariant, NEW t \in Tabs, SignedIn(t) \/ SignedOut(t)
  PROVE  Invariant'
  <1>1. TypeOK /\ CallOK /\ AloneOK
    BY DEF Invariant
  <1>2. call \in [Tabs -> CallTypes] /\ session \in Users \cup {None}
        /\ agreed \in BOOLEAN /\ call[t] \in CallTypes
    BY <1>1, Types
  <1>3. CASE SignedOut(t)
    <2>1. /\ call[t].at = "answered" /\ call[t].user = None
          /\ call' = [call EXCEPT ![t] = NoCall]
          /\ status' = [status EXCEPT ![t] = "Unauthenticated"]
          /\ Post(t, "Logout") /\ agreed' = (call[t].ok /\ call[t].alone)
          /\ UNCHANGED <<session, listening, probe, calls>>
      BY <1>1, <1>3 DEF SignedOut, CallOK
    <2>2. "Logout" \in Messages
      BY DEF Messages
    <2>3. agreed' \in BOOLEAN
      BY <1>2, <2>1 DEF CallTypes
    <2>4. session = call[t].user => "Unauthenticated" = Shown /\ "Logout" = Told
      BY <2>1 DEF Shown, Told
    <2> QED BY <2>1, <2>2, <2>3, <2>4, PostKeeps
  <1>4. CASE SignedIn(t) /\ call[t].ok
    <2> DEFINE u == call[t].user
    <2>1. /\ call[t].at = "answered" /\ u \in Users
          /\ call' = [call EXCEPT ![t] = NoCall]
          /\ status' = [status EXCEPT ![t] = u]
          /\ Post(t, u) /\ agreed' = call[t].alone
          /\ UNCHANGED <<session, listening, probe, calls>>
      BY <1>1, <1>4 DEF SignedIn, CallOK
    <2>2. u \in Messages
      BY <2>1 DEF Messages
    <2>3. agreed' \in BOOLEAN
      BY <1>2, <2>1 DEF CallTypes
    <2>4. session = u => u = Shown /\ u = Told
      BY <2>1, Words DEF Shown, Told
    <2> QED BY <1>4, <2>1, <2>2, <2>3, <2>4, PostKeeps
  <1>5. CASE SignedIn(t) /\ ~ call[t].ok
    <2>1. /\ call[t].at = "answered" /\ call[t].op = "login"
          /\ call' = [call EXCEPT ![t] = NoCall]
          /\ UNCHANGED <<session, status, listening, probe, wire, calls, agreed, missed>>
      BY <1>5 DEF SignedIn
    <2>2. call'[t] = NoCall /\ \A s \in Tabs : s # t => call'[s] = call[s]
      BY <1>2, <2>1
    <2>3. TypeOK'
      <3>1. call' \in [Tabs -> CallTypes]
        BY <1>2, <2>1, NoCallFacts
      <3>2. \A s \in Tabs : status[s] = "closed" => call'[s] = NoCall
        BY <1>1, <2>2, Types
      <3>3. Open' = Open
        BY <2>1 DEF Open
      <3> QED BY <1>1, <2>1, <3>1, <3>2, <3>3, Types, TypesNext
    <2>4. CallOK'
      BY <1>1, <2>2, NoCallFacts DEF CallOK
    <2>5. AloneOK'
      <3>1. call[t] # NoCall
        BY <2>1, NoCallFacts
      <3>2. ASSUME NEW s \in Tabs, s # t
            PROVE  ~ call[s].alone /\ (agreed => call[s] = NoCall)
        BY <1>1, <3>1, <3>2 DEF AloneOK
      <3> QED BY <2>1, <2>2, <3>2, NoCallFacts DEF AloneOK
    <2>6. Agreement'
      <3> SUFFICES ASSUME agreed, \A s \in Tabs : ~ Changed(s)' PROVE Agreeing'
        BY <2>1 DEF Agreement
      <3>1. \A s \in Tabs : ~ Changed(s)
        BY <1>5, <2>1, <2>2 DEF Changed
      <3>2. Agreeing
        BY <3>1 DEF Invariant, Agreement
      <3> QED BY <2>1, <3>2, SameAgreeing
    <2> QED BY <2>3, <2>4, <2>5, <2>6 DEF Invariant
  <1> QED BY <1>3, <1>4, <1>5

-----------------------------------------------------------------------------
\* All tabs start closed.
LEMMA Starts ==
  ASSUME Init
  PROVE  Invariant
  <1>1. /\ \A t \in Tabs : /\ status[t] = "closed" /\ probe[t] = NoProbe
                           /\ call[t] = NoCall
        /\ \A w \in Tabs \X Tabs : wire[w] = <<>>
    BY DEF Init
  <1>2. Open = {}
    BY <1>1 DEF Open
  <1>3. TypeOK
    <2>1. status \in [Tabs -> Statuses] /\ probe \in [Tabs -> Probes]
          /\ call \in [Tabs -> CallTypes]
      BY ProbeFacts, NoCallFacts DEF Init, Statuses
    <2>2. wire \in [Tabs \X Tabs -> Seq(Messages)]
      <3>1. <<>> \in Seq(Messages)
        OBVIOUS
      <3> QED BY <3>1 DEF Init
    <2> QED BY <1>1, <1>2, <2>1, <2>2, Types DEF Init
  <1>4. CallOK /\ AloneOK
    BY <1>1, NoCallFacts DEF CallOK, AloneOK
  <1>5. Agreement
    <2>1. \A w \in Tabs \X Tabs : Len(wire[w]) = 0
      BY <1>1
    <2> QED BY <1>2, <2>1 DEF Agreement, Agreeing
  <1> QED BY <1>3, <1>4, <1>5 DEF Invariant

\* The invariant holds in every state the tabs reach.
LEMMA Reached == Spec => []Invariant
  <1>1. Init => Invariant
    BY Starts
  <1>2. Invariant /\ [Next]_vars => Invariant'
    <2> SUFFICES ASSUME Invariant, [Next]_vars PROVE Invariant'
      OBVIOUS
    <2>1. CASE UNCHANGED vars
      <3>1. UNCHANGED <<session, status, listening, probe, call, wire, calls, agreed, missed>>
        BY <2>1 DEF vars
      <3>2. TypeOK'
        BY <3>1, Types, TypesNext DEF Invariant, Open
      <3>3. CallOK' /\ AloneOK'
        BY <3>1 DEF Invariant, CallOK, AloneOK
      <3>4. Agreement'
        <4>1. Agreeing' <=> Agreeing
          BY <3>1, SameAgreeing
        <4> QED BY <3>1, <4>1 DEF Invariant, Agreement, Changed
      <3> QED BY <3>2, <3>3, <3>4 DEF Invariant
    <2>2. CASE EndSession
      BY <2>2, EndSessionKeeps
    <2>3. ASSUME NEW t \in Tabs,
                 OpenTab(t) \/ Listen(t) \/ CloseTab(t) \/ Probing(t)
                   \/ Calling(t) \/ Receive(t)
          PROVE  Invariant'
      BY <2>3, ProbingKeeps, CloseKeeps, BeginKeeps, AnswerKeeps, SignedKeeps,
         ReceiveKeeps DEF Calling
    <2> QED BY <2>1, <2>2, <2>3 DEF Next
  <1> QED BY <1>1, <1>2, PTL DEF Spec

\* Only open tabs listen, probe, call and are sent messages, and every state
\* is well typed.
THEOREM TabsTypeCorrect == Spec => []TypeOK
  <1>1. Invariant => TypeOK
    BY DEF Invariant
  <1> QED BY <1>1, Reached, PTL

\* Any number of tabs agree with the server once an undisturbed sign-in or
\* sign-out is done and heard of: no late probe of use_auth_restore, no old
\* message of CrossTabSync and no tab opened in between leaves one that shows
\* another user.
THEOREM TabsAgree == Spec => []InSync
  <1>1. Invariant => InSync
    <2> SUFFICES ASSUME Invariant, Quiet, agreed,
                        NEW t \in Open \ missed, status[t] # "Loading"
                 PROVE  status[t] = Shown
      BY DEF InSync, Shown
    <2>1. \A s \in Tabs : ~ Changed(s)
      BY NoCallFacts DEF Quiet, Changed
    <2>2. NoMessages(t)
      BY DEF Quiet, NoMessages, Open
    <2>3. Fresh(t)
      BY <2>1, <2>2 DEF Invariant, Agreement, Agreeing
    <2> QED BY <2>3 DEF Fresh
  <1> QED BY <1>1, Reached, PTL
=============================================================================
