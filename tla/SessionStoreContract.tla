------------------------- MODULE SessionStoreContract -------------------------
(***************************************************************************)
(* What the SessionStore trait promises of a store that extends sessions    *)
(* conditionally (storage/session.rs, "Store contract"): a map from ids to  *)
(* sessions, every call one step of it, and an id whose session was         *)
(* deleted stays empty.  `last' is the call that returned last.             *)
(***************************************************************************)
EXTENDS FiniteSets

CONSTANTS None    \* no session

VARIABLES
  table,    \* id -> session, or None
  ended,    \* ids whose session was deleted
  last      \* the last call: op, id, arg and result

contractVars == <<table, ended, last>>

Is(op) == last'.op = op
Tag(t) == last'.out.tag = t

Init == ended = {} /\ \A i \in DOMAIN table : table[i] = None

\* save_session stores a new session, or fails and stores nothing.
Save ==
  /\ Is("save")
  /\ \/ /\ Tag("ok")
        /\ last'.id \notin ended
        /\ table' = [table EXCEPT ![last'.id] = last'.arg]
     \/ Tag("err") /\ UNCHANGED table
  /\ UNCHANGED ended

\* find_session answers what was stored; an unknown id is None, not an error.
Find ==
  /\ Is("find")
  /\ LET s == table[last'.id] IN
     IF s = None THEN Tag("none") ELSE Tag("some") /\ last'.out.got = {s}
  /\ UNCHANGED <<table, ended>>

EndsExactly(ids) ==
  /\ Tag("ok")
  /\ table' = [i \in DOMAIN table |-> IF i \in ids THEN None ELSE table[i]]
  /\ ended' = ended \cup {i \in ids : table[i] # None}

Delete == Is("delete") /\ EndsExactly({last'.id})

Of(u) == {i \in DOMAIN table : table[i] # None /\ table[i].user = u}

DeleteUser == Is("delete_user") /\ EndsExactly(Of(last'.arg))

List ==
  /\ Is("list") /\ Tag("list")
  /\ last'.out.got = {<<i, table[i]>> : i \in Of(last'.arg)}
  /\ UNCHANGED <<table, ended>>

\* touch_session_if_present extends a session that is there and nothing else.
Touch ==
  /\ Is("touch") /\ Tag("ok")
  /\ table' = IF table[last'.id] = None THEN table
              ELSE [table EXCEPT ![last'.id].expires = last'.arg[1],
                                 ![last'.id].active = last'.arg[2]]
  /\ UNCHANGED ended

\* A call may fail, and has no effect then.
Fail == Tag("fail") /\ UNCHANGED <<table, ended>>

Next == Save \/ Find \/ Delete \/ DeleteUser \/ List \/ Touch \/ Fail

Spec == Init /\ [][Next]_contractVars
=============================================================================
