--------------------------- MODULE SqliteDemoStore ---------------------------
(***************************************************************************)
(* The store of examples/sqlite-demo: rusqlite and u64 ids.  A query for    *)
(* one row that is missing is an error here: query_row is mapped to Some,   *)
(* where the other stores ask for .optional().  rusqlite refuses a u64      *)
(* parameter above i64::MAX; last_active is cast.                           *)
(***************************************************************************)
EXTENDS SqlRows

create_user(users, u) ==
  IF \E r \in users : r.email = u.email
  THEN Returns(users, Err) ELSE Returns(users \cup {[u EXCEPT !.id = NextId(users)]}, Ok)

find_by_id(users, id) == IF id \in UserIds(users) THEN Found(WithId(users, id)) ELSE Err

find_by_identifier(users, name) ==
  LET hits == {r \in users : r.email = name} IN
  IF hits = {} THEN Err ELSE Found(CHOOSE r \in hits : TRUE)

save_session(users, rows, i, s) ==
  IF \/ s.user \notin UserIds(users)
     \/ s.created > I64Max
     \/ s.expires > I64Max
  THEN Returns(rows, Err)
  ELSE Returns(Upsert(rows, i, [s EXCEPT !.active = MapOption(AsI64, @)]), Ok)

SessionOf(row) == [row EXCEPT !.active = MapOption(AsU64, @)]

find_session(rows, i) ==
  Returns(rows, IF rows[i] = None THEN Err ELSE Found(SessionOf(rows[i])))

delete_session(rows, i) == Returns(Remove(rows, {i}), Ok)

delete_user_sessions(rows, u) ==
  IF u > I64Max THEN Returns(rows, Err) ELSE Returns(Remove(rows, IdsOf(rows, u)), Ok)

list_user_sessions(rows, u) ==
  Returns(rows, IF u > I64Max THEN Err
                ELSE Listed({<<i, SessionOf(rows[i])>> : i \in IdsOf(rows, u)}))
=============================================================================
