------------------------------ MODULE SqlxStore ------------------------------
(***************************************************************************)
(* The store of examples/sqlx-sqlite: every number, the user id too, is     *)
(* bound as i64 and cast back; one missing row is fetch_optional, Ok(None). *)
(***************************************************************************)
EXTENDS SqlRows

create_user(users, u) ==
  IF \E r \in users : r.email = u.email
  THEN Returns(users, Err) ELSE Returns(users \cup {[u EXCEPT !.id = NextId(users)]}, Ok)

find_by_id(users, id) ==
  IF AsI64(id) \in UserIds(users) THEN Found(WithId(users, AsI64(id))) ELSE Absent

find_by_identifier(users, name) ==
  LET hits == {r \in users : r.email = name} IN
  IF hits = {} THEN Absent ELSE Found(CHOOSE r \in hits : TRUE)

save_session(users, rows, i, s) ==
  LET row == [s EXCEPT !.user = AsI64(@), !.created = AsI64(@),
                       !.expires = AsI64(@), !.active = MapOption(AsI64, @)]
  IN IF row.user \notin UserIds(users) THEN Returns(rows, Err)
     ELSE Returns(Upsert(rows, i, row), Ok)

SessionOf(row) ==
  [row EXCEPT !.user = AsU64(@), !.created = AsU64(@), !.expires = AsU64(@),
              !.active = MapOption(AsU64, @)]

find_session(rows, i) ==
  Returns(rows, IF rows[i] = None THEN Absent ELSE Found(SessionOf(rows[i])))

delete_session(rows, i) == Returns(Remove(rows, {i}), Ok)

\* Mutant: the sessions of everyone else are deleted.
DeleteOtherUsers(rows, u) ==
  Returns(Remove(rows, DOMAIN rows \ IdsOf(rows, AsI64(u))), Ok)

delete_user_sessions(rows, u) == Returns(Remove(rows, IdsOf(rows, AsI64(u))), Ok)

list_user_sessions(rows, u) ==
  Returns(rows, Listed({<<i, SessionOf(rows[i])>> : i \in IdsOf(rows, AsI64(u))}))
=============================================================================
