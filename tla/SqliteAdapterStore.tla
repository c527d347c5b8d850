-------------------------- MODULE SqliteAdapterStore --------------------------
(***************************************************************************)
(* The store of examples/sqlite_adapter.rs: rusqlite, i64 user ids, and a   *)
(* touch_session_if_present of its own, one UPDATE.                         *)
(***************************************************************************)
EXTENDS SqlRows

\* create_user: e-mail and username are UNIQUE.
create_user(users, u) ==
  IF \E r \in users : r.email = u.email \/ r.username = u.username
  THEN Returns(users, Err) ELSE Returns(users \cup {[u EXCEPT !.id = NextId(users)]}, Ok)

\* A missing row is .optional(): Ok(None).
find_by_id(users, id) == IF id \in UserIds(users) THEN Found(WithId(users, id)) ELSE Absent

find_by_identifier(users, name) ==
  LET hits == {r \in users : name \in {r.email, r.username}} IN
  IF hits = {} THEN Absent ELSE Found(CHOOSE r \in hits : TRUE)

\* The schema's foreign key refuses a session of a user that has no row.
save_session(users, rows, i, s) ==
  LET row == [s EXCEPT !.created = AsI64(@), !.expires = AsI64(@),
                       !.active = MapOption(AsI64, @)]
  IN IF s.user \notin UserIds(users) THEN Returns(rows, Err)
     ELSE Returns(Upsert(rows, i, row), Ok)

\* Mutant: the expiry read back is not cast to u64.
SessionUncast(row) ==
  [row EXCEPT !.created = AsU64(@), !.active = MapOption(AsU64, @)]

SessionOf(row) ==
  [row EXCEPT !.created = AsU64(@), !.expires = AsU64(@),
              !.active = MapOption(AsU64, @)]

find_session(rows, i) ==
  Returns(rows, IF rows[i] = None THEN Absent ELSE Found(SessionOf(rows[i])))

delete_session(rows, i) == Returns(Remove(rows, {i}), Ok)

delete_user_sessions(rows, u) == Returns(Remove(rows, IdsOf(rows, u)), Ok)

list_user_sessions(rows, u) ==
  Returns(rows, Listed({<<i, SessionOf(rows[i])>> : i \in IdsOf(rows, u)}))

\* Mutant: the update is an upsert of a session read before.
TouchUpserts(rows, i, expires, active) ==
  Returns([rows EXCEPT ![i] =
             [user |-> 1, created |-> 1, hash |-> None,
              expires |-> AsI64(expires), active |-> AsI64(active)]], Ok)

\* UPDATE sessions SET .. WHERE id: nothing happens to a session that is gone.
touch_session_if_present(rows, i, expires, active) ==
  Returns(IF rows[i] = None THEN rows
          ELSE [rows EXCEPT ![i].expires = AsI64(expires), ![i].active = AsI64(active)],
          Ok)
=============================================================================
