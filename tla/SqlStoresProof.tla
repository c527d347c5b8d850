---------------------------- MODULE SqlStoresProof ----------------------------
(***************************************************************************)
(* RevivedOnlyByOverlap, OwnerKept, ImplementsContract and                 *)
(* OnlyLateTouchDiffers for every number of ids, sessions and extensions   *)
(* in progress, every width of a word and every mix of the four stores;    *)
(* SuitesPassCorrectStores for every width that holds the numbers of the   *)
(* suites, and every choice of suites and hashes.                          *)
(***************************************************************************)
EXTENDS SqlStores, TLAPS

\* A table or a register of the application is a function on the whole of S.
On(S, f) == f = [x \in S |-> f[x]]

\* The inductive invariant: a row, and a copy that an extension holds, are of a
\* session that was saved; what is settled was saved, is gone, and nobody holds it.
Overlap ==
  /\ On(Ids, rows) /\ On(Ids, saved) /\ On(Tasks, pend)
  /\ settled \subseteq {i \in Ids : saved[i] # None}
  /\ \A i \in settled : rows[i] = None
  /\ \A i \in Ids : rows[i] # None => saved[i] # None
  /\ \A t \in Tasks : pend[t] # None =>
       pend[t].id \in Ids /\ saved[pend[t].id] # None /\ pend[t].id \notin settled

SuiteOK == \E s, a, f : suite = [script |-> s, at |-> a, failed |-> f]

IInv == kind \in Stores /\ SuiteOK /\ (Application => Overlap)

\* A session that is saved is a value of its own, with numbers of 64 bits.
LEMMA NewSession ==
  ASSUME NEW s \in NewSessions
  PROVE  /\ s # None /\ s \in Session(0..U64Max) /\ s \in Session(Int)
         /\ U64Max >= 0
  <1>1. s \in Session(0..U64Max)
    BY SessionsAssumption
  <1>2. s \in Session(Int) /\ s.user \in 0..U64Max
    BY <1>1 DEF Session
  <1>3. U64Max \in Int
    BY BitsAssumption DEF U64Max
  <1> QED BY <1>1, <1>2, <1>3, NoneAssumption

-----------------------------------------------------------------------------
\* What the statements of the stores do to a table.

\* save_session writes the row of its id or, answering an error, nothing.
LEMMA SaveRows ==
  ASSUME kind \in Stores, NEW rs, On(Ids, rs), NEW i \in Ids, NEW s
  PROVE  LET ret == save_session(rs, i, s) IN
         /\ On(Ids, ret.rows)
         /\ \A j \in Ids \ {i} : ret.rows[j] = rs[j]
         /\ ret.out # Ok => ret.rows = rs
  <1> DEFINE Writes(r) == Returns(Upsert(rs, i, r), Ok)
             Fails == Returns(rs, Err)
             Good(ret) == /\ On(Ids, ret.rows)
                          /\ \A j \in Ids \ {i} : ret.rows[j] = rs[j]
                          /\ ret.out # Ok => ret.rows = rs
  <1>1. ASSUME NEW r PROVE Good(Writes(r))
    <2>1. Writes(r).rows = Upsert(rs, i, r) /\ Writes(r).out = Ok
      BY DEF Returns
    <2> QED BY <2>1 DEF Upsert, On
  <1>2. Good(Fails)
    BY DEF Returns, On
  <1>3. Good(Returns([rs EXCEPT ![i] = s], Ok))
    BY DEF Returns, On
  <1> HIDE DEF Writes, Fails, Good
  <1>4. CASE kind = "memory"
    BY <1>3, <1>4 DEF save_session, Good
  <1>5. CASE kind = "adapter"
    <2> DEFINE row == [s EXCEPT !.created = Adapter!AsI64(@), !.expires = Adapter!AsI64(@),
                           !.active = Adapter!MapOption(Adapter!AsI64, @)]
    <2>1. \/ Adapter!save_session(users, rs, i, s) = Adapter!Returns(rs, Adapter!Err)
          \/ Adapter!save_session(users, rs, i, s) =
               Adapter!Returns(Adapter!Upsert(rs, i, row), Adapter!Ok)
      BY Zenon DEF Adapter!save_session
    <2> HIDE DEF row
    <2>2. /\ Adapter!Returns(rs, Adapter!Err) = Fails
          /\ Adapter!Returns(Adapter!Upsert(rs, i, row), Adapter!Ok) = Writes(row)
      BY DEF Adapter!Returns, Adapter!Upsert, Adapter!Ok, Adapter!Err, Returns, Upsert, Ok, Err,
             Fails, Writes
    <2> QED BY <2>1, <2>2, <1>1, <1>2, <1>5 DEF save_session, Good
  <1>6. CASE kind = "sqlite_demo"
    <2>1. \/ Demo!save_session(users, rs, i, s) = Fails
          \/ \E r : Demo!save_session(users, rs, i, s) = Writes(r)
      BY DEF Demo!save_session, Demo!Returns, Demo!Upsert, Demo!Ok, Demo!Err,
             Returns, Upsert, Ok, Err, Fails, Writes
    <2> QED BY <2>1, <1>1, <1>2, <1>6 DEF save_session, Good
  <1>7. CASE kind = "sqlx"
    <2> DEFINE row == [s EXCEPT !.user = Sqlx!AsI64(@), !.created = Sqlx!AsI64(@),
                           !.expires = Sqlx!AsI64(@), !.active = Sqlx!MapOption(Sqlx!AsI64, @)]
    <2>1. \/ Sqlx!save_session(users, rs, i, s) = Sqlx!Returns(rs, Sqlx!Err)
          \/ Sqlx!save_session(users, rs, i, s) =
               Sqlx!Returns(Sqlx!Upsert(rs, i, row), Sqlx!Ok)
      BY Zenon DEF Sqlx!save_session
    <2> HIDE DEF row
    <2>2. /\ Sqlx!Returns(rs, Sqlx!Err) = Fails
          /\ Sqlx!Returns(Sqlx!Upsert(rs, i, row), Sqlx!Ok) = Writes(row)
      BY DEF Sqlx!Returns, Sqlx!Upsert, Sqlx!Ok, Sqlx!Err, Returns, Upsert, Ok, Err,
             Fails, Writes
    <2> QED BY <2>1, <2>2, <1>1, <1>2, <1>7 DEF save_session, Good
  <1> QED BY <1>4, <1>5, <1>6, <1>7 DEF Stores

\* find_session finds rows and nothing else, and leaves the table alone.
LEMMA FindRows ==
  ASSUME kind \in Stores, NEW rs, NEW i
  PROVE  LET ret == find_session(rs, i) IN
         /\ ret.rows = rs
         /\ ret.out.tag \in {"some", "none", "err"}
         /\ ret.out.tag = "some" => rs[i] # None
  <1>1. CASE kind = "memory"
    BY <1>1 DEF find_session, memory_find, Returns, Absent, Found
  <1>2. CASE kind = "adapter"
    BY <1>2 DEF find_session, Adapter!find_session, Adapter!Returns, Adapter!Absent, Adapter!Found
  <1>3. CASE kind = "sqlite_demo"
    BY <1>3 DEF find_session, Demo!find_session, Demo!Returns, Demo!Err, Demo!Found
  <1>4. CASE kind = "sqlx"
    BY <1>4 DEF find_session, Sqlx!find_session, Sqlx!Returns, Sqlx!Absent, Sqlx!Found
  <1> QED BY <1>1, <1>2, <1>3, <1>4 DEF Stores

\* A deletion, of one id or of a user's, empties rows and fills none.
LEMMA DeleteRows ==
  ASSUME kind \in Stores, NEW rs, On(Ids, rs), NEW i, NEW u
  PROVE  \A ret \in {delete_session(rs, i), delete_user_sessions(rs, u)} :
           On(Ids, ret.rows) /\ \A j \in Ids : ret.rows[j] # None => ret.rows[j] = rs[j]
  <1> DEFINE Good(ret) ==
        On(Ids, ret.rows) /\ \A j \in Ids : ret.rows[j] # None => ret.rows[j] = rs[j]
  <1>1. \A ids : Good(Returns(Remove(rs, ids), Ok))
    BY DEF Returns, Remove, On
  <1> SUFFICES Good(delete_session(rs, i)) /\ Good(delete_user_sessions(rs, u))
    OBVIOUS
  <1> HIDE DEF Good
  <1>2. CASE kind = "memory"
    BY <1>1, <1>2 DEF delete_session, delete_user_sessions
  <1>3. CASE kind = "adapter"
    <2>1. \A ids : Adapter!Returns(Adapter!Remove(rs, ids), Adapter!Ok) = Returns(Remove(rs, ids), Ok)
      BY DEF Adapter!Returns, Adapter!Remove, Adapter!Ok, Returns, Remove, Ok
    <2> QED BY <1>1, <1>3, <2>1 DEF delete_session, delete_user_sessions,
              Adapter!delete_session, Adapter!delete_user_sessions
  <1>4. CASE kind = "sqlite_demo"
    <2>1. \A ids : Demo!Returns(Demo!Remove(rs, ids), Demo!Ok) = Returns(Remove(rs, ids), Ok)
      BY DEF Demo!Returns, Demo!Remove, Demo!Ok, Returns, Remove, Ok
    <2>2. Good(Demo!Returns(rs, Demo!Err))
      BY DEF Demo!Returns, Good
    <2> QED BY <1>1, <1>4, <2>1, <2>2 DEF delete_session, delete_user_sessions,
              Demo!delete_session, Demo!delete_user_sessions
  <1>5. CASE kind = "sqlx"
    <2>1. \A ids : Sqlx!Returns(Sqlx!Remove(rs, ids), Sqlx!Ok) = Returns(Remove(rs, ids), Ok)
      BY DEF Sqlx!Returns, Sqlx!Remove, Sqlx!Ok, Returns, Remove, Ok
    <2> QED BY <1>1, <1>5, <2>1 DEF delete_session, delete_user_sessions,
              Sqlx!delete_session, Sqlx!delete_user_sessions
  <1> QED BY <1>2, <1>3, <1>4, <1>5 DEF Stores

\* A listing leaves the table alone.
LEMMA ListRows ==
  ASSUME kind \in Stores, NEW rs, NEW u
  PROVE  list_user_sessions(rs, u).rows = rs
  <1>1. CASE kind = "memory"
    <2>1. \A x : Returns(rs, x).rows = rs
      BY DEF Returns
    <2>2. memory_list(rs, u).rows = rs
      BY <2>1, Zenon DEF memory_list
    <2> QED BY <1>1, <2>2 DEF list_user_sessions
  <1>2. CASE kind = "adapter"
    <2>1. \A x : Adapter!Returns(rs, x).rows = rs
      BY DEF Adapter!Returns
    <2>2. Adapter!list_user_sessions(rs, u).rows = rs
      BY <2>1, Zenon DEF Adapter!list_user_sessions
    <2> QED BY <1>2, <2>2 DEF list_user_sessions
  <1>3. CASE kind = "sqlite_demo"
    <2>1. \A x : Demo!Returns(rs, x).rows = rs
      BY DEF Demo!Returns
    <2> DEFINE out == IF u > Demo!I64Max THEN Demo!Err
                      ELSE Demo!Listed({<<i, Demo!SessionOf(rs[i])>> : i \in Demo!IdsOf(rs, u)})
    <2>2. Demo!list_user_sessions(rs, u) = Demo!Returns(rs, out)
      BY Zenon DEF Demo!list_user_sessions
    <2> HIDE DEF out
    <2>3. Demo!list_user_sessions(rs, u).rows = rs
      BY <2>1, <2>2
    <2> QED BY <1>3, <2>3 DEF list_user_sessions
  <1>4. CASE kind = "sqlx"
    <2>1. \A x : Sqlx!Returns(rs, x).rows = rs
      BY DEF Sqlx!Returns
    <2>2. Sqlx!list_user_sessions(rs, u).rows = rs
      BY <2>1, Zenon DEF Sqlx!list_user_sessions
    <2> QED BY <1>4, <2>2 DEF list_user_sessions
  <1> QED BY <1>1, <1>2, <1>3, <1>4 DEF Stores

\* The conditional touch changes a row that is there, and no other.
LEMMA TouchRows ==
  ASSUME kind \in Conditional, On(Ids, rows), NEW i \in Ids, NEW e, NEW a
  PROVE  LET ret == touch_session_if_present(rows, i, e, a) IN
         /\ On(Ids, ret.rows)
         /\ \A j \in Ids : rows[j] = None => ret.rows[j] = None
  <1>1. CASE kind = "memory"
    <2>1. touch_session_if_present(rows, i, e, a) = memory_touch(rows, i, e, a)
      BY <1>1 DEF touch_session_if_present
    <2>2. CASE rows[i] = None
      BY <2>1, <2>2 DEF memory_touch, Returns
    <2>3. CASE rows[i] # None
      <3>1. touch_session_if_present(rows, i, e, a).rows =
              [rows EXCEPT ![i].expires = e, ![i].active = a]
        BY <2>1, <2>3 DEF memory_touch, Returns
      <3> QED BY <3>1, <2>3 DEF On
    <2> QED BY <2>2, <2>3
  <1>2. CASE kind = "adapter"
    <2>1. touch_session_if_present(rows, i, e, a)
            = Adapter!touch_session_if_present(rows, i, e, a)
      BY <1>2 DEF touch_session_if_present
    <2>2. CASE rows[i] = None
      BY <2>1, <2>2 DEF Adapter!touch_session_if_present, Adapter!Returns
    <2>3. CASE rows[i] # None
      <3>1. touch_session_if_present(rows, i, e, a).rows =
              [rows EXCEPT ![i].expires = Adapter!AsI64(e), ![i].active = Adapter!AsI64(a)]
        BY <2>1, <2>3 DEF Adapter!touch_session_if_present, Adapter!Returns
      <3> QED BY <3>1, <2>3 DEF On
    <2> QED BY <2>2, <2>3
  <1> QED BY <1>1, <1>2 DEF Conditional

-----------------------------------------------------------------------------
\* A call that fills no settled row, fills rows of saved sessions only and puts
\* away no copy keeps the invariant: what it settles, nobody holds.
LEMMA CallStep ==
  ASSUME IInv, Application, NEW op, NEW id, NEW arg, NEW ret, Call(op, id, arg, ret),
         On(Ids, ret.rows), On(Ids, saved'), On(Tasks, pend'),
         \A i \in Ids : saved[i] # None => saved'[i] # None,
         \A i \in settled : ret.rows[i] = None,
         \A i \in Ids : ret.rows[i] # None => saved'[i] # None,
         \A t \in Tasks : pend'[t] # None => pend'[t] = pend[t]
  PROVE  IInv'
  <1>1. Overlap
    BY DEF IInv
  <1>2. /\ rows' = ret.rows /\ kind' = kind /\ suite' = suite
        /\ settled' = settled \cup (Ending(ret.rows) \ Held)
    BY DEF Call
  <1>3. \A i \in Ending(ret.rows) \ Held :
           /\ i \in Ids /\ rows[i] # None /\ ret.rows[i] = None
           /\ \A t \in Tasks : pend[t] # None => pend[t].id # i
    BY DEF Ending, Held
  <1>4. On(Ids, rows)' /\ On(Ids, saved)' /\ On(Tasks, pend)'
    BY <1>2 DEF On
  <1>5. settled' \subseteq {i \in Ids : saved'[i] # None}
    BY <1>1, <1>2, <1>3 DEF Overlap
  <1>6. \A i \in settled' : rows'[i] = None
    BY <1>2, <1>3
  <1>7. \A t \in Tasks : pend'[t] # None =>
           pend'[t].id \in Ids /\ saved'[pend'[t].id] # None /\ pend'[t].id \notin settled'
    BY <1>1, <1>2, <1>3 DEF Overlap
  <1>8. Overlap'
    BY <1>2, <1>4, <1>5, <1>6, <1>7 DEF Overlap
  <1> QED BY <1>2, <1>8 DEF IInv, SuiteOK

\* A statement that fails leaves everything but the touch it ends.
LEMMA FailedStatement ==
  ASSUME StatementFails, On(Tasks, pend)
  PROVE  /\ UNCHANGED <<kind, users, rows, saved, ended, settled, suite>>
         /\ On(Tasks, pend')
         /\ \A t \in Tasks : pend'[t] # None => pend'[t] = pend[t]
         /\ last'.out.tag = "fail"
  <1>1. UNCHANGED <<kind, users, rows, saved, ended, settled, suite>>
    BY DEF StatementFails
  <1>2. \/ pend' = pend
        \/ \E t \in Tasks : pend' = [pend EXCEPT ![t] = None]
    BY DEF StatementFails
  <1>3. On(Tasks, pend') /\ \A t \in Tasks : pend'[t] # None => pend'[t] = pend[t]
    BY <1>2 DEF On
  <1>4. last'.out.tag = "fail"
    <2>1. \/ \E i, op : last' = [NoCall EXCEPT !.op = op, !.id = i, !.out = Failed]
          \/ \E t : last' = [NoCall EXCEPT !.op = "touch", !.id = pend[t].id, !.out = Failed]
      BY DEF StatementFails
    <2>2. last'.out = Failed
      BY <2>1 DEF NoCall
    <2> QED BY <2>2 DEF Failed
  <1> QED BY <1>1, <1>3, <1>4

\* A store starts empty, so nothing is settled and nobody holds a copy.
LEMMA Initially == Init => IInv
  <1> SUFFICES ASSUME Init PROVE IInv
    OBVIOUS
  <1>1. kind \in Stores
    BY KindsAssumption DEF Init
  <1>2. PICK script \in Scripts :
           /\ suite = [script |-> script, at |-> 1, failed |-> 0]
           /\ rows = [i \in IF script = "app" THEN Ids ELSE SuiteIds |-> None]
    BY DEF Init
  <1>3. /\ saved = [i \in Ids |-> None] /\ pend = [t \in Tasks |-> None]
        /\ settled = {}
    BY DEF Init
  <1>4. Application => rows = [i \in Ids |-> None]
    BY <1>2 DEF Application
  <1>5. Application => Overlap
    BY <1>3, <1>4 DEF Overlap, On
  <1> QED BY <1>1, <1>2, <1>5 DEF IInv, SuiteOK

\* Every call, every half of a default touch and every line of a suite keeps it.
LEMMA Inductive == IInv /\ [Next]_vars => IInv'
  <1> SUFFICES ASSUME IInv, [Next]_vars PROVE IInv'
    OBVIOUS
  <1>0. kind \in Stores /\ (Application => Overlap)
    BY DEF IInv
  <1>1. ASSUME NEW i \in Ids, Save(i) PROVE IInv'
    <2>1. PICK s \in NewSessions :
            /\ Call("save", i, s, save_session(rows, i, s))
            /\ saved' = [saved EXCEPT ![i] =
                 IF save_session(rows, i, s).out = Ok THEN s ELSE None]
      BY <1>1 DEF Save
    <2> DEFINE ret == save_session(rows, i, s)
    <2>2. Application /\ saved[i] = None /\ pend' = pend /\ Overlap
      BY <1>0, <1>1 DEF Save
    <2>3. /\ On(Ids, ret.rows)
          /\ \A j \in Ids \ {i} : ret.rows[j] = rows[j]
          /\ ret.out # Ok => ret.rows = rows
      BY <1>0, <2>2, SaveRows DEF Overlap
    <2>4. /\ On(Ids, saved') /\ saved'[i] = (IF ret.out = Ok THEN s ELSE None)
          /\ \A j \in Ids \ {i} : saved'[j] = saved[j]
      BY <2>1, <2>2 DEF Overlap, On
    <2>5. s # None
      BY NewSession
    <2>6. Call("save", i, s, ret)
      BY <2>1
    <2> HIDE DEF ret
    <2>7. \A j \in settled : ret.rows[j] = None
      BY <2>2, <2>3 DEF Overlap
    <2>8. \A j \in Ids : ret.rows[j] # None => saved'[j] # None
      BY <2>2, <2>3, <2>4, <2>5 DEF Overlap
    <2>9. On(Tasks, pend')
      BY <2>2 DEF Overlap
    <2>10. \A j \in Ids : saved[j] # None => saved'[j] # None
      BY <2>2, <2>4
    <2> QED BY <2>2, <2>3, <2>4, <2>6, <2>7, <2>8, <2>9, <2>10, CallStep
  <1>2. ASSUME NEW op, NEW id, NEW arg, NEW ret, Application, Call(op, id, arg, ret),
               On(Ids, ret.rows),
               \A j \in Ids : rows[j] = None => ret.rows[j] = None,
               pend' = pend, saved' = saved
        PROVE  IInv'
    <2>1. Overlap
      BY <1>0, <1>2
    <2>2. On(Ids, saved') /\ On(Tasks, pend')
      BY <1>2, <2>1 DEF Overlap
    <2>3. \A j \in settled : ret.rows[j] = None
      BY <1>2, <2>1 DEF Overlap
    <2>4. \A j \in Ids : ret.rows[j] # None => saved'[j] # None
      BY <1>2, <2>1 DEF Overlap
    <2> QED BY <1>2, <2>2, <2>3, <2>4, CallStep
  <1>3. ASSUME NEW i \in Ids, Find(i) PROVE IInv'
    <2>1. /\ Application /\ pend' = pend /\ saved' = saved
          /\ Call("find", i, None, find_session(rows, i))
      BY <1>3 DEF Find
    <2>2. find_session(rows, i).rows = rows
      BY <1>0, FindRows
    <2>3. On(Ids, rows)
      BY <1>0, <2>1 DEF Overlap
    <2> QED BY <1>2, <2>1, <2>2, <2>3
  <1>4. ASSUME NEW i \in Ids, Delete(i) PROVE IInv'
    <2>1. /\ Application /\ pend' = pend /\ saved' = saved
          /\ Call("delete", i, None, delete_session(rows, i))
      BY <1>4 DEF Delete
    <2>2. On(Ids, rows)
      BY <1>0, <2>1 DEF Overlap
    <2>3. /\ On(Ids, delete_session(rows, i).rows)
          /\ \A j \in Ids : rows[j] = None => delete_session(rows, i).rows[j] = None
      BY <1>0, <2>2, DeleteRows
    <2> QED BY <1>2, <2>1, <2>3
  <1>5. ASSUME DeleteUser PROVE IInv'
    <2>1. PICK u \in OwnerIds :
            Call("delete_user", None, u, delete_user_sessions(rows, u))
      BY <1>5 DEF DeleteUser
    <2>2. Application /\ pend' = pend /\ saved' = saved
      BY <1>5 DEF DeleteUser
    <2>3. On(Ids, rows)
      BY <1>0, <2>2 DEF Overlap
    <2>4. /\ On(Ids, delete_user_sessions(rows, u).rows)
                 /\ \A j \in Ids :
                      rows[j] = None => delete_user_sessions(rows, u).rows[j] = None
      BY <1>0, <2>3, DeleteRows
    <2> QED BY <1>2, <2>1, <2>2, <2>4
  <1>6. ASSUME List PROVE IInv'
    <2>1. PICK u \in OwnerIds : Call("list", None, u, list_user_sessions(rows, u))
      BY <1>6 DEF List
    <2>2. Application /\ pend' = pend /\ saved' = saved
      BY <1>6 DEF List
    <2>3. list_user_sessions(rows, u).rows = rows /\ On(Ids, rows)
      BY <1>0, <2>2, ListRows DEF Overlap
    <2> QED BY <1>2, <2>1, <2>2, <2>3
  <1>7. ASSUME NEW i \in Ids, Touch(i) PROVE IInv'
    <2>1. /\ Application /\ kind \in Conditional /\ pend' = pend /\ saved' = saved
          /\ \E e \in Touches :
               Call("touch", i, e, touch_session_if_present(rows, i, e[1], e[2]))
      BY <1>7 DEF Touch
    <2>2. PICK e \in Touches :
            Call("touch", i, e, touch_session_if_present(rows, i, e[1], e[2]))
      BY <2>1
    <2> DEFINE ret == touch_session_if_present(rows, i, e[1], e[2])
    <2>3. On(Ids, rows)
      BY <1>0, <2>1 DEF Overlap
    <2>4. On(Ids, ret.rows) /\ \A j \in Ids : rows[j] = None => ret.rows[j] = None
      BY <2>1, <2>3, TouchRows
    <2>5. Call("touch", i, e, ret)
      BY <2>2
    <2> HIDE DEF ret
    <2> QED BY <1>2, <2>1, <2>4, <2>5
  <1>8. ASSUME NEW t \in Tasks, NEW i \in Ids, TouchFind(t, i) PROVE IInv'
    <2>1. Application /\ kind \notin Conditional /\ Overlap
      BY <1>0, <1>8 DEF TouchFind
    <2> DEFINE found == find_session(rows, i).out
    <2>2. found.tag \in {"some", "none", "err"} /\ (found.tag = "some" => rows[i] # None)
      BY <1>0, FindRows
    <2>3. PICK e \in Touches :
            \/ /\ found.tag = "some"
               /\ pend' = [pend EXCEPT ![t] =
                    [id |-> i, arg |-> e, session |-> Extended(The(found), e[1], e[2])]]
               /\ UNCHANGED <<kind, users, rows, last, saved, ended, settled, suite>>
            \/ /\ found.tag # "some"
               /\ Call("touch", i, e, touch_session_if_present(rows, i, e[1], e[2]))
               /\ UNCHANGED <<pend, saved>>
      BY <1>8 DEF TouchFind
    <2>4. CASE found.tag = "some"
      <3>1. PICK copy :
              /\ pend' = [pend EXCEPT ![t] = copy] /\ copy.id = i
              /\ UNCHANGED <<kind, users, rows, last, saved, ended, settled, suite>>
        <4> DEFINE read == [id |-> i, arg |-> e, session |-> Extended(The(found), e[1], e[2])]
        <4>1. /\ pend' = [pend EXCEPT ![t] = read]
              /\ UNCHANGED <<kind, users, rows, last, saved, ended, settled, suite>>
          BY <2>3, <2>4
        <4>2. read.id = i
          OBVIOUS
        <4> HIDE DEF read
        <4> QED BY <4>1, <4>2
      <3>2. saved[i] # None /\ i \notin settled
        BY <2>1, <2>2, <2>4 DEF Overlap
      <3>3. /\ On(Tasks, pend') /\ pend'[t] = copy
            /\ \A u \in Tasks \ {t} : pend'[u] = pend[u]
        BY <2>1, <3>1 DEF Overlap, On
      <3>4. Overlap'
        BY <2>1, <3>1, <3>2, <3>3 DEF Overlap, On
      <3> QED BY <3>1, <3>4 DEF IInv, SuiteOK
    <2>5. CASE found.tag # "some"
      <3>1. touch_session_if_present(rows, i, e[1], e[2]) \in
              {Returns(rows, Ok), Returns(rows, Err)}
        BY <2>1, <2>2, <2>5 DEF touch_session_if_present, Conditional
      <3>2. touch_session_if_present(rows, i, e[1], e[2]).rows = rows
        BY <3>1 DEF Returns
      <3>3. /\ pend' = pend /\ saved' = saved
            /\ Call("touch", i, e, touch_session_if_present(rows, i, e[1], e[2]))
        BY <2>3, <2>5
      <3>4. On(Ids, rows)
        BY <2>1 DEF Overlap
      <3> QED BY <1>2, <2>1, <3>2, <3>3, <3>4
    <2> QED BY <2>4, <2>5
  <1>9. ASSUME NEW t \in Tasks, TouchSave(t) PROVE IInv'
    <2>1. Application /\ Overlap /\ pend[t] # None
      BY <1>0, <1>9 DEF TouchSave
    <2> DEFINE i == pend[t].id
               ret == save_session(rows, pend[t].id, pend[t].session)
    <2>2. i \in Ids /\ saved[i] # None /\ i \notin settled
      BY <2>1 DEF Overlap
    <2>3. /\ Call("touch", i, pend[t].arg, ret)
          /\ pend' = [pend EXCEPT ![t] = None] /\ saved' = saved
      BY <1>9 DEF TouchSave
    <2>4. On(Ids, rows) /\ On(Ids, saved') /\ On(Tasks, pend)
      BY <2>1, <2>3 DEF Overlap
    <2>5. On(Ids, ret.rows) /\ \A j \in Ids \ {i} : ret.rows[j] = rows[j]
      BY <1>0, <2>2, <2>4, SaveRows
    <2> HIDE DEF ret
    <2>6. /\ On(Tasks, pend')
          /\ \A u \in Tasks : pend'[u] # None => pend'[u] = pend[u]
      BY <2>3, <2>4 DEF On
    <2>7. \A j \in settled : ret.rows[j] = None
      BY <2>1, <2>2, <2>5 DEF Overlap
    <2>8. \A j \in Ids : ret.rows[j] # None => saved'[j] # None
      BY <2>1, <2>2, <2>3, <2>5 DEF Overlap
    <2>9. \A j \in Ids : saved[j] # None => saved'[j] # None
      BY <2>3
    <2>10. PICK arg : arg = pend[t].arg
      OBVIOUS
    <2>11. Application /\ Call("touch", i, arg, ret)
      BY <2>1, <2>3, <2>10
    <2>12. On(Ids, ret.rows) /\ On(Ids, saved')
      BY <2>4, <2>5
    <2> HIDE DEF i
    <2> QED BY <2>6, <2>7, <2>8, <2>9, <2>11, <2>12, CallStep
  <1>10. ASSUME SuiteStep PROVE IInv'
    <2>1. /\ ~ Application /\ kind' = kind /\ SuiteOK
          /\ \/ suite' = [suite EXCEPT !.at = @ + 1]
             \/ suite' = [suite EXCEPT !.failed = suite.at]
      BY <1>10 DEF SuiteStep, IInv
    <2>2. SuiteOK' /\ suite'.script = suite.script
      BY <2>1 DEF SuiteOK
    <2> QED BY <1>0, <2>1, <2>2 DEF IInv, Application
  <1>11. ASSUME UNCHANGED vars PROVE IInv'
    BY <1>11 DEF IInv, Overlap, SuiteOK, Application, On, vars
  <1>12. ASSUME StatementFails PROVE IInv'
    <2>1. Application /\ On(Tasks, pend)
      BY <1>0, <1>12 DEF StatementFails, Overlap
    <2>2. /\ UNCHANGED <<kind, users, rows, saved, ended, settled, suite>>
          /\ On(Tasks, pend')
          /\ \A t \in Tasks : pend'[t] # None => pend'[t] = pend[t]
      BY <1>12, <2>1, FailedStatement
    <2>3. Overlap'
      BY <1>0, <2>1, <2>2 DEF Overlap, On
    <2> QED BY <2>2, <2>3 DEF IInv, SuiteOK
  <1> QED
    BY <1>1, <1>3, <1>4, <1>5, <1>6, <1>7, <1>8, <1>9, <1>10, <1>11, <1>12 DEF Next

\* Whatever the store, the tasks and the times: once a session was deleted with
\* no default touch holding a copy of it, no later call of the application, and
\* no touch that reads after the delete, fills its row again.
THEOREM RevivalNeedsOverlap == Spec => []RevivedOnlyByOverlap
  <1>1. IInv => RevivedOnlyByOverlap
    BY DEF IInv, Overlap, RevivedOnlyByOverlap
  <1> QED BY Initially, Inductive, <1>1, PTL DEF Spec

-----------------------------------------------------------------------------
\* What the numbers of a row mean.

\* The session that store k reads back from a row.
Reads(k, row) ==
  CASE k = "memory" -> row
    [] k = "adapter" -> Adapter!SessionOf(row)
    [] k = "sqlite_demo" -> Demo!SessionOf(row)
    [] k = "sqlx" -> Sqlx!SessionOf(row)

\* What OwnerKept says of a session.
Owner(s) == <<s.user, s.created, s.hash>>

\* A u64 survives the way into the database and back.
LEMMA RoundTrip ==
  ASSUME NEW x \in 0..U64Max
  PROVE  AsI64(x) \in Int /\ AsU64(AsI64(x)) = x
  <1> DEFINE P == 2^Bits
  <1>1. P \in Int
    BY BitsAssumption
  <1>2. P \in Nat \ {0} /\ x \in 0..(P - 1)
    BY <1>1 DEF U64Max
  <1>3. AsI64(x) \in {x, x - P} /\ \A y : AsU64(y) = y % P
    BY DEF AsI64, AsU64
  <1> HIDE DEF P
  <1>4. x % P = x /\ (x - P) % P = x
    BY ONLY <1>2
  <1>5. AsI64(x) \in Int
    BY ONLY <1>2, <1>3
  <1> QED BY <1>3, <1>4, <1>5

\* So does an Option of one.
LEMMA OptionRoundTrip ==
  ASSUME NEW x \in (0..U64Max) \cup {None}
  PROVE  /\ MapOption(AsI64, x) \in Int \cup {None}
         /\ MapOption(AsU64, MapOption(AsI64, x)) = x
  BY RoundTrip, NoneAssumption DEF MapOption

\* The three stores cast in the same way.
LEMMA Casts ==
  ASSUME NEW x
  PROVE  /\ Adapter!AsI64(x) = AsI64(x) /\ Adapter!AsU64(x) = AsU64(x)
         /\ Demo!AsI64(x) = AsI64(x) /\ Demo!AsU64(x) = AsU64(x)
         /\ Sqlx!AsI64(x) = AsI64(x) /\ Sqlx!AsU64(x) = AsU64(x)
  BY DEF Adapter!AsI64, AsI64, Adapter!AsU64, AsU64, Demo!AsI64, Demo!AsU64, Sqlx!AsI64, Sqlx!AsU64,
     Adapter!I64Max, Demo!I64Max, Sqlx!I64Max, I64Max

\* And cast what an Option holds in the same way.
LEMMA OptionCasts ==
  ASSUME NEW x
  PROVE  /\ Adapter!MapOption(Adapter!AsI64, x) = MapOption(AsI64, x)
         /\ Adapter!MapOption(Adapter!AsU64, x) = MapOption(AsU64, x)
         /\ Demo!MapOption(Demo!AsI64, x) = MapOption(AsI64, x)
         /\ Demo!MapOption(Demo!AsU64, x) = MapOption(AsU64, x)
         /\ Sqlx!MapOption(Sqlx!AsI64, x) = MapOption(AsI64, x)
         /\ Sqlx!MapOption(Sqlx!AsU64, x) = MapOption(AsU64, x)
  BY Casts DEF Adapter!MapOption, Demo!MapOption, Sqlx!MapOption, MapOption



\* A session is its five fields.
LEMMA SameFields ==
  ASSUME NEW s \in Session(Int), NEW t \in Session(Int),
         s.user = t.user, s.created = t.created, s.expires = t.expires,
         s.active = t.active, s.hash = t.hash
  PROVE  s = t
  BY DEF Session

\* What each store reads back from a row: some numbers are cast, the hash never is.
LEMMA ReadsShape ==
  ASSUME kind \in Stores, NEW row
  PROVE  /\ kind = "memory" => Reads(kind, row) = row
         /\ kind = "adapter" => Reads(kind, row) =
              [row EXCEPT !.created = AsU64(row.created), !.expires = AsU64(row.expires),
                          !.active = MapOption(AsU64, row.active)]
         /\ kind = "sqlite_demo" => Reads(kind, row) =
              [row EXCEPT !.active = MapOption(AsU64, row.active)]
         /\ kind = "sqlx" => Reads(kind, row) =
              [row EXCEPT !.user = AsU64(row.user), !.created = AsU64(row.created),
                          !.expires = AsU64(row.expires),
                          !.active = MapOption(AsU64, row.active)]
  <1>1. CASE kind = "memory"
    BY <1>1 DEF Reads
  <1>2. CASE kind = "adapter"
    <2>1. Reads(kind, row) = Adapter!SessionOf(row)
      BY <1>2 DEF Reads
    <2> DEFINE c == Adapter!AsU64(row.created)
               e == Adapter!AsU64(row.expires)
               a == Adapter!MapOption(Adapter!AsU64, row.active)
    <2>2. Reads(kind, row) = [row EXCEPT !.created = c, !.expires = e, !.active = a]
      BY <2>1, Zenon DEF Adapter!SessionOf
    <2>3. c = AsU64(row.created) /\ e = AsU64(row.expires) /\ a = MapOption(AsU64, row.active)
      BY Casts, OptionCasts
    <2> HIDE DEF c, e, a
    <2> QED BY <1>2, <2>2, <2>3
  <1>3. CASE kind = "sqlite_demo"
    <2>1. Reads(kind, row) = Demo!SessionOf(row)
      BY <1>3 DEF Reads
    <2> DEFINE a == Demo!MapOption(Demo!AsU64, row.active)
    <2>2. Reads(kind, row) = [row EXCEPT !.active = a]
      BY <2>1, Zenon DEF Demo!SessionOf
    <2>3. a = MapOption(AsU64, row.active)
      BY Casts, OptionCasts
    <2> HIDE DEF a
    <2> QED BY <1>3, <2>2, <2>3
  <1>4. CASE kind = "sqlx"
    <2>1. Reads(kind, row) = Sqlx!SessionOf(row)
      BY <1>4 DEF Reads
    <2> DEFINE u == Sqlx!AsU64(row.user)
               c == Sqlx!AsU64(row.created)
               e == Sqlx!AsU64(row.expires)
               a == Sqlx!MapOption(Sqlx!AsU64, row.active)
    <2>2. Reads(kind, row) = [row EXCEPT !.user = u, !.created = c, !.expires = e, !.active = a]
      BY <2>1, Zenon DEF Sqlx!SessionOf
    <2>3. /\ u = AsU64(row.user) /\ c = AsU64(row.created) /\ e = AsU64(row.expires)
          /\ a = MapOption(AsU64, row.active)
      BY Casts, OptionCasts
    <2> HIDE DEF u, c, e, a
    <2> QED BY <1>4, <2>2, <2>3
  <1> QED BY <1>1, <1>2, <1>3, <1>4 DEF Stores

\* The same, field by field.
LEMMA ReadsFields ==
  ASSUME kind \in Stores, NEW row \in Session(Int)
  PROVE  /\ Reads(kind, row).hash = row.hash
         /\ kind # "sqlx" => Reads(kind, row).user = row.user
         /\ kind \in {"memory", "sqlite_demo"} =>
              Reads(kind, row).created = row.created /\ Reads(kind, row).expires = row.expires
         /\ kind = "memory" => Reads(kind, row).active = row.active
         /\ kind = "sqlx" => Reads(kind, row).user = AsU64(row.user)
         /\ kind \in {"adapter", "sqlx"} =>
              Reads(kind, row).created = AsU64(row.created) /\ Reads(kind, row).expires = AsU64(row.expires)
         /\ kind # "memory" => Reads(kind, row).active = MapOption(AsU64, row.active)
  <1> DEFINE u == AsU64(row.user)
             c == AsU64(row.created)
             e == AsU64(row.expires)
             a == MapOption(AsU64, row.active)
  <1>1. \/ kind = "memory" /\ Reads(kind, row) = row
        \/ /\ kind = "adapter"
           /\ Reads(kind, row) = [row EXCEPT !.created = c, !.expires = e, !.active = a]
        \/ kind = "sqlite_demo" /\ Reads(kind, row) = [row EXCEPT !.active = a]
        \/ /\ kind = "sqlx"
           /\ Reads(kind, row) = [row EXCEPT !.user = u, !.created = c, !.expires = e, !.active = a]
    BY ReadsShape DEF Stores
  <1> HIDE DEF u, c, e, a
  <1>2. CASE kind = "memory"
    BY <1>1, <1>2
  <1>3. CASE kind = "adapter"
    <2>1. /\ Reads(kind, row).user = row.user /\ Reads(kind, row).created = c /\ Reads(kind, row).expires = e
          /\ Reads(kind, row).active = a /\ Reads(kind, row).hash = row.hash
      BY <1>1, <1>3 DEF Session
    <2> QED BY <1>3, <2>1 DEF c, e, a
  <1>4. CASE kind = "sqlite_demo"
    <2>1. /\ Reads(kind, row).user = row.user /\ Reads(kind, row).created = row.created
          /\ Reads(kind, row).expires = row.expires
          /\ Reads(kind, row).active = a /\ Reads(kind, row).hash = row.hash
      BY <1>1, <1>4 DEF Session
    <2> QED BY <1>4, <2>1 DEF a
  <1>5. CASE kind = "sqlx"
    <2>1. /\ Reads(kind, row).user = u /\ Reads(kind, row).created = c /\ Reads(kind, row).expires = e
          /\ Reads(kind, row).active = a /\ Reads(kind, row).hash = row.hash
      BY <1>1, <1>5 DEF Session
    <2> QED BY <1>5, <2>1 DEF u, c, e, a
  <1> QED BY <1>2, <1>3, <1>4, <1>5 DEF Stores

\* What is read back is a session again.
LEMMA ReadsType ==
  ASSUME kind \in Stores, NEW row \in Session(Int), U64Max >= 0
  PROVE  Reads(kind, row) \in Session(Int)
  <1> DEFINE P == 2^Bits
             u == AsU64(row.user)
             c == AsU64(row.created)
             e == AsU64(row.expires)
             a == MapOption(AsU64, row.active)
  <1>1. \/ kind = "memory" /\ Reads(kind, row) = row
        \/ /\ kind = "adapter"
           /\ Reads(kind, row) = [row EXCEPT !.created = c, !.expires = e, !.active = a]
        \/ kind = "sqlite_demo" /\ Reads(kind, row) = [row EXCEPT !.active = a]
        \/ /\ kind = "sqlx"
           /\ Reads(kind, row) = [row EXCEPT !.user = u, !.created = c, !.expires = e, !.active = a]
    BY ReadsShape DEF Stores
  <1>2. P \in Int
    BY BitsAssumption
  <1>3. P \in Nat \ {0}
    BY <1>2 DEF U64Max
  <1>4. \A y \in Int : AsU64(y) = y % P
    BY DEF AsU64
  <1> HIDE DEF P
  <1>5. \A y \in Int : y % P \in Int
    BY ONLY <1>3
  <1>6. \A y \in Int : AsU64(y) \in Int
    BY <1>4, <1>5
  <1>7. row.user \in Int /\ row.created \in Int /\ row.expires \in Int
        /\ row.active \in Int \cup {None}
    BY DEF Session
  <1>8. u \in Int /\ c \in Int /\ e \in Int /\ a \in Int \cup {None}
    BY <1>6, <1>7 DEF MapOption
  <1> HIDE DEF u, c, e, a
  <1>9. /\ [row EXCEPT !.created = c, !.expires = e, !.active = a] \in Session(Int)
        /\ [row EXCEPT !.active = a] \in Session(Int)
        /\ [row EXCEPT !.user = u, !.created = c, !.expires = e, !.active = a]
             \in Session(Int)
    BY <1>8 DEF Session
  <1> QED BY <1>1, <1>9

\* What save_session writes of a session reads back as that session.
LEMMA SaveWrites ==
  ASSUME kind \in Stores, NEW rs, NEW i, NEW s \in Session(0..U64Max)
  PROVE  \E row \in Session(Int) :
           /\ Reads(kind, row) = s
           /\ \/ save_session(rs, i, s) = Returns(rs, Err)
              \/ save_session(rs, i, s) = Returns(Upsert(rs, i, row), Ok)
              \/ kind = "memory" /\ save_session(rs, i, s) = Returns([rs EXCEPT ![i] = row], Ok)
  <1> DEFINE u == AsI64(s.user)
             c == AsI64(s.created)
             e == AsI64(s.expires)
             a == MapOption(AsI64, s.active)
  <1>1. /\ s.user \in 0..U64Max /\ s.created \in 0..U64Max /\ s.expires \in 0..U64Max
        /\ s.active \in (0..U64Max) \cup {None}
    BY DEF Session
  <1>2. s \in Session(Int)
    BY DEF Session
  <1>3. /\ u \in Int /\ c \in Int /\ e \in Int /\ a \in Int \cup {None}
        /\ AsU64(u) = s.user /\ AsU64(c) = s.created /\ AsU64(e) = s.expires
        /\ MapOption(AsU64, a) = s.active
    BY <1>1, RoundTrip, OptionRoundTrip
  <1>4. U64Max >= 0
    <2>1. U64Max \in Int
      BY BitsAssumption DEF U64Max
    <2> QED BY <1>1, <2>1
  <1>5. CASE kind = "memory"
    <2>1. save_session(rs, i, s) = Returns([rs EXCEPT ![i] = s], Ok)
      BY <1>5 DEF save_session
    <2>2. Reads(kind, s) = s
      BY <1>5, ReadsShape
    <2> QED BY <1>2, <1>5, <2>1, <2>2
  <1>6. CASE kind = "adapter"
    <2> DEFINE c1 == Adapter!AsI64(s.created)
               e1 == Adapter!AsI64(s.expires)
               a1 == Adapter!MapOption(Adapter!AsI64, s.active)
               row == [s EXCEPT !.created = c1, !.expires = e1, !.active = a1]
    <2>1. c1 = c /\ e1 = e /\ a1 = a
      BY Casts, OptionCasts
    <2>2. \/ Adapter!save_session(users, rs, i, s) = Adapter!Returns(rs, Adapter!Err)
          \/ Adapter!save_session(users, rs, i, s) =
               Adapter!Returns(Adapter!Upsert(rs, i, row), Adapter!Ok)
      BY Zenon DEF Adapter!save_session
    <2> HIDE DEF c1, e1, a1, u, c, e, a
    <2>3. /\ row \in Session(Int) /\ row.hash = s.hash
          /\ row.user = s.user /\ row.created = c /\ row.expires = e /\ row.active = a
      BY <1>2, <1>3, <2>1 DEF Session
    <2> HIDE DEF row
    <2>4. /\ Reads(kind, row).hash = s.hash /\ Reads(kind, row).user = s.user
          /\ Reads(kind, row).created = s.created /\ Reads(kind, row).expires = s.expires
          /\ Reads(kind, row).active = s.active
      BY <1>3, <1>6, <2>3, ReadsFields
    <2>5. Reads(kind, row) = s
      BY <1>2, <1>4, <2>3, <2>4, ReadsType, SameFields
    <2>6. /\ Adapter!Returns(rs, Adapter!Err) = Returns(rs, Err)
          /\ Adapter!Returns(Adapter!Upsert(rs, i, row), Adapter!Ok) = Returns(Upsert(rs, i, row), Ok)
      BY DEF Adapter!Returns, Adapter!Upsert, Adapter!Ok, Adapter!Err, Returns, Upsert, Ok, Err
    <2> QED BY <1>6, <2>2, <2>3, <2>5, <2>6 DEF save_session
  <1>7. CASE kind = "sqlite_demo"
    <2> DEFINE a1 == Demo!MapOption(Demo!AsI64, s.active)
               row == [s EXCEPT !.active = a1]
    <2>1. a1 = a
      BY Casts, OptionCasts
    <2>2. \/ Demo!save_session(users, rs, i, s) = Demo!Returns(rs, Demo!Err)
          \/ Demo!save_session(users, rs, i, s) =
               Demo!Returns(Demo!Upsert(rs, i, row), Demo!Ok)
      BY Zenon DEF Demo!save_session
    <2> HIDE DEF a1, u, c, e, a
    <2>3. /\ row \in Session(Int) /\ row.hash = s.hash
          /\ row.user = s.user /\ row.created = s.created /\ row.expires = s.expires /\ row.active = a
      BY <1>2, <1>3, <2>1 DEF Session
    <2> HIDE DEF row
    <2>4. /\ Reads(kind, row).hash = s.hash /\ Reads(kind, row).user = s.user
          /\ Reads(kind, row).created = s.created /\ Reads(kind, row).expires = s.expires
          /\ Reads(kind, row).active = s.active
      BY <1>3, <1>7, <2>3, ReadsFields
    <2>5. Reads(kind, row) = s
      BY <1>2, <1>4, <2>3, <2>4, ReadsType, SameFields
    <2>6. /\ Demo!Returns(rs, Demo!Err) = Returns(rs, Err)
          /\ Demo!Returns(Demo!Upsert(rs, i, row), Demo!Ok) = Returns(Upsert(rs, i, row), Ok)
      BY DEF Demo!Returns, Demo!Upsert, Demo!Ok, Demo!Err, Returns, Upsert, Ok, Err
    <2> QED BY <1>7, <2>2, <2>3, <2>5, <2>6 DEF save_session
  <1>8. CASE kind = "sqlx"
    <2> DEFINE u1 == Sqlx!AsI64(s.user)
               c1 == Sqlx!AsI64(s.created)
               e1 == Sqlx!AsI64(s.expires)
               a1 == Sqlx!MapOption(Sqlx!AsI64, s.active)
               row == [s EXCEPT !.user = u1, !.created = c1, !.expires = e1, !.active = a1]
    <2>1. u1 = u /\ c1 = c /\ e1 = e /\ a1 = a
      BY Casts, OptionCasts
    <2>2. \/ Sqlx!save_session(users, rs, i, s) = Sqlx!Returns(rs, Sqlx!Err)
          \/ Sqlx!save_session(users, rs, i, s) =
               Sqlx!Returns(Sqlx!Upsert(rs, i, row), Sqlx!Ok)
      BY Zenon DEF Sqlx!save_session
    <2> HIDE DEF u1, c1, e1, a1, u, c, e, a
    <2>3. /\ row \in Session(Int) /\ row.hash = s.hash
          /\ row.user = u /\ row.created = c /\ row.expires = e /\ row.active = a
      BY <1>2, <1>3, <2>1 DEF Session
    <2> HIDE DEF row
    <2>4. /\ Reads(kind, row).hash = s.hash /\ Reads(kind, row).user = s.user
          /\ Reads(kind, row).created = s.created /\ Reads(kind, row).expires = s.expires
          /\ Reads(kind, row).active = s.active
      BY <1>3, <1>8, <2>3, ReadsFields
    <2>5. Reads(kind, row) = s
      BY <1>2, <1>4, <2>3, <2>4, ReadsType, SameFields
    <2>6. /\ Sqlx!Returns(rs, Sqlx!Err) = Returns(rs, Err)
          /\ Sqlx!Returns(Sqlx!Upsert(rs, i, row), Sqlx!Ok) = Returns(Upsert(rs, i, row), Ok)
      BY DEF Sqlx!Returns, Sqlx!Upsert, Sqlx!Ok, Sqlx!Err, Returns, Upsert, Ok, Err
    <2> QED BY <1>8, <2>2, <2>3, <2>5, <2>6 DEF save_session
  <1> QED BY <1>5, <1>6, <1>7, <1>8 DEF Stores

\* find_session finds a row, reads it back, and answers what it read.
LEMMA FindReads ==
  ASSUME kind \in Stores, NEW rs, NEW i
  PROVE  LET out == find_session(rs, i).out IN
         /\ rs[i] # None => out.tag = "some" /\ The(out) = Reads(kind, rs[i])
         /\ rs[i] # None => out = Found(Reads(kind, rs[i]))
         /\ rs[i] = None => out.tag # "some"
         /\ rs[i] = None => out = IF kind = "sqlite_demo" THEN Err ELSE Absent
  <1> DEFINE out == find_session(rs, i).out
             r == Reads(kind, rs[i])
  <1>1. /\ rs[i] # None => out = Found(r)
        /\ rs[i] = None => out = IF kind = "sqlite_demo" THEN Err ELSE Absent
    <2>1. CASE kind = "memory"
      BY <2>1 DEF find_session, memory_find, Returns, Reads
    <2>2. CASE kind = "adapter"
      <3>1. r = Adapter!SessionOf(rs[i])
        BY <2>2 DEF Reads
      <3>2. out = Adapter!find_session(rs, i).out
        BY <2>2 DEF find_session
      <3>3. out = IF rs[i] = None THEN Adapter!Absent ELSE Adapter!Found(r)
        BY <3>1, <3>2 DEF Adapter!find_session, Adapter!Returns
      <3> HIDE DEF out, r
      <3> QED BY <2>2, <3>3 DEF Adapter!Absent, Adapter!Found, Absent, Found
    <2>3. CASE kind = "sqlite_demo"
      <3>1. r = Demo!SessionOf(rs[i])
        BY <2>3 DEF Reads
      <3>2. out = Demo!find_session(rs, i).out
        BY <2>3 DEF find_session
      <3>3. out = IF rs[i] = None THEN Demo!Err ELSE Demo!Found(r)
        BY <3>1, <3>2 DEF Demo!find_session, Demo!Returns
      <3> HIDE DEF out, r
      <3> QED BY <2>3, <3>3 DEF Demo!Err, Demo!Found, Err, Found
    <2>4. CASE kind = "sqlx"
      <3>1. r = Sqlx!SessionOf(rs[i])
        BY <2>4 DEF Reads
      <3>2. out = Sqlx!find_session(rs, i).out
        BY <2>4 DEF find_session
      <3>3. out = IF rs[i] = None THEN Sqlx!Absent ELSE Sqlx!Found(r)
        BY <3>1, <3>2 DEF Sqlx!find_session, Sqlx!Returns
      <3> HIDE DEF out, r
      <3> QED BY <2>4, <3>3 DEF Sqlx!Absent, Sqlx!Found, Absent, Found
    <2> QED BY <2>1, <2>2, <2>3, <2>4 DEF Stores
  <1> HIDE DEF out, r
  <1>2. Found(r).tag = "some" /\ The(Found(r)) = r
    BY DEF Found, The
  <1>3. Absent.tag = "none" /\ Err.tag = "err"
    BY DEF Absent, Err
  <1>4. /\ rs[i] # None => out.tag = "some" /\ The(out) = r /\ out = Found(r)
        /\ rs[i] = None => out.tag # "some"
        /\ rs[i] = None => out = IF kind = "sqlite_demo" THEN Err ELSE Absent
    BY <1>1, <1>2, <1>3
  <1> QED BY <1>4 DEF out, r

\* An upsert of a session under its own id changes neither its owner nor its start.
LEMMA UpsertReads ==
  ASSUME kind \in Stores, NEW rs, On(Ids, rs), NEW i \in Ids, NEW row \in Session(Int)
  PROVE  LET up == Upsert(rs, i, row) IN
         /\ rs[i] = None => up[i] = row
         /\ /\ rs[i] # None /\ rs[i] \in Session(Int)
            /\ Owner(Reads(kind, rs[i])) = Owner(Reads(kind, row))
            => /\ up[i] \in Session(Int)
               /\ Owner(Reads(kind, up[i])) = Owner(Reads(kind, row))
  <1> DEFINE up == Upsert(rs, i, row)
             old == rs[i]
  <1>1. ASSUME rs[i] = None PROVE up[i] = row
    BY <1>1 DEF Upsert, On
  <1>2. ASSUME old # None, old \in Session(Int),
               Owner(Reads(kind, old)) = Owner(Reads(kind, row))
        PROVE  /\ up[i] \in Session(Int)
               /\ Owner(Reads(kind, up[i])) = Owner(Reads(kind, row))
    <2> DEFINE new == [old EXCEPT !.expires = row.expires, !.active = row.active, !.hash = row.hash]
    <2>1. up[i] = new
      BY <1>2 DEF Upsert, On
    <2> HIDE DEF up, old
    <2>2. /\ new \in Session(Int) /\ new.user = old.user /\ new.created = old.created
          /\ new.hash = row.hash
      BY <1>2 DEF Session
    <2> HIDE DEF new
    <2>3. /\ Reads(kind, new).user = Reads(kind, old).user
          /\ Reads(kind, new).created = Reads(kind, old).created
          /\ Reads(kind, new).hash = row.hash /\ Reads(kind, row).hash = row.hash
      BY <1>2, <2>2, ReadsFields DEF Stores
    <2>4. /\ Reads(kind, old).user = Reads(kind, row).user
          /\ Reads(kind, old).created = Reads(kind, row).created
      BY <1>2 DEF Owner
    <2> QED BY <2>1, <2>2, <2>3, <2>4 DEF Owner
  <1> QED BY <1>1, <1>2

\* The conditional touch of a row reads back as the session extended.
LEMMA TouchReads ==
  ASSUME kind \in Conditional, On(Ids, rows), NEW i \in Ids,
         NEW e \in 0..U64Max, NEW a \in 0..U64Max, rows[i] \in Session(Int) \cup {None}
  PROVE  LET ret == touch_session_if_present(rows, i, e, a) IN
         /\ ret.out = Ok /\ On(Ids, ret.rows)
         /\ \A j \in Ids \ {i} : ret.rows[j] = rows[j]
         /\ rows[i] = None => ret.rows = rows
         /\ rows[i] # None =>
              /\ ret.rows[i] \in Session(Int)
              /\ Reads(kind, ret.rows[i]) = Extended(Reads(kind, rows[i]), e, a)
  <1> DEFINE ret == touch_session_if_present(rows, i, e, a)
             e1 == IF kind = "memory" THEN e ELSE AsI64(e)
             a1 == IF kind = "memory" THEN a ELSE AsI64(a)
             row == [rows[i] EXCEPT !.expires = e1, !.active = a1]
  <1>1. ret = Returns(IF rows[i] = None THEN rows
                      ELSE [rows EXCEPT ![i].expires = e1, ![i].active = a1], Ok)
    <2>1. CASE kind = "memory"
      <3>1. ret = memory_touch(rows, i, e, a)
        BY <2>1 DEF touch_session_if_present
      <3> HIDE DEF ret
      <3> QED BY <2>1, <3>1, Zenon DEF memory_touch
    <2>2. CASE kind = "adapter"
      <3>1. ret = Adapter!touch_session_if_present(rows, i, e, a)
        BY <2>2 DEF touch_session_if_present
      <3>2. Adapter!AsI64(e) = e1 /\ Adapter!AsI64(a) = a1
        BY <2>2, Casts
      <3>3. \A x : Adapter!Returns(x, Adapter!Ok) = Returns(x, Ok)
        BY DEF Adapter!Returns, Adapter!Ok, Returns, Ok
      <3> HIDE DEF ret, e1, a1
      <3>4. ret = Adapter!Returns(IF rows[i] = None THEN rows
                      ELSE [rows EXCEPT ![i].expires = e1, ![i].active = a1], Adapter!Ok)
        BY <3>1, <3>2, Zenon DEF Adapter!touch_session_if_present
      <3> QED BY <3>3, <3>4
    <2> QED BY <2>1, <2>2 DEF Conditional
  <1>2. /\ e1 \in Int /\ a1 \in Int
        /\ kind = "adapter" => AsU64(e1) = e /\ AsU64(a1) = a
        /\ kind = "memory" => e1 = e /\ a1 = a
    <2>1. e \in Int /\ a \in Int
      OBVIOUS
    <2> QED BY <2>1, RoundTrip
  <1>3. kind \in Stores /\ kind \in {"memory", "adapter"}
    BY DEF Conditional, Stores
  <1> HIDE DEF ret, e1, a1
  <1>4. CASE rows[i] = None
    <2>1. ret.rows = rows /\ ret.out = Ok
      BY <1>1, <1>4 DEF Returns
    <2> QED BY <1>4, <2>1 DEF ret
  <1>5. CASE rows[i] # None
    <2>1. ret.rows = [rows EXCEPT ![i].expires = e1, ![i].active = a1] /\ ret.out = Ok
      BY <1>1, <1>5 DEF Returns
    <2>2. ret.rows = [rows EXCEPT ![i] = row]
      BY <2>1 DEF On
    <2>3. On(Ids, ret.rows) /\ ret.rows[i] = row /\ \A j \in Ids \ {i} : ret.rows[j] = rows[j]
      BY <2>2 DEF On
    <2>4. row \in Session(Int)
          /\ row.user = rows[i].user /\ row.created = rows[i].created
          /\ row.hash = rows[i].hash /\ row.expires = e1 /\ row.active = a1
      BY <1>2, <1>5 DEF Session
    <2> HIDE DEF row
    <2>5. U64Max >= 0
      <3>1. U64Max \in Int
        BY BitsAssumption DEF U64Max
      <3> QED BY <3>1
    <2> DEFINE r == Reads(kind, row)
               old == Reads(kind, rows[i])
               new == [old EXCEPT !.expires = e, !.active = a]
    <2>6. r \in Session(Int) /\ old \in Session(Int)
      BY <1>3, <1>5, <2>4, <2>5, ReadsType
    <2>7. /\ r.user = old.user /\ r.created = old.created /\ r.hash = old.hash
          /\ r.expires = e /\ r.active = a
      <3>1. r.user = old.user /\ r.created = old.created /\ r.hash = old.hash
        BY <1>3, <1>5, <2>4, ReadsFields
      <3>2. CASE kind = "memory"
        <4>1. r = row
          BY <1>3, <3>2, ReadsShape
        <4> HIDE DEF r, old
        <4> QED BY <1>2, <2>4, <3>1, <3>2, <4>1
      <3>3. CASE kind = "adapter"
        <4>1. r.expires = AsU64(e1) /\ r.active = MapOption(AsU64, a1)
          BY <1>3, <3>3, <2>4, ReadsFields
        <4>2. MapOption(AsU64, a1) = AsU64(a1)
          BY <1>2, NoneAssumption DEF MapOption
        <4> QED BY <1>2, <3>1, <3>3, <4>1, <4>2
      <3> QED BY <1>3, <3>1, <3>2, <3>3
    <2> HIDE DEF r, old
    <2>8. /\ new \in Session(Int) /\ new.user = old.user /\ new.created = old.created
          /\ new.hash = old.hash /\ new.expires = e /\ new.active = a
      <3>1. e \in Int /\ a \in Int
        OBVIOUS
      <3> QED BY ONLY <2>6, <3>1 DEF Session
    <2> HIDE DEF new
    <2>9. r = new
      BY <2>6, <2>7, <2>8, SameFields
    <2> QED BY <1>5, <2>1, <2>3, <2>4, <2>9 DEF ret, r, new, old, Extended
  <1> QED BY <1>4, <1>5

-----------------------------------------------------------------------------
\* The strengthening of Overlap for what is in the rows and copies: a row reads
\* back with the owner, start and hash of the session saved, and so does a copy,
\* which only the stores with the default touch make.
Kept ==
  /\ \A i \in Ids : saved[i] \in NewSessions \cup {None}
  /\ ended \subseteq {i \in Ids : saved[i] # None}
  /\ \A i \in Ids : rows[i] # None =>
       rows[i] \in Session(Int) /\ Owner(Reads(kind, rows[i])) = Owner(saved[i])
  /\ \A t \in Tasks : pend[t] # None =>
       /\ kind \notin Conditional
       /\ pend[t].session \in Session(0..U64Max)
       /\ Owner(pend[t].session) = Owner(saved[pend[t].id])

KInv == IInv /\ (Application => Kept)

\* A call that leaves what it leaves of a row with its owner keeps the rest.
LEMMA CallKeeps ==
  ASSUME KInv, Application, NEW op, NEW id, NEW arg, NEW ret, Call(op, id, arg, ret),
         saved' = saved,
         \A t \in Tasks : pend'[t] # None => pend'[t] = pend[t],
         \A j \in Ids : ret.rows[j] # None =>
            /\ ret.rows[j] \in Session(Int)
            /\ Owner(Reads(kind, ret.rows[j])) = Owner(saved[j])
  PROVE  Kept'
  <1>1. Kept /\ Overlap
    BY DEF KInv, IInv
  <1>2. /\ rows' = ret.rows /\ kind' = kind /\ ended' = ended \cup Ending(ret.rows)
    BY DEF Call
  <1>3. \A j \in Ending(ret.rows) : j \in Ids /\ rows[j] # None
    BY DEF Ending
  <1>4. ended' \subseteq {i \in Ids : saved'[i] # None}
    BY <1>1, <1>2, <1>3 DEF Kept, Overlap
  <1>5. \A j \in Ids : rows'[j] # None =>
           rows'[j] \in Session(Int) /\ Owner(Reads(kind', rows'[j])) = Owner(saved'[j])
    BY <1>2
  <1>6. \A t \in Tasks : pend'[t] # None =>
       /\ kind' \notin Conditional
       /\ pend'[t].session \in Session(0..U64Max)
       /\ Owner(pend'[t].session) = Owner(saved'[pend'[t].id])
    BY <1>1, <1>2 DEF Kept
  <1>7. \A i \in Ids : saved'[i] \in NewSessions \cup {None}
    BY <1>1 DEF Kept
  <1> QED BY <1>4, <1>5, <1>6, <1>7 DEF Kept

\* An empty table, no session saved and no copy held: it holds at the start.
LEMMA KeptInitially == Init => KInv
  <1> SUFFICES ASSUME Init PROVE Application => Kept
    BY Initially DEF KInv
  <1>1. PICK script \in Scripts :
           /\ suite = [script |-> script, at |-> 1, failed |-> 0]
           /\ rows = [i \in IF script = "app" THEN Ids ELSE SuiteIds |-> None]
    BY DEF Init
  <1>2. /\ saved = [i \in Ids |-> None] /\ pend = [t \in Tasks |-> None]
        /\ ended = {}
    BY DEF Init
  <1>3. Application => rows = [i \in Ids |-> None]
    BY <1>1 DEF Application
  <1> QED BY <1>2, <1>3 DEF Kept

\* Save writes a row that reads back as the session; an upsert and a touch keep
\* its owner; a copy has the owner of its row; a deletion fills nothing.
LEMMA KeptInductive == KInv /\ [Next]_vars => KInv'
  <1> SUFFICES ASSUME KInv, [Next]_vars, Application, Application' PROVE Kept'
    <2>1. KInv /\ [Next]_vars => IInv'
      BY Inductive DEF KInv
    <2>2. KInv /\ [Next]_vars /\ Application' => Application
      <3> SUFFICES ASSUME KInv, [Next]_vars PROVE suite'.script = suite.script
        BY DEF Application
      <3>1. SuiteOK
        BY DEF KInv, IInv
      <3>2. CASE SuiteStep
        <4>1. \/ suite' = [suite EXCEPT !.at = @ + 1]
              \/ suite' = [suite EXCEPT !.failed = suite.at]
          BY <3>2 DEF SuiteStep
        <4> QED BY <3>1, <4>1 DEF SuiteOK
      <3>3. CASE UNCHANGED suite
        BY <3>3
      <3>4. Next => SuiteStep \/ UNCHANGED suite
        BY DEF Next, Save, Find, Delete, Touch, TouchFind, TouchSave, DeleteUser, List,
               StatementFails, Call
      <3> QED BY <3>2, <3>3, <3>4 DEF vars
    <2> QED BY <2>1, <2>2 DEF KInv
  <1>0. kind \in Stores /\ Overlap /\ Kept /\ On(Ids, rows) /\ On(Ids, saved) /\ On(Tasks, pend)
    BY DEF KInv, IInv, Overlap
  <1>1. ASSUME NEW i \in Ids, Save(i) PROVE Kept'
    <2>1. PICK s \in NewSessions :
            /\ Call("save", i, s, save_session(rows, i, s))
            /\ saved' = [saved EXCEPT ![i] =
                 IF save_session(rows, i, s).out = Ok THEN s ELSE None]
      BY <1>1 DEF Save
    <2> DEFINE ret == save_session(rows, i, s)
    <2>2. saved[i] = None /\ rows[i] = None /\ pend' = pend
      BY <1>0, <1>1 DEF Save, Overlap
    <2>3. s # None /\ s \in Session(0..U64Max) /\ s \in Session(Int)
      BY NewSession
    <2>4. PICK row \in Session(Int) :
           /\ Reads(kind, row) = s
           /\ \/ ret = Returns(rows, Err)
              \/ ret = Returns(Upsert(rows, i, row), Ok)
              \/ ret = Returns([rows EXCEPT ![i] = row], Ok)
      BY <1>0, <2>3, SaveWrites
    <2>5. Call("save", i, s, ret) /\ saved' = [saved EXCEPT ![i] = IF ret.out = Ok THEN s ELSE None]
      BY <2>1
    <2> HIDE DEF ret
    <2>6. /\ ret.out = Ok \/ ret = Returns(rows, Err)
          /\ ret.rows[i] = None \/ (ret.rows[i] = row /\ ret.out = Ok)
          /\ \A j \in Ids \ {i} : ret.rows[j] = rows[j]
      <3>1. \A x, y : Returns(x, y).rows = x /\ Returns(x, y).out = y
        BY DEF Returns
      <3>2. /\ Upsert(rows, i, row)[i] = row
            /\ \A j \in Ids \ {i} : Upsert(rows, i, row)[j] = rows[j]
        BY <1>0, <2>2 DEF Upsert, On
      <3>3. /\ [rows EXCEPT ![i] = row][i] = row
            /\ \A j \in Ids \ {i} : [rows EXCEPT ![i] = row][j] = rows[j]
        BY <1>0 DEF On
      <3> DEFINE up == Upsert(rows, i, row)
                 ins == [rows EXCEPT ![i] = row]
      <3>4. \/ ret.rows = rows /\ ret = Returns(rows, Err)
            \/ ret.out = Ok /\ (ret.rows = up \/ ret.rows = ins)
        BY <2>4, <3>1
      <3>5. /\ up[i] = row /\ \A j \in Ids \ {i} : up[j] = rows[j]
            /\ ins[i] = row /\ \A j \in Ids \ {i} : ins[j] = rows[j]
        BY <3>2, <3>3
      <3> HIDE DEF up, ins
      <3> QED BY <2>2, <3>4, <3>5
    <2>7. /\ saved'[i] = (IF ret.out = Ok THEN s ELSE None)
          /\ \A j \in Ids \ {i} : saved'[j] = saved[j]
      BY <1>0, <2>5 DEF On
    <2>8. /\ rows' = ret.rows /\ kind' = kind /\ ended' = ended \cup Ending(ret.rows)
      BY <2>5 DEF Call
    <2>9. \A j \in Ids : saved'[j] \in NewSessions \cup {None}
      BY <1>0, <2>7 DEF Kept
    <2>10. Ending(ret.rows) = {}
      BY <2>2, <2>6 DEF Ending
    <2>11. ended' \subseteq {j \in Ids : saved'[j] # None}
      BY <1>0, <2>2, <2>7, <2>8, <2>10 DEF Kept
    <2>12. \A j \in Ids : rows'[j] # None =>
             rows'[j] \in Session(Int) /\ Owner(Reads(kind', rows'[j])) = Owner(saved'[j])
      BY <1>0, <2>4, <2>6, <2>7, <2>8 DEF Kept
    <2>13. \A t \in Tasks : pend'[t] # None =>
             /\ kind' \notin Conditional
             /\ pend'[t].session \in Session(0..U64Max)
             /\ Owner(pend'[t].session) = Owner(saved'[pend'[t].id])
      BY <1>0, <2>2, <2>7, <2>8 DEF Kept, Overlap
    <2> QED BY <2>9, <2>11, <2>12, <2>13 DEF Kept
  <1>2. ASSUME NEW op, NEW id, NEW arg, NEW ret, Call(op, id, arg, ret),
               \A j \in Ids : ret.rows[j] # None => ret.rows[j] = rows[j],
               pend' = pend, saved' = saved
        PROVE  Kept'
    BY <1>0, <1>2, CallKeeps DEF Kept
  <1>3. ASSUME NEW i \in Ids, Find(i) PROVE Kept'
    <2>1. pend' = pend /\ saved' = saved /\ Call("find", i, None, find_session(rows, i))
      BY <1>3 DEF Find
    <2>2. find_session(rows, i).rows = rows
      BY <1>0, FindRows
    <2> QED BY <1>2, <2>1, <2>2
  <1>4. ASSUME NEW i \in Ids, Delete(i) PROVE Kept'
    <2>1. pend' = pend /\ saved' = saved /\ Call("delete", i, None, delete_session(rows, i))
      BY <1>4 DEF Delete
    <2>2. \A j \in Ids : delete_session(rows, i).rows[j] # None =>
            delete_session(rows, i).rows[j] = rows[j]
      BY <1>0, DeleteRows
    <2> QED BY <1>2, <2>1, <2>2
  <1>5. ASSUME DeleteUser PROVE Kept'
    <2>1. PICK u \in OwnerIds :
            Call("delete_user", None, u, delete_user_sessions(rows, u))
      BY <1>5 DEF DeleteUser
    <2>2. pend' = pend /\ saved' = saved
      BY <1>5 DEF DeleteUser
    <2>3. \A j \in Ids : delete_user_sessions(rows, u).rows[j] # None =>
            delete_user_sessions(rows, u).rows[j] = rows[j]
      BY <1>0, DeleteRows
    <2> QED BY <1>2, <2>1, <2>2, <2>3
  <1>6. ASSUME List PROVE Kept'
    <2>1. PICK u \in OwnerIds : Call("list", None, u, list_user_sessions(rows, u))
      BY <1>6 DEF List
    <2>2. pend' = pend /\ saved' = saved
      BY <1>6 DEF List
    <2>3. list_user_sessions(rows, u).rows = rows
      BY <1>0, ListRows
    <2> QED BY <1>2, <2>1, <2>2, <2>3
  <1>7. ASSUME NEW i \in Ids, Touch(i) PROVE Kept'
    <2>1. /\ kind \in Conditional /\ pend' = pend /\ saved' = saved
      BY <1>7 DEF Touch
    <2>2. PICK e \in Touches :
            Call("touch", i, e, touch_session_if_present(rows, i, e[1], e[2]))
      BY <1>7 DEF Touch
    <2> DEFINE ret == touch_session_if_present(rows, i, e[1], e[2])
    <2>3. e[1] \in 0..U64Max /\ e[2] \in 0..U64Max
      BY TouchesAssumption
    <2>4. rows[i] \in Session(Int) \cup {None}
      BY <1>0 DEF Kept
    <2>5. /\ \A j \in Ids \ {i} : ret.rows[j] = rows[j]
          /\ rows[i] = None => ret.rows = rows
          /\ rows[i] # None =>
              /\ ret.rows[i] \in Session(Int)
              /\ Reads(kind, ret.rows[i]) = Extended(Reads(kind, rows[i]), e[1], e[2])
      BY <1>0, <2>1, <2>3, <2>4, TouchReads
    <2>6. Call("touch", i, e, ret)
      BY <2>2
    <2> HIDE DEF ret
    <2>7. rows[i] # None => Owner(Reads(kind, ret.rows[i])) = Owner(Reads(kind, rows[i]))
      <3> SUFFICES ASSUME rows[i] # None
                   PROVE  Owner(Reads(kind, ret.rows[i])) = Owner(Reads(kind, rows[i]))
        OBVIOUS
      <3> DEFINE old == Reads(kind, rows[i])
      <3>1. rows[i] \in Session(Int) /\ saved[i] \in NewSessions
        BY <1>0 DEF Kept, Overlap
      <3>2. old \in Session(Int)
        BY <1>0, <3>1, NewSession, ReadsType
      <3>3. Reads(kind, ret.rows[i]) = Extended(old, e[1], e[2])
        BY <2>5
      <3> HIDE DEF old
      <3>4. LET new == Extended(old, e[1], e[2]) IN
            new.user = old.user /\ new.created = old.created /\ new.hash = old.hash
        BY <3>2 DEF Extended, Session
      <3> QED BY <3>3, <3>4 DEF Owner, old
    <2>8. \A j \in Ids : ret.rows[j] # None =>
            /\ ret.rows[j] \in Session(Int)
            /\ Owner(Reads(kind, ret.rows[j])) = Owner(saved[j])
      BY <1>0, <2>5, <2>7 DEF Kept
    <2> QED BY <2>1, <2>6, <2>8, CallKeeps
  <1>8. ASSUME NEW t \in Tasks, NEW i \in Ids, TouchFind(t, i) PROVE Kept'
    <2> DEFINE found == find_session(rows, i).out
    <2>1. PICK e \in Touches :
            \/ /\ found.tag = "some"
               /\ pend' = [pend EXCEPT ![t] =
                    [id |-> i, arg |-> e, session |-> Extended(The(found), e[1], e[2])]]
               /\ UNCHANGED <<kind, users, rows, last, saved, ended, settled, suite>>
            \/ /\ found.tag # "some"
               /\ Call("touch", i, e, touch_session_if_present(rows, i, e[1], e[2]))
               /\ UNCHANGED <<pend, saved>>
      BY <1>8 DEF TouchFind
    <2>2. /\ found.tag \in {"some", "none", "err"}
          /\ found.tag = "some" => rows[i] # None /\ The(found) = Reads(kind, rows[i])
      BY <1>0, FindRows, FindReads
    <2>3. kind \notin Conditional
      BY <1>8 DEF TouchFind
    <2>4. e[1] \in 0..U64Max /\ e[2] \in 0..U64Max
      BY TouchesAssumption
    <2>5. CASE found.tag = "some"
      <3> DEFINE old == The(found)
                 new == Extended(old, e[1], e[2])
                 copy == [id |-> i, arg |-> e, session |-> new]
      <3>1. rows[i] \in Session(Int) /\ saved[i] \in NewSessions
            /\ old = Reads(kind, rows[i]) /\ Owner(old) = Owner(saved[i])
        BY <1>0, <2>2, <2>5 DEF Kept, Overlap
      <3>2. old \in Session(Int) /\ saved[i] \in Session(0..U64Max)
        BY <1>0, <3>1, NewSession, ReadsType
      <3>3. /\ pend' = [pend EXCEPT ![t] = copy]
            /\ UNCHANGED <<kind, rows, saved, ended>>
        BY <2>1, <2>5
      <3> HIDE DEF old, found
      <3>4. /\ old.user = saved[i].user /\ old.created = saved[i].created
            /\ old.hash = saved[i].hash
        BY <3>1 DEF Owner
      <3>5. /\ old.user \in 0..U64Max /\ old.created \in 0..U64Max
            /\ old.hash \in {s.hash : s \in NewSessions} \cup SeedHashes \cup {None}
        BY <3>2, <3>4 DEF Session
      <3>6. /\ new \in Session(0..U64Max)
            /\ new.user = old.user /\ new.created = old.created /\ new.hash = old.hash
        BY <2>4, <3>2, <3>5 DEF Extended, Session
      <3> HIDE DEF new
      <3>7. copy.id = i /\ copy.session = new
        OBVIOUS
      <3> HIDE DEF copy
      <3>8. \A u \in Tasks : pend'[u] = IF u = t THEN copy ELSE pend[u]
        BY <1>0, <3>3 DEF On
      <3>9. \A u \in Tasks : pend'[u] # None =>
              /\ kind \notin Conditional
              /\ pend'[u].session \in Session(0..U64Max)
              /\ Owner(pend'[u].session) = Owner(saved[pend'[u].id])
        BY <1>0, <2>3, <3>4, <3>6, <3>7, <3>8 DEF Kept, Owner
      <3> QED BY <1>0, <3>3, <3>9 DEF Kept
    <2>6. CASE found.tag # "some"
      <3>1. touch_session_if_present(rows, i, e[1], e[2]) \in
              {Returns(rows, Ok), Returns(rows, Err)}
        BY <1>0, <2>2, <2>3, <2>6 DEF touch_session_if_present, Conditional
      <3>2. touch_session_if_present(rows, i, e[1], e[2]).rows = rows
        BY <3>1 DEF Returns
      <3>3. /\ pend' = pend /\ saved' = saved
            /\ Call("touch", i, e, touch_session_if_present(rows, i, e[1], e[2]))
        BY <2>1, <2>6
      <3> QED BY <1>2, <3>2, <3>3
    <2> QED BY <2>5, <2>6
  <1>9. ASSUME NEW t \in Tasks, TouchSave(t) PROVE Kept'
    <2> DEFINE i == pend[t].id
               s == pend[t].session
               ret == save_session(rows, i, s)
    <2>1. /\ pend[t] # None /\ Call("touch", i, pend[t].arg, ret)
          /\ pend' = [pend EXCEPT ![t] = None] /\ saved' = saved
      BY <1>9 DEF TouchSave
    <2>2. /\ i \in Ids /\ saved[i] # None /\ s \in Session(0..U64Max)
          /\ Owner(s) = Owner(saved[i])
      BY <1>0, <2>1 DEF Overlap, Kept
    <2>3. PICK row \in Session(Int) :
           /\ Reads(kind, row) = s
           /\ \/ ret = Returns(rows, Err)
              \/ ret = Returns(Upsert(rows, i, row), Ok)
              \/ kind = "memory" /\ ret = Returns([rows EXCEPT ![i] = row], Ok)
      BY <1>0, <2>2, SaveWrites
    <2>4. kind # "memory"
      BY <1>0, <2>1 DEF Kept, Conditional
    <2> HIDE DEF i, s, ret
    <2> DEFINE up == Upsert(rows, i, row)
    <2>5. \A j \in Ids \ {i} : up[j] = rows[j]
      BY <1>0 DEF Upsert, On
    <2>6. /\ rows[i] = None => up[i] = row
          /\ rows[i] # None =>
               /\ up[i] \in Session(Int)
               /\ Owner(Reads(kind, up[i])) = Owner(s)
      BY <1>0, <2>2, <2>3, UpsertReads DEF Kept
    <2> HIDE DEF up
    <2>7. ret.rows = rows \/ ret.rows = up
      BY <2>3, <2>4 DEF Returns, up
    <2>8. \A j \in Ids : ret.rows[j] # None =>
            /\ ret.rows[j] \in Session(Int)
            /\ Owner(Reads(kind, ret.rows[j])) = Owner(saved[j])
      BY <1>0, <2>2, <2>3, <2>5, <2>6, <2>7 DEF Kept
    <2>9. \A u \in Tasks : pend'[u] # None => pend'[u] = pend[u]
      BY <1>0, <2>1 DEF On
    <2>10. PICK arg : arg = pend[t].arg
      OBVIOUS
    <2>11. Call("touch", i, arg, ret)
      BY <2>1, <2>10
    <2> QED BY <2>1, <2>8, <2>9, <2>11, CallKeeps
  <1>10. ASSUME SuiteStep PROVE Kept'
    BY <1>10 DEF SuiteStep
  <1>11. ASSUME UNCHANGED vars PROVE Kept'
    BY <1>0, <1>11 DEF Kept, vars
  <1>12. ASSUME StatementFails PROVE Kept'
    <2>1. /\ UNCHANGED <<kind, users, rows, saved, ended, settled, suite>>
          /\ \A t \in Tasks : pend'[t] # None => pend'[t] = pend[t]
      BY <1>0, <1>12, FailedStatement
    <2> QED BY <1>0, <2>1 DEF Kept
  <1> QED
    BY <1>1, <1>3, <1>4, <1>5, <1>6, <1>7, <1>8, <1>9, <1>10, <1>11, <1>12 DEF Next

\* For every width of a word, store and mix of calls: whatever find_session
\* answers, extended or revived, has the user, start and hash it was saved with.
THEOREM OwnersAreKept == Spec => []OwnerKept
  <1>1. KInv => OwnerKept
    <2> SUFFICES ASSUME KInv, Application, NEW i \in Ids, Loaded[i] # None
                 PROVE  /\ saved[i] # None
                        /\ Owner(Loaded[i]) = Owner(saved[i])
      BY DEF OwnerKept, Owner
    <2>1. kind \in Stores /\ Overlap /\ Kept /\ DOMAIN rows = Ids
      BY DEF KInv, IInv, Overlap, On
    <2> DEFINE found == find_session(rows, i).out
    <2>2. Loaded[i] = IF found.tag = "some" THEN The(found) ELSE None
      BY <2>1, Zenon DEF Loaded
    <2>3. rows[i] # None /\ Loaded[i] = Reads(kind, rows[i])
      BY <2>1, <2>2, FindReads
    <2> QED BY <2>1, <2>3 DEF Kept, Overlap
  <1> QED BY KeptInitially, KeptInductive, <1>1, PTL DEF Spec

-----------------------------------------------------------------------------
\* The conditional stores and the contract.

\* The table as the application sees it.
View(k, rs) == [i \in DOMAIN rs |-> IF rs[i] = None THEN None ELSE Reads(k, rs[i])]

\* It is what find_session answers, id by id.
LEMMA LoadedIsView == kind \in Stores => Loaded = View(kind, rows)
  <1> SUFFICES ASSUME kind \in Stores PROVE Loaded = View(kind, rows)
    OBVIOUS
  <1>1. \A i : LET found == find_session(rows, i).out IN
               (IF found.tag = "some" THEN The(found) ELSE None)
                 = IF rows[i] = None THEN None ELSE Reads(kind, rows[i])
    BY FindReads
  <1>2. Loaded = [i \in DOMAIN rows |-> IF rows[i] = None THEN None ELSE Reads(kind, rows[i])]
    BY <1>1, Zenon DEF Loaded
  <1> QED BY <1>2 DEF View

\* A deletion empties the rows it names, and nothing else.
LEMMA DeleteExactly ==
  ASSUME kind \in Conditional, NEW rs, NEW i, NEW u
  PROVE  /\ delete_session(rs, i) = Returns(Remove(rs, {i}), Ok)
         /\ delete_user_sessions(rs, u) = Returns(Remove(rs, IdsOf(rs, u)), Ok)
  <1>1. CASE kind = "memory"
    BY <1>1 DEF delete_session, delete_user_sessions
  <1>2. CASE kind = "adapter"
    <2>1. \A ids : Adapter!Returns(Adapter!Remove(rs, ids), Adapter!Ok) = Returns(Remove(rs, ids), Ok)
      BY DEF Adapter!Returns, Adapter!Remove, Adapter!Ok, Returns, Remove, Ok
    <2>2. Adapter!IdsOf(rs, u) = IdsOf(rs, u)
      BY DEF Adapter!IdsOf, IdsOf
    <2> QED BY <1>2, <2>1, <2>2 DEF delete_session, delete_user_sessions,
              Adapter!delete_session, Adapter!delete_user_sessions
  <1> QED BY <1>1, <1>2 DEF Conditional

\* A listing shows each row of the user as it reads back.
LEMMA ListReads ==
  ASSUME kind \in Conditional, NEW rs, NEW u
  PROVE  list_user_sessions(rs, u)
           = Returns(rs, Listed({<<i, Reads(kind, rs[i])>> : i \in IdsOf(rs, u)}))
  <1>1. CASE kind = "memory"
    <2>1. \A r : Reads(kind, r) = r
      BY <1>1 DEF Reads
    <2>2. list_user_sessions(rs, u) = memory_list(rs, u)
      BY <1>1 DEF list_user_sessions
    <2> QED BY <2>1, <2>2, Zenon DEF memory_list
  <1>2. CASE kind = "adapter"
    <2>1. \A r : Reads(kind, r) = Adapter!SessionOf(r)
      BY <1>2 DEF Reads
    <2>2. list_user_sessions(rs, u) = Adapter!list_user_sessions(rs, u)
      BY <1>2 DEF list_user_sessions
    <2>3. Adapter!IdsOf(rs, u) = IdsOf(rs, u)
      BY DEF Adapter!IdsOf, IdsOf
    <2>4. \A x : Adapter!Returns(rs, Adapter!Listed(x)) = Returns(rs, Listed(x))
      BY DEF Adapter!Returns, Returns, Adapter!Listed, Listed
    <2>5. Adapter!list_user_sessions(rs, u) =
            Adapter!Returns(rs, Adapter!Listed({<<i, Reads(kind, rs[i])>> : i \in IdsOf(rs, u)}))
      BY <2>1, <2>3, Zenon DEF Adapter!list_user_sessions
    <2> QED BY <2>2, <2>4, <2>5
  <1> QED BY <1>1, <1>2 DEF Conditional

\* A step of the application, and what find_session answers before and after it.
Seen ==
  /\ KInv /\ KInv' /\ Application
  /\ Loaded = View(kind, rows) /\ Loaded' = View(kind, rows')

\* What a row reads back as is no empty entry and has the owner of the session saved.
LEMMA LoadedRows ==
  ASSUME Seen
  PROVE  /\ kind \in Stores /\ Overlap /\ Kept
         /\ On(Ids, rows) /\ On(Ids, saved) /\ On(Tasks, pend) /\ On(Ids, Loaded)
         /\ \A i \in Ids :
              /\ Loaded[i] = IF rows[i] = None THEN None ELSE Reads(kind, rows[i])
              /\ rows[i] # None =>
                   /\ rows[i] \in Session(Int) /\ saved[i] \in NewSessions
                   /\ Reads(kind, rows[i]) \in Session(Int)
                   /\ Loaded[i] # None /\ Owner(Loaded[i]) = Owner(saved[i])
                   /\ kind # "sqlx" => Loaded[i].user = rows[i].user
  <1>1. /\ kind \in Stores /\ Overlap /\ Kept
        /\ On(Ids, rows) /\ On(Ids, saved) /\ On(Tasks, pend)
    BY DEF Seen, KInv, IInv, Overlap
  <1>2. DOMAIN rows = Ids
    BY <1>1 DEF On
  <1>3. ASSUME NEW i \in Ids, rows[i] # None
        PROVE  /\ rows[i] \in Session(Int) /\ saved[i] \in NewSessions
               /\ Reads(kind, rows[i]) \in Session(Int)
               /\ Reads(kind, rows[i]) # None
               /\ Owner(Reads(kind, rows[i])) = Owner(saved[i])
               /\ kind # "sqlx" => Reads(kind, rows[i]).user = rows[i].user
    <2>1. /\ rows[i] \in Session(Int) /\ saved[i] \in NewSessions
          /\ Owner(Reads(kind, rows[i])) = Owner(saved[i])
      BY <1>1, <1>3 DEF Kept, Overlap
    <2>2. Reads(kind, rows[i]) \in Session(Int)
      BY <1>1, <2>1, NewSession, ReadsType
    <2>3. Reads(kind, rows[i]) # None
      BY <2>2, NoneAssumption
    <2>4. kind # "sqlx" => Reads(kind, rows[i]).user = rows[i].user
      BY <1>1, <2>1, ReadsFields
    <2> QED BY <2>1, <2>2, <2>3, <2>4
  <1>4. /\ On(Ids, View(kind, rows))
        /\ \A i \in Ids : View(kind, rows)[i] =
              IF rows[i] = None THEN None ELSE Reads(kind, rows[i])
    BY <1>2 DEF View, On
  <1>5. Loaded = View(kind, rows)
    BY DEF Seen
  <1> QED BY <1>1, <1>3, <1>4, <1>5

\* Two tables over the ids are equal if they agree on each id.
LEMMA SameTable ==
  ASSUME NEW f, NEW g, On(Ids, f), On(Ids, g), \A i \in Ids : f[i] = g[i]
  PROVE  f = g
  BY DEF On

\* A table in which the times of one session are changed.
Retimed(f, i, e, a) == [f EXCEPT ![i].expires = e, ![i].active = a]

\* It is the table with that session extended.
LEMMA OneRetimed ==
  ASSUME NEW f, NEW g, On(Ids, f), On(Ids, g), NEW i \in Ids, NEW e, NEW a,
         g[i] = Extended(f[i], e, a), \A j \in Ids \ {i} : g[j] = f[j]
  PROVE  g = Retimed(f, i, e, a)
  <1> DEFINE M == Retimed(f, i, e, a)
             new == Extended(f[i], e, a)
  <1>1. M = [f EXCEPT ![i] = new]
    BY DEF On, Retimed, Extended
  <1>2. On(Ids, M) /\ M[i] = new /\ \A j \in Ids \ {i} : M[j] = f[j]
    BY <1>1 DEF On
  <1> HIDE DEF M, new
  <1>3. g[i] = new
    BY DEF new
  <1>4. g = M
    BY <1>2, <1>3, SameTable
  <1> QED BY <1>4 DEF M

\* What a call leaves in the table, as find_session will answer it.
LEMMA CallLoads ==
  ASSUME Seen, NEW op, NEW id, NEW arg, NEW ret, Call(op, id, arg, ret), On(Ids, ret.rows)
  PROVE  /\ On(Ids, Loaded')
         /\ \A j \in Ids :
              Loaded'[j] = IF ret.rows[j] = None THEN None ELSE Reads(kind, ret.rows[j])
         /\ last'.op = op /\ last'.id = id /\ last'.arg = arg /\ last'.out = ret.out
         /\ ended' = ended \cup {j \in Ids : rows[j] # None /\ ret.rows[j] = None}
  <1>1. /\ rows' = ret.rows
        /\ last' = [op |-> op, id |-> id, arg |-> arg, out |-> ret.out]
        /\ ended' = ended \cup {j \in Ids : rows[j] # None /\ ret.rows[j] = None}
    BY DEF Call, Ending
  <1>2. Loaded' = View(kind, ret.rows) /\ DOMAIN ret.rows = Ids
    BY <1>1 DEF On, Seen
  <1>3. /\ On(Ids, Loaded')
        /\ \A j \in Ids :
             Loaded'[j] = IF ret.rows[j] = None THEN None ELSE Reads(kind, ret.rows[j])
    BY <1>2 DEF View, On
  <1> QED BY <1>1, <1>3

\* A call that leaves the table as it was changes nothing that can be found.
LEMMA CallReads ==
  ASSUME Seen, NEW op, NEW id, NEW arg, NEW ret, Call(op, id, arg, ret), ret.rows = rows
  PROVE  /\ Loaded' = Loaded /\ ended' = ended
         /\ last'.op = op /\ last'.id = id /\ last'.arg = arg /\ last'.out = ret.out
  <1>1. /\ On(Ids, rows) /\ On(Ids, Loaded)
        /\ \A j \in Ids : Loaded[j] = IF rows[j] = None THEN None ELSE Reads(kind, rows[j])
    BY LoadedRows
  <1>2. On(Ids, ret.rows)
    BY <1>1
  <1>3. /\ On(Ids, Loaded')
        /\ \A j \in Ids :
             Loaded'[j] = IF ret.rows[j] = None THEN None ELSE Reads(kind, ret.rows[j])
        /\ last'.op = op /\ last'.id = id /\ last'.arg = arg /\ last'.out = ret.out
        /\ ended' = ended \cup {j \in Ids : rows[j] # None /\ ret.rows[j] = None}
    BY <1>2, CallLoads
  <1>4. Loaded' = Loaded
    BY <1>1, <1>3, SameTable
  <1> QED BY <1>3, <1>4

\* Every store saves as the contract says.
LEMMA SaveImplements ==
  ASSUME Seen, NEW i \in Ids, Save(i)
  PROVE  Contract!Save
  <1> DEFINE L == Loaded
  <1>1. /\ kind \in Stores /\ Overlap /\ Kept /\ On(Ids, rows) /\ On(Ids, L)
        /\ \A j \in Ids : L[j] = IF rows[j] = None THEN None ELSE Reads(kind, rows[j])
    BY LoadedRows
  <1>2. PICK s \in NewSessions : Call("save", i, s, save_session(rows, i, s))
    BY DEF Save
  <1> DEFINE ret == save_session(rows, i, s)
  <1>3. rows[i] = None /\ i \notin ended
    BY <1>1 DEF Save, Overlap, Kept
  <1>4. s \in Session(0..U64Max)
    BY NewSession
  <1>5. PICK row \in Session(Int) :
         /\ Reads(kind, row) = s
         /\ \/ ret = Returns(rows, Err)
            \/ ret = Returns(Upsert(rows, i, row), Ok)
            \/ ret = Returns([rows EXCEPT ![i] = row], Ok)
    BY <1>1, <1>4, SaveWrites
  <1>6. Call("save", i, s, ret)
    BY <1>2
  <1> HIDE DEF ret, L
  <1>7. row # None
    BY NoneAssumption
  <1>8. \/ ret.rows = rows /\ ret.out = Err
        \/ /\ ret.out = Ok /\ On(Ids, ret.rows)
           /\ ret.rows[i] = row /\ \A j \in Ids \ {i} : ret.rows[j] = rows[j]
    <2> DEFINE up == Upsert(rows, i, row)
               ins == [rows EXCEPT ![i] = row]
    <2>1. \A x, y : Returns(x, y).rows = x /\ Returns(x, y).out = y
      BY DEF Returns
    <2>2. On(Ids, up) /\ up[i] = row /\ \A j \in Ids \ {i} : up[j] = rows[j]
      BY <1>1, <1>3 DEF Upsert, On
    <2>3. On(Ids, ins) /\ ins[i] = row /\ \A j \in Ids \ {i} : ins[j] = rows[j]
      BY <1>1 DEF On
    <2>4. \/ ret.rows = rows /\ ret.out = Err
          \/ ret.out = Ok /\ (ret.rows = up \/ ret.rows = ins)
      BY <1>5, <2>1
    <2> HIDE DEF up, ins
    <2> QED BY <2>2, <2>3, <2>4
  <1>9. CASE ret.rows = rows /\ ret.out = Err
    <2>1. L' = L /\ ended' = ended /\ last'.op = "save" /\ last'.out = Err
      BY <1>6, <1>9, CallReads DEF L
    <2>2. last'.out.tag = "err"
      BY <2>1 DEF Err
    <2> QED BY <2>1, <2>2 DEF Contract!Save, Contract!Is, Contract!Tag, L
  <1>10. CASE /\ ret.out = Ok /\ On(Ids, ret.rows)
              /\ ret.rows[i] = row /\ \A j \in Ids \ {i} : ret.rows[j] = rows[j]
    <2>1. /\ On(Ids, L')
          /\ \A j \in Ids :
               L'[j] = IF ret.rows[j] = None THEN None ELSE Reads(kind, ret.rows[j])
          /\ last'.op = "save" /\ last'.id = i /\ last'.arg = s /\ last'.out = ret.out
          /\ ended' = ended \cup {j \in Ids : rows[j] # None /\ ret.rows[j] = None}
      BY <1>6, <1>10, CallLoads DEF L
    <2>2. ended' = ended
      BY <1>3, <1>10, <2>1
    <2> DEFINE M == [L EXCEPT ![i] = s]
    <2>3. /\ On(Ids, M) /\ M[i] = s /\ \A j \in Ids \ {i} : M[j] = L[j]
      BY <1>1 DEF On
    <2>4. /\ L'[i] = s /\ \A j \in Ids \ {i} : L'[j] = L[j]
      BY <1>1, <1>5, <1>7, <1>10, <2>1
    <2> HIDE DEF M
    <2>5. L' = M
      BY <2>1, <2>3, <2>4, SameTable
    <2>6. last'.out.tag = "ok"
      BY <1>10, <2>1 DEF Ok
    <2> QED BY <1>3, <2>1, <2>2, <2>5, <2>6 DEF Contract!Save, Contract!Is, Contract!Tag, L, M
  <1> QED BY <1>8, <1>9, <1>10

\* A call that removes rows ends exactly their sessions.
LEMMA EndsImplements ==
  ASSUME Seen, NEW op, NEW id, NEW arg, NEW ids \in SUBSET Ids,
         Call(op, id, arg, Returns(Remove(rows, ids), Ok))
  PROVE  Contract!EndsExactly(ids)
  <1> DEFINE L == Loaded
             rs == Remove(rows, ids)
             ret == Returns(rs, Ok)
  <1>1. /\ On(Ids, rows) /\ On(Ids, L)
        /\ \A j \in Ids : /\ L[j] = IF rows[j] = None THEN None ELSE Reads(kind, rows[j])
                          /\ rows[j] # None => L[j] # None
    BY LoadedRows
  <1>2. On(Ids, rs) /\ \A j \in Ids : rs[j] = IF j \in ids THEN None ELSE rows[j]
    BY <1>1 DEF Remove, On
  <1>3. ret.rows = rs /\ ret.out = Ok
    BY DEF Returns
  <1> HIDE DEF L, rs, ret
  <1>4. Call(op, id, arg, ret)
    BY DEF ret, rs
  <1>5. /\ On(Ids, L')
        /\ \A j \in Ids :
             L'[j] = IF ret.rows[j] = None THEN None ELSE Reads(kind, ret.rows[j])
        /\ last'.out = ret.out
        /\ ended' = ended \cup {j \in Ids : rows[j] # None /\ ret.rows[j] = None}
    BY <1>2, <1>3, <1>4, CallLoads DEF L
  <1> DEFINE M == [j \in DOMAIN L |-> IF j \in ids THEN None ELSE L[j]]
  <1>6. DOMAIN L = Ids /\ On(Ids, M) /\ \A j \in Ids : M[j] = IF j \in ids THEN None ELSE L[j]
    BY <1>1 DEF On
  <1> HIDE DEF M
  <1>7. \A j \in Ids : L'[j] = M[j]
    BY <1>1, <1>2, <1>3, <1>5, <1>6
  <1>8. L' = M
    BY <1>5, <1>6, <1>7, SameTable
  <1>9. {j \in Ids : rows[j] # None /\ ret.rows[j] = None} = {j \in ids : L[j] # None}
    BY <1>1, <1>2, <1>3
  <1>10. last'.out.tag = "ok"
    BY <1>3, <1>5 DEF Ok
  <1> QED BY <1>5, <1>8, <1>9, <1>10 DEF Contract!EndsExactly, Contract!Tag, L, M

\* A find answers what the table holds, but for the error of sqlite_demo.
LEMMA FindImplements ==
  ASSUME Seen, NEW i \in Ids, Find(i)
  PROVE  \/ Contract!Find
         \/ kind = "sqlite_demo" /\ ErrorAlone
  <1> DEFINE ret == find_session(rows, i)
             r == Reads(kind, rows[i])
  <1>1. Call("find", i, None, ret)
    BY DEF Find
  <1>2. /\ kind \in Stores /\ Loaded[i] = IF rows[i] = None THEN None ELSE r
        /\ rows[i] # None => Loaded[i] # None
    BY LoadedRows
  <1>3. ret.rows = rows
    BY <1>2, FindRows
  <1>4. /\ rows[i] # None => ret.out = Found(r)
        /\ rows[i] = None => ret.out = IF kind = "sqlite_demo" THEN Err ELSE Absent
    BY <1>2, FindReads
  <1> HIDE DEF ret, r
  <1>5. /\ Loaded' = Loaded /\ ended' = ended
        /\ last'.op = "find" /\ last'.id = i /\ last'.out = ret.out
    BY <1>1, <1>3, CallReads
  <1>6. CASE rows[i] = None /\ kind = "sqlite_demo"
    BY <1>4, <1>5, <1>6 DEF ErrorAlone
  <1>7. CASE rows[i] # None \/ kind # "sqlite_demo"
    <2>1. IF Loaded[i] = None THEN last'.out.tag = "none"
          ELSE last'.out.tag = "some" /\ last'.out.got = {Loaded[i]}
      BY <1>2, <1>4, <1>5, <1>7 DEF Absent, Found
    <2> QED BY <1>5, <2>1 DEF Contract!Find, Contract!Is, Contract!Tag
  <1> QED BY <1>6, <1>7

\* A statement that fails is a failing call of the contract.
LEMMA FailureImplements ==
  ASSUME Seen, StatementFails
  PROVE  Contract!Fail
  <1>1. On(Tasks, pend) /\ Loaded = View(kind, rows) /\ Loaded' = View(kind, rows')
    BY DEF Seen, KInv, IInv, Overlap
  <1>2. UNCHANGED <<rows, ended>> /\ last'.out.tag = "fail"
    BY <1>1, FailedStatement
  <1>3. Loaded' = Loaded
    BY <1>1, <1>2
  <1> QED BY <1>2, <1>3 DEF Contract!Fail, Contract!Tag

\* Every call of a conditional store is a call of the contract.
LEMMA CallImplements ==
  ASSUME Seen, Next, kind \in Conditional
  PROVE  Contract!Next
  <1> DEFINE L == Loaded
  <1>1. /\ kind \in Stores /\ kind # "sqlx" /\ kind # "sqlite_demo" /\ Application
        /\ Overlap /\ Kept /\ On(Ids, rows) /\ On(Ids, L)
        /\ \A i \in Ids :
              /\ L[i] = IF rows[i] = None THEN None ELSE Reads(kind, rows[i])
              /\ rows[i] # None =>
                   /\ rows[i] \in Session(Int)
                   /\ Reads(kind, rows[i]) \in Session(Int)
                   /\ L[i] # None /\ L[i].user = rows[i].user
    BY LoadedRows DEF Conditional, Seen
  <1> HIDE DEF L
  <1>2. ASSUME NEW i \in Ids, Save(i) PROVE Contract!Save
    BY <1>2, SaveImplements
  <1>3. ASSUME NEW i \in Ids, Find(i) PROVE Contract!Find
    BY <1>1, <1>3, FindImplements
  <1>4. ASSUME NEW i \in Ids, Delete(i) PROVE Contract!Delete
    <2>1. Call("delete", i, None, Returns(Remove(rows, {i}), Ok))
      BY <1>4, DeleteExactly DEF Delete
    <2>2. Contract!EndsExactly({i})
      BY <2>1, EndsImplements
    <2>3. last'.op = "delete" /\ last'.id = i
      BY <2>1 DEF Call
    <2> QED BY <2>2, <2>3 DEF Contract!Delete, Contract!Is
  <1>5. ASSUME NEW u PROVE Contract!Of(u) = IdsOf(rows, u) /\ IdsOf(rows, u) \in SUBSET Ids
    <2>1. DOMAIN L = Ids /\ DOMAIN rows = Ids
      BY <1>1 DEF On
    <2> QED BY <1>1, <2>1 DEF Contract!Of, IdsOf, L
  <1>6. ASSUME DeleteUser PROVE Contract!DeleteUser
    <2>1. PICK u : Call("delete_user", None, u, Returns(Remove(rows, IdsOf(rows, u)), Ok))
      BY <1>6, DeleteExactly DEF DeleteUser
    <2>2. Contract!EndsExactly(IdsOf(rows, u))
      BY <1>5, <2>1, EndsImplements
    <2>3. last'.op = "delete_user" /\ last'.arg = u
      BY <2>1 DEF Call
    <2> QED BY <1>5, <2>2, <2>3 DEF Contract!DeleteUser, Contract!Is
  <1>7. ASSUME List PROVE Contract!List
    <2>1. PICK u : Call("list", None, u, list_user_sessions(rows, u))
      BY <1>7 DEF List
    <2> DEFINE xs == {<<i, Reads(kind, rows[i])>> : i \in IdsOf(rows, u)}
               ret == Returns(rows, Listed(xs))
    <2>2. xs = {<<i, L[i]>> : i \in IdsOf(rows, u)}
      <3>1. \A i \in IdsOf(rows, u) : L[i] = Reads(kind, rows[i])
        BY <1>1, <1>5 DEF IdsOf
      <3> QED BY <3>1
    <2>3. Call("list", None, u, ret)
      BY <2>1, ListReads
    <2> HIDE DEF xs
    <2>4. ret.rows = rows /\ ret.out = Listed(xs)
      BY DEF Returns
    <2> HIDE DEF ret
    <2>5. L' = L /\ ended' = ended /\ last'.op = "list" /\ last'.arg = u /\ last'.out = ret.out
      BY <2>3, <2>4, CallReads DEF L
    <2>6. last'.out.tag = "list" /\ last'.out.got = xs
      BY <2>4, <2>5 DEF Listed
    <2>7. Contract!Of(last'.arg) = IdsOf(rows, u)
      BY <1>5, <2>5
    <2>8. last'.out.got = {<<i, Loaded[i]>> : i \in Contract!Of(last'.arg)}
      BY <2>2, <2>6, <2>7 DEF L
    <2> QED BY <2>5, <2>6, <2>8 DEF Contract!List, Contract!Is, Contract!Tag, L
  <1>8. ASSUME NEW i \in Ids, Touch(i) PROVE Contract!Touch
    <2>1. PICK e \in Touches :
            Call("touch", i, e, touch_session_if_present(rows, i, e[1], e[2]))
      BY <1>8 DEF Touch
    <2> DEFINE ret == touch_session_if_present(rows, i, e[1], e[2])
    <2>2. e[1] \in 0..U64Max /\ e[2] \in 0..U64Max
      BY TouchesAssumption
    <2>3. rows[i] \in Session(Int) \cup {None}
      BY <1>1 DEF Kept
    <2>4. /\ ret.out = Ok /\ On(Ids, ret.rows)
          /\ \A j \in Ids \ {i} : ret.rows[j] = rows[j]
          /\ rows[i] = None => ret.rows = rows
          /\ rows[i] # None =>
              /\ ret.rows[i] \in Session(Int)
              /\ Reads(kind, ret.rows[i]) = Extended(Reads(kind, rows[i]), e[1], e[2])
      BY <1>1, <2>2, <2>3, TouchReads
    <2>5. Call("touch", i, e, ret)
      BY <2>1
    <2> HIDE DEF ret
    <2>6. /\ On(Ids, L')
          /\ \A j \in Ids :
                    L'[j] = IF ret.rows[j] = None THEN None ELSE Reads(kind, ret.rows[j])
          /\ last'.op = "touch" /\ last'.id = i /\ last'.arg = e /\ last'.out = ret.out
          /\ ended' = ended \cup {j \in Ids : rows[j] # None /\ ret.rows[j] = None}
      BY <2>4, <2>5, CallLoads DEF L
    <2>7. rows[i] # None => ret.rows[i] # None
      BY <2>4, NoneAssumption
    <2>8. ended' = ended
      BY <2>4, <2>6, <2>7
    <2>9. last'.out.tag = "ok"
      BY <2>4, <2>6 DEF Ok
    <2>10. CASE rows[i] = None
      <3>1. L' = L
        BY <1>1, <2>4, <2>6, <2>10, SameTable
      <3> QED BY <1>1, <2>6, <2>8, <2>9, <2>10, <3>1 DEF Contract!Touch, Contract!Is, Contract!Tag, L
    <2>11. CASE rows[i] # None
      <3>1. L'[i] = Extended(L[i], e[1], e[2]) /\ \A j \in Ids \ {i} : L'[j] = L[j]
        BY <1>1, <2>4, <2>6, <2>7, <2>11
      <3>2. L' = Retimed(L, i, e[1], e[2])
        BY <1>1, <2>6, <3>1, OneRetimed
      <3>3. L[i] # None
        BY <1>1, <2>11
      <3> QED BY <2>6, <2>8, <2>9, <3>2, <3>3
              DEF Contract!Touch, Contract!Is, Contract!Tag, L, Retimed
    <2> QED BY <2>10, <2>11
  <1>9. ASSUME NEW t \in Tasks, TouchSave(t) PROVE FALSE
    BY <1>1, <1>9 DEF TouchSave, Kept
  <1>10. ASSUME NEW t \in Tasks, NEW i \in Ids, TouchFind(t, i) PROVE FALSE
    BY <1>10 DEF TouchFind
  <1>11. ~ SuiteStep
    BY <1>1 DEF SuiteStep
  <1>12. ASSUME StatementFails PROVE Contract!Fail
    BY <1>12, FailureImplements
  <1> QED BY <1>2, <1>3, <1>4, <1>6, <1>7, <1>8, <1>9, <1>10, <1>11, <1>12
          DEF Next, Contract!Next

\* MemoryStore and the SQLite adapter implement the contract of SessionStore, for
\* every number of ids, width of a word and time: each call of theirs, failed ones
\* included, is a step of the contract on the sessions that find_session answers.
THEOREM ConditionalStoresKeepContract == Spec => ImplementsContract
  <1>1. Init => Contract!Init
    <2> SUFFICES ASSUME Init PROVE ended = {} /\ \A i \in DOMAIN Loaded : Loaded[i] = None
      BY DEF Contract!Init
    <2>1. PICK script \in Scripts :
            rows = [i \in IF script = "app" THEN Ids ELSE SuiteIds |-> None]
      BY DEF Init
    <2>2. kind \in Stores
      BY KindsAssumption DEF Init
    <2>3. \A i \in DOMAIN rows : rows[i] = None
      BY <2>1
    <2>4. Loaded = View(kind, rows)
      BY <2>2, LoadedIsView
    <2>5. \A i \in DOMAIN Loaded : Loaded[i] = None
      BY <2>3, <2>4 DEF View
    <2> QED BY <2>5 DEF Init
  <1>2. KInv /\ KInv' /\ [Next]_vars => [ContractStep]_<<Loaded, ended, last>>
    <2> SUFFICES ASSUME KInv, KInv', [Next]_vars
                 PROVE  [ContractStep]_<<Loaded, ended, last>>
      OBVIOUS
    <2>1. kind \in Stores /\ kind' \in Stores
      BY DEF KInv, IInv
    <2>2. Loaded = View(kind, rows)
      BY <2>1, LoadedIsView
    <2>3. (kind \in Stores => Loaded = View(kind, rows))'
      BY LoadedIsView, PTL
    <2>4. Loaded' = View(kind', rows')
      BY <2>1, <2>3
    <2>5. CASE UNCHANGED vars
      <3>1. Loaded' = Loaded /\ ended' = ended /\ last' = last
        BY <2>2, <2>4, <2>5 DEF vars
      <3> QED BY <3>1
    <2>6. CASE Next
      <3> SUFFICES ASSUME kind \in Conditional, Application PROVE Contract!Next
        BY DEF ContractStep
      <3>1. kind' = kind
        BY <2>6 DEF Next, Save, Find, Delete, Touch, TouchFind, TouchSave, DeleteUser, List,
               StatementFails, SuiteStep, Call
      <3>2. Seen
        BY <2>2, <2>4, <3>1 DEF Seen
      <3> QED BY <2>6, <3>2, CallImplements
    <2> QED BY <2>5, <2>6
  <1> QED BY KeptInitially, KeptInductive, <1>1, <1>2, PTL DEF Spec, ImplementsContract

-----------------------------------------------------------------------------
\* The stores with the default touch, and the contract.

\* What save_session of the sqlx store writes, and for which users.
LEMMA SqlxSaves ==
  ASSUME kind = "sqlx", NEW rs, NEW i, NEW s \in Session(0..U64Max)
  PROVE  \E row \in Session(Int) :
           /\ Reads(kind, row) = s /\ row.user = AsI64(s.user)
           /\ save_session(rs, i, s) = IF AsI64(s.user) \in UserIds(users)
                                       THEN Returns(Upsert(rs, i, row), Ok)
                                       ELSE Returns(rs, Err)
  <1> DEFINE u == AsI64(s.user)
             c == AsI64(s.created)
             e == AsI64(s.expires)
             a == MapOption(AsI64, s.active)
             u1 == Sqlx!AsI64(s.user)
             c1 == Sqlx!AsI64(s.created)
             e1 == Sqlx!AsI64(s.expires)
             a1 == Sqlx!MapOption(Sqlx!AsI64, s.active)
             row == [s EXCEPT !.user = u1, !.created = c1, !.expires = e1, !.active = a1]
  <1>1. /\ s.user \in 0..U64Max /\ s.created \in 0..U64Max /\ s.expires \in 0..U64Max
        /\ s.active \in (0..U64Max) \cup {None}
    BY DEF Session
  <1>2. s \in Session(Int)
    BY DEF Session
  <1>3. /\ u \in Int /\ c \in Int /\ e \in Int /\ a \in Int \cup {None}
        /\ AsU64(u) = s.user /\ AsU64(c) = s.created /\ AsU64(e) = s.expires
        /\ MapOption(AsU64, a) = s.active
    BY <1>1, RoundTrip, OptionRoundTrip
  <1>4. U64Max >= 0
    <2>1. U64Max \in Int
      BY BitsAssumption DEF U64Max
    <2> QED BY <1>1, <2>1
  <1>5. u1 = u /\ c1 = c /\ e1 = e /\ a1 = a
    BY Casts, OptionCasts
  <1>6. Sqlx!save_session(users, rs, i, s) =
          IF row.user \notin Sqlx!UserIds(users) THEN Sqlx!Returns(rs, Sqlx!Err)
          ELSE Sqlx!Returns(Sqlx!Upsert(rs, i, row), Sqlx!Ok)
    BY Zenon DEF Sqlx!save_session
  <1> HIDE DEF u1, c1, e1, a1, u, c, e, a
  <1>7. /\ row \in Session(Int) /\ row.hash = s.hash
        /\ row.user = u /\ row.created = c /\ row.expires = e /\ row.active = a
    BY <1>2, <1>3, <1>5 DEF Session
  <1> HIDE DEF row
  <1>8. kind \in Stores
    BY DEF Stores
  <1>9. /\ Reads(kind, row).hash = s.hash /\ Reads(kind, row).user = s.user
        /\ Reads(kind, row).created = s.created /\ Reads(kind, row).expires = s.expires
        /\ Reads(kind, row).active = s.active
    BY <1>3, <1>7, <1>8, ReadsFields
  <1>10. Reads(kind, row) = s
    BY <1>2, <1>4, <1>7, <1>8, <1>9, ReadsType, SameFields
  <1>11. /\ Sqlx!Returns(rs, Sqlx!Err) = Returns(rs, Err)
         /\ Sqlx!Returns(Sqlx!Upsert(rs, i, row), Sqlx!Ok) = Returns(Upsert(rs, i, row), Ok)
         /\ Sqlx!UserIds(users) = UserIds(users)
    BY DEF Sqlx!Returns, Sqlx!Upsert, Sqlx!Ok, Sqlx!Err, Returns, Upsert, Ok, Err,
           Sqlx!UserIds, UserIds
  <1>12. save_session(rs, i, s) = IF u \in UserIds(users) THEN Returns(Upsert(rs, i, row), Ok)
                                  ELSE Returns(rs, Err)
    BY <1>6, <1>7, <1>11 DEF save_session
  <1> QED BY <1>7, <1>10, <1>12 DEF u

\* An upsert over a row of the same owner reads back as the session written.
LEMMA UpsertStores ==
  ASSUME kind \in Stores, U64Max >= 0, NEW rs, On(Ids, rs), NEW i \in Ids, NEW row \in Session(Int),
         rs[i] = None \/ (/\ rs[i] \in Session(Int)
                          /\ Owner(Reads(kind, rs[i])) = Owner(Reads(kind, row)))
  PROVE  LET up == Upsert(rs, i, row) IN
         /\ On(Ids, up) /\ \A j \in Ids \ {i} : up[j] = rs[j]
         /\ up[i] \in Session(Int) /\ Reads(kind, up[i]) = Reads(kind, row)
         /\ rs[i] # None => up[i].user = rs[i].user
         /\ rs[i] = None => up[i] = row
  <1> DEFINE up == Upsert(rs, i, row)
             old == rs[i]
             new == [old EXCEPT !.expires = row.expires, !.active = row.active, !.hash = row.hash]
  <1>1. /\ On(Ids, up) /\ \A j \in Ids \ {i} : up[j] = rs[j]
        /\ up[i] = IF old = None THEN row ELSE new
    BY DEF Upsert, On
  <1> HIDE DEF up
  <1>2. CASE old = None
    BY <1>1, <1>2 DEF up
  <1>3. CASE old # None
    <2>1. old \in Session(Int) /\ Owner(Reads(kind, old)) = Owner(Reads(kind, row))
      BY <1>3
    <2>2. Owner(Reads(kind, up[i])) = Owner(Reads(kind, row)) /\ up[i] \in Session(Int)
      BY <1>3, <2>1, UpsertReads DEF up
    <2> HIDE DEF old
    <2>3. /\ new \in Session(Int) /\ new.user = old.user
          /\ new.expires = row.expires /\ new.active = row.active
      BY <2>1 DEF Session
    <2> HIDE DEF new
    <2> DEFINE r == Reads(kind, new)
               q == Reads(kind, row)
    <2>4. r \in Session(Int) /\ q \in Session(Int)
      BY <2>3, ReadsType
    <2>5. r.user = q.user /\ r.created = q.created /\ r.hash = q.hash
      BY <1>1, <1>3, <2>2 DEF Owner
    <2>6. r.expires = q.expires
      <3>1. \A x \in Session(Int) :
               Reads(kind, x).expires =
                 IF kind \in {"adapter", "sqlx"} THEN AsU64(x.expires) ELSE x.expires
        BY ReadsFields DEF Stores
      <3> QED BY <2>3, <3>1
    <2>7. r.active = q.active
      BY <2>3, ReadsFields DEF Stores, MapOption
    <2> HIDE DEF r, q
    <2>8. r = q
      BY <2>4, <2>5, <2>6, <2>7, SameFields
    <2> QED BY <1>1, <1>3, <2>3, <2>8 DEF up, old, r, q
  <1> QED BY <1>2, <1>3

\* The number under which the store keeps a user.
Key(u) == IF kind = "sqlx" THEN AsI64(u) ELSE u

\* They delete what the contract says, but for an id that rusqlite refuses.
LEMMA DefaultDeletes ==
  ASSUME kind \in Stores \ Conditional, NEW rs, NEW i, NEW u
  PROVE  /\ delete_session(rs, i) = Returns(Remove(rs, {i}), Ok)
         /\ \/ delete_user_sessions(rs, u) = Returns(Remove(rs, IdsOf(rs, Key(u))), Ok)
            \/ kind = "sqlite_demo" /\ delete_user_sessions(rs, u) = Returns(rs, Err)
  <1>1. CASE kind = "sqlite_demo"
    <2>1. \A ids : Demo!Returns(Demo!Remove(rs, ids), Demo!Ok) = Returns(Remove(rs, ids), Ok)
      BY DEF Demo!Returns, Demo!Remove, Demo!Ok, Returns, Remove, Ok
    <2>2. Demo!Returns(rs, Demo!Err) = Returns(rs, Err)
      BY DEF Demo!Returns, Demo!Err, Returns, Err
    <2>3. Demo!IdsOf(rs, u) = IdsOf(rs, Key(u))
      BY <1>1 DEF Demo!IdsOf, IdsOf, Key
    <2> QED BY <1>1, <2>1, <2>2, <2>3 DEF delete_session, delete_user_sessions,
              Demo!delete_session, Demo!delete_user_sessions
  <1>2. CASE kind = "sqlx"
    <2>1. \A ids : Sqlx!Returns(Sqlx!Remove(rs, ids), Sqlx!Ok) = Returns(Remove(rs, ids), Ok)
      BY DEF Sqlx!Returns, Sqlx!Remove, Sqlx!Ok, Returns, Remove, Ok
    <2>2. Sqlx!IdsOf(rs, Sqlx!AsI64(u)) = IdsOf(rs, Key(u))
      BY <1>2, Casts DEF Sqlx!IdsOf, IdsOf, Key
    <2> QED BY <1>2, <2>1, <2>2 DEF delete_session, delete_user_sessions,
              Sqlx!delete_session, Sqlx!delete_user_sessions
  <1> QED BY <1>1, <1>2 DEF Stores, Conditional

\* And list what it says, but for the same id.
LEMMA DefaultLists ==
  ASSUME kind \in Stores \ Conditional, NEW rs, NEW u
  PROVE  \/ list_user_sessions(rs, u)
              = Returns(rs, Listed({<<i, Reads(kind, rs[i])>> : i \in IdsOf(rs, Key(u))}))
         \/ kind = "sqlite_demo" /\ list_user_sessions(rs, u) = Returns(rs, Err)
  <1>1. CASE kind = "sqlite_demo"
    <2>1. \A r : Reads(kind, r) = Demo!SessionOf(r)
      BY <1>1 DEF Reads
    <2>2. list_user_sessions(rs, u) = Demo!list_user_sessions(rs, u)
      BY <1>1 DEF list_user_sessions
    <2>3. Demo!IdsOf(rs, u) = IdsOf(rs, Key(u))
      BY <1>1 DEF Demo!IdsOf, IdsOf, Key
    <2>4. /\ \A x : Demo!Returns(rs, Demo!Listed(x)) = Returns(rs, Listed(x))
          /\ Demo!Returns(rs, Demo!Err) = Returns(rs, Err)
      BY DEF Demo!Returns, Returns, Demo!Listed, Listed, Demo!Err, Err
    <2> DEFINE out == Demo!Listed({<<i, Reads(kind, rs[i])>> : i \in IdsOf(rs, Key(u))})
    <2>5. Demo!list_user_sessions(rs, u) =
            Demo!Returns(rs, IF u > Demo!I64Max THEN Demo!Err ELSE out)
      BY <2>1, <2>3, Zenon DEF Demo!list_user_sessions
    <2> HIDE DEF out
    <2>6. \/ list_user_sessions(rs, u) = Demo!Returns(rs, out)
          \/ list_user_sessions(rs, u) = Demo!Returns(rs, Demo!Err)
      BY <2>2, <2>5
    <2> QED BY <1>1, <2>4, <2>6 DEF out
  <1>2. CASE kind = "sqlx"
    <2>1. \A r : Reads(kind, r) = Sqlx!SessionOf(r)
      BY <1>2 DEF Reads
    <2>2. list_user_sessions(rs, u) = Sqlx!list_user_sessions(rs, u)
      BY <1>2 DEF list_user_sessions
    <2>3. Sqlx!IdsOf(rs, Sqlx!AsI64(u)) = IdsOf(rs, Key(u))
      BY <1>2, Casts DEF Sqlx!IdsOf, IdsOf, Key
    <2>4. \A x : Sqlx!Returns(rs, Sqlx!Listed(x)) = Returns(rs, Listed(x))
      BY DEF Sqlx!Returns, Returns, Sqlx!Listed, Listed
    <2>5. Sqlx!list_user_sessions(rs, u) =
            Sqlx!Returns(rs, Sqlx!Listed({<<i, Reads(kind, rs[i])>> : i \in IdsOf(rs, Key(u))}))
      BY <2>1, <2>3, Zenon DEF Sqlx!list_user_sessions
    <2> QED BY <2>2, <2>4, <2>5
  <1> QED BY <1>1, <1>2 DEF Stores, Conditional

\* A u64 is not confused with another when it is kept as an i64.
LEMMA KeysDiffer ==
  ASSUME NEW u \in 0..U64Max, NEW v \in 0..U64Max, AsI64(u) = AsI64(v)
  PROVE  u = v
  BY RoundTrip

\* The strengthening of Kept for the default touch: a copy holds the times it is
\* to set, a row of the sqlx store the number of its user, and that user exists.
Linked ==
  /\ \A t \in Tasks : pend[t] # None =>
       /\ pend[t].session.expires = pend[t].arg[1]
       /\ pend[t].session.active = pend[t].arg[2]
  /\ kind = "sqlx" => \A i \in Ids :
       /\ saved[i] # None => AsI64(saved[i].user) \in UserIds(users)
       /\ rows[i] # None => rows[i].user = AsI64(saved[i].user)

DInv == KInv /\ (Application => Linked)

\* A call that leaves to each row the number of its user keeps it.
LEMMA CallLinks ==
  ASSUME Linked, NEW op, NEW id, NEW arg, NEW ret, Call(op, id, arg, ret),
         saved' = saved,
         \A t \in Tasks : pend'[t] # None => pend'[t] = pend[t],
         kind = "sqlx" =>
           \A j \in Ids : ret.rows[j] # None => ret.rows[j].user = AsI64(saved[j].user)
  PROVE  Linked'
  <1>1. rows' = ret.rows /\ kind' = kind /\ users' = users
    BY DEF Call
  <1>2. \A t \in Tasks : pend'[t] # None =>
          /\ pend'[t].session.expires = pend'[t].arg[1]
          /\ pend'[t].session.active = pend'[t].arg[2]
    BY DEF Linked
  <1>3. kind' = "sqlx" => \A i \in Ids :
           /\ saved'[i] # None => AsI64(saved'[i].user) \in UserIds(users')
           /\ rows'[i] # None => rows'[i].user = AsI64(saved'[i].user)
    BY <1>1 DEF Linked
  <1> QED BY <1>2, <1>3 DEF Linked

\* Nothing saved, stored or held: it holds at the start.
LEMMA LinkedInitially == Init => DInv
  <1> SUFFICES ASSUME Init PROVE Application => Linked
    BY KeptInitially DEF DInv
  <1>1. PICK script \in Scripts :
           /\ suite = [script |-> script, at |-> 1, failed |-> 0]
           /\ rows = [i \in IF script = "app" THEN Ids ELSE SuiteIds |-> None]
    BY DEF Init
  <1>2. saved = [i \in Ids |-> None] /\ pend = [t \in Tasks |-> None]
    BY DEF Init
  <1>3. Application => rows = [i \in Ids |-> None]
    BY <1>1 DEF Application
  <1> QED BY <1>2, <1>3 DEF Linked

\* Save writes the number of a user that exists, an upsert leaves it, and the
\* first half of a touch sets the times of its copy.
LEMMA LinkedInductive == DInv /\ [Next]_vars => DInv'
  <1> SUFFICES ASSUME DInv, [Next]_vars, Application' PROVE Linked'
    BY KeptInductive DEF DInv
  <1>1. /\ KInv /\ kind \in Stores
    BY DEF DInv, KInv, IInv
  <1>2. suite'.script = suite.script
    <2>1. SuiteOK
      BY <1>1 DEF KInv, IInv
    <2>2. CASE SuiteStep
      <3>1. \/ suite' = [suite EXCEPT !.at = @ + 1]
            \/ suite' = [suite EXCEPT !.failed = suite.at]
        BY <2>2 DEF SuiteStep
      <3> QED BY <2>1, <3>1 DEF SuiteOK
    <2>3. Next => SuiteStep \/ UNCHANGED suite
      BY DEF Next, Save, Find, Delete, Touch, TouchFind, TouchSave, DeleteUser, List,
             StatementFails, Call
    <2> QED BY <2>2, <2>3 DEF vars
  <1>3. /\ Application /\ Linked /\ Overlap /\ Kept
        /\ On(Ids, rows) /\ On(Ids, saved) /\ On(Tasks, pend)
    BY <1>1, <1>2 DEF Application, DInv, KInv, IInv, Overlap
  <1>4. ASSUME NEW i \in Ids, Save(i) PROVE Linked'
    <2>1. PICK s \in NewSessions :
            /\ Call("save", i, s, save_session(rows, i, s))
            /\ saved' = [saved EXCEPT ![i] =
                 IF save_session(rows, i, s).out = Ok THEN s ELSE None]
      BY <1>4 DEF Save
    <2> DEFINE ret == save_session(rows, i, s)
    <2>2. rows[i] = None /\ saved[i] = None /\ pend' = pend
      BY <1>3, <1>4 DEF Save, Overlap
    <2>3. /\ rows' = ret.rows /\ kind' = kind /\ users' = users
          /\ saved' = [saved EXCEPT ![i] = IF ret.out = Ok THEN s ELSE None]
      BY <2>1 DEF Call
    <2>4. kind = "sqlx" => \A j \in Ids :
             /\ saved'[j] # None => AsI64(saved'[j].user) \in UserIds(users)
             /\ rows'[j] # None => rows'[j].user = AsI64(saved'[j].user)
      <3> SUFFICES ASSUME kind = "sqlx", NEW j \in Ids
                   PROVE  /\ saved'[j] # None => AsI64(saved'[j].user) \in UserIds(users)
                          /\ rows'[j] # None => rows'[j].user = AsI64(saved'[j].user)
        OBVIOUS
      <3>1. s \in Session(0..U64Max)
        BY NewSession
      <3>2. PICK row \in Session(Int) :
               /\ row.user = AsI64(s.user)
               /\ ret = IF AsI64(s.user) \in UserIds(users)
                        THEN Returns(Upsert(rows, i, row), Ok) ELSE Returns(rows, Err)
        BY <3>1, SqlxSaves
      <3> HIDE DEF ret
      <3> DEFINE up == Upsert(rows, i, row)
      <3>3. up[i] = row /\ \A k \in Ids \ {i} : up[k] = rows[k]
        BY <1>3, <2>2 DEF Upsert, On
      <3> HIDE DEF up
      <3>4. \A x, y : Returns(x, y).rows = x /\ Returns(x, y).out = y
        BY DEF Returns
      <3>5. Ok # Err
        BY DEF Ok, Err
      <3>6. \/ AsI64(s.user) \in UserIds(users) /\ ret.rows = up /\ ret.out = Ok
            \/ ret.rows = rows /\ ret.out = Err
        BY <3>2, <3>4 DEF up
      <3>7. /\ saved'[i] = IF ret.out = Ok THEN s ELSE None
            /\ \A k \in Ids \ {i} : saved'[k] = saved[k]
        BY <1>3, <2>3 DEF On
      <3>8. CASE j = i
        BY <2>2, <2>3, <3>2, <3>3, <3>5, <3>6, <3>7, <3>8
      <3>9. CASE j # i
        BY <1>3, <2>3, <3>3, <3>6, <3>7, <3>9 DEF Linked
      <3> QED BY <3>8, <3>9
    <2> HIDE DEF ret
    <2>5. /\ \A t \in Tasks : pend'[t] # None =>
               /\ pend'[t].session.expires = pend'[t].arg[1]
               /\ pend'[t].session.active = pend'[t].arg[2]
      BY <1>3, <2>2 DEF Linked
    <2> QED BY <2>3, <2>4, <2>5 DEF Linked
  <1>5. ASSUME NEW op, NEW id, NEW arg, NEW ret, Call(op, id, arg, ret),
               \A j \in Ids : ret.rows[j] # None => ret.rows[j] = rows[j],
               pend' = pend, saved' = saved
        PROVE  Linked'
    BY <1>3, <1>5, CallLinks DEF Linked
  <1>6. ASSUME NEW i \in Ids, Find(i) PROVE Linked'
    <2>1. pend' = pend /\ saved' = saved /\ Call("find", i, None, find_session(rows, i))
      BY <1>6 DEF Find
    <2>2. find_session(rows, i).rows = rows
      BY <1>1, FindRows
    <2> QED BY <1>5, <2>1, <2>2
  <1>7. ASSUME NEW i \in Ids, Delete(i) PROVE Linked'
    <2>1. pend' = pend /\ saved' = saved /\ Call("delete", i, None, delete_session(rows, i))
      BY <1>7 DEF Delete
    <2>2. \A j \in Ids : delete_session(rows, i).rows[j] # None =>
            delete_session(rows, i).rows[j] = rows[j]
      BY <1>1, <1>3, DeleteRows
    <2> QED BY <1>5, <2>1, <2>2
  <1>8. ASSUME DeleteUser PROVE Linked'
    <2>1. PICK u \in OwnerIds :
            Call("delete_user", None, u, delete_user_sessions(rows, u))
      BY <1>8 DEF DeleteUser
    <2>2. pend' = pend /\ saved' = saved
      BY <1>8 DEF DeleteUser
    <2>3. \A j \in Ids : delete_user_sessions(rows, u).rows[j] # None =>
            delete_user_sessions(rows, u).rows[j] = rows[j]
      BY <1>1, <1>3, DeleteRows
    <2> QED BY <1>5, <2>1, <2>2, <2>3
  <1>9. ASSUME List PROVE Linked'
    <2>1. PICK u \in OwnerIds : Call("list", None, u, list_user_sessions(rows, u))
      BY <1>9 DEF List
    <2>2. pend' = pend /\ saved' = saved
      BY <1>9 DEF List
    <2>3. list_user_sessions(rows, u).rows = rows
      BY <1>1, ListRows
    <2> QED BY <1>5, <2>1, <2>2, <2>3
  <1>10. ASSUME NEW i \in Ids, Touch(i) PROVE Linked'
    <2>1. /\ kind \in Conditional /\ pend' = pend /\ saved' = saved
      BY <1>10 DEF Touch
    <2>2. PICK e \in Touches :
            Call("touch", i, e, touch_session_if_present(rows, i, e[1], e[2]))
      BY <1>10 DEF Touch
    <2>3. kind # "sqlx"
      BY <2>1 DEF Conditional
    <2> QED BY <1>3, <2>1, <2>2, <2>3, CallLinks
  <1>11. ASSUME NEW t \in Tasks, NEW i \in Ids, TouchFind(t, i) PROVE Linked'
    <2> DEFINE found == find_session(rows, i).out
    <2>1. PICK e \in Touches :
            \/ /\ found.tag = "some"
               /\ pend' = [pend EXCEPT ![t] =
                    [id |-> i, arg |-> e, session |-> Extended(The(found), e[1], e[2])]]
               /\ UNCHANGED <<kind, users, rows, last, saved, ended, settled, suite>>
            \/ /\ found.tag # "some"
               /\ Call("touch", i, e, touch_session_if_present(rows, i, e[1], e[2]))
               /\ UNCHANGED <<pend, saved>>
      BY <1>11 DEF TouchFind
    <2>2. /\ found.tag \in {"some", "none", "err"}
          /\ found.tag = "some" => rows[i] # None /\ The(found) = Reads(kind, rows[i])
      BY <1>1, FindRows, FindReads
    <2>3. kind \notin Conditional
      BY <1>11 DEF TouchFind
    <2>4. CASE found.tag = "some"
      <3> DEFINE old == The(found)
                 new == Extended(old, e[1], e[2])
                 copy == [id |-> i, arg |-> e, session |-> new]
      <3>1. rows[i] \in Session(Int) /\ old = Reads(kind, rows[i]) /\ saved[i] \in NewSessions
        BY <1>3, <2>2, <2>4 DEF Kept, Overlap
      <3>2. old \in Session(Int)
        BY <1>1, <3>1, NewSession, ReadsType
      <3>3. /\ pend' = [pend EXCEPT ![t] = copy]
            /\ UNCHANGED <<kind, users, rows, saved>>
        BY <2>1, <2>4
      <3> HIDE DEF old, found
      <3>4. new.expires = e[1] /\ new.active = e[2]
        BY <3>2 DEF Extended, Session
      <3> HIDE DEF new
      <3>5. copy.arg = e /\ copy.session = new
        OBVIOUS
      <3> HIDE DEF copy
      <3>6. \A u \in Tasks : pend'[u] = IF u = t THEN copy ELSE pend[u]
        BY <1>3, <3>3 DEF On
      <3>7. \A u \in Tasks : pend'[u] # None =>
              /\ pend'[u].session.expires = pend'[u].arg[1]
              /\ pend'[u].session.active = pend'[u].arg[2]
        BY <1>3, <3>4, <3>5, <3>6 DEF Linked
      <3> QED BY <1>3, <3>3, <3>7 DEF Linked
    <2>5. CASE found.tag # "some"
      <3>1. touch_session_if_present(rows, i, e[1], e[2]) \in
              {Returns(rows, Ok), Returns(rows, Err)}
        BY <1>1, <2>2, <2>3, <2>5 DEF touch_session_if_present, Conditional
      <3>2. touch_session_if_present(rows, i, e[1], e[2]).rows = rows
        BY <3>1 DEF Returns
      <3>3. /\ pend' = pend /\ saved' = saved
            /\ Call("touch", i, e, touch_session_if_present(rows, i, e[1], e[2]))
        BY <2>1, <2>5
      <3> QED BY <1>5, <3>2, <3>3
    <2> QED BY <2>4, <2>5
  <1>12. ASSUME NEW t \in Tasks, TouchSave(t) PROVE Linked'
    <2> DEFINE i == pend[t].id
               s == pend[t].session
               ret == save_session(rows, i, s)
    <2>1. /\ pend[t] # None /\ Call("touch", i, pend[t].arg, ret)
          /\ pend' = [pend EXCEPT ![t] = None] /\ saved' = saved
      BY <1>12 DEF TouchSave
    <2>2. /\ i \in Ids /\ s \in Session(0..U64Max) /\ s.user = saved[i].user
      BY <1>3, <2>1 DEF Overlap, Kept, Owner
    <2>3. kind = "sqlx" =>
           \A j \in Ids : ret.rows[j] # None => ret.rows[j].user = AsI64(saved[j].user)
      <3> SUFFICES ASSUME kind = "sqlx", NEW j \in Ids, ret.rows[j] # None
                   PROVE  ret.rows[j].user = AsI64(saved[j].user)
        OBVIOUS
      <3>1. PICK row \in Session(Int) :
               /\ row.user = AsI64(s.user)
               /\ ret = IF AsI64(s.user) \in UserIds(users)
                        THEN Returns(Upsert(rows, i, row), Ok) ELSE Returns(rows, Err)
        BY <2>2, SqlxSaves
      <3> HIDE DEF i, s, ret
      <3> DEFINE up == Upsert(rows, i, row)
      <3>2. /\ \A k \in Ids \ {i} : up[k] = rows[k]
            /\ rows[i] = None => up[i] = row
            /\ rows[i] # None => up[i].user = rows[i].user
        <4>1. rows[i] # None => rows[i] \in Session(Int)
          BY <1>3, <2>2 DEF Kept
        <4> QED BY <1>3, <2>2, <4>1 DEF Upsert, On, Session
      <3> HIDE DEF up
      <3>3. ret.rows = up \/ ret.rows = rows
        BY <3>1 DEF Returns, up
      <3> QED BY <1>3, <2>2, <3>1, <3>2, <3>3 DEF Linked
    <2> HIDE DEF i, s, ret
    <2>4. \A u \in Tasks : pend'[u] # None => pend'[u] = pend[u]
      BY <1>3, <2>1 DEF On
    <2>5. PICK arg : arg = pend[t].arg
      OBVIOUS
    <2>6. Call("touch", i, arg, ret)
      BY <2>1, <2>5
    <2> QED BY <1>3, <2>1, <2>3, <2>4, <2>6, CallLinks
  <1>13. ASSUME SuiteStep PROVE Linked'
    BY <1>3, <1>13 DEF SuiteStep
  <1>14. ASSUME UNCHANGED vars PROVE Linked'
    BY <1>3, <1>14 DEF Linked, vars
  <1>15. ASSUME StatementFails PROVE Linked'
    <2>1. /\ UNCHANGED <<kind, users, rows, saved, ended, settled, suite>>
          /\ \A t \in Tasks : pend'[t] # None => pend'[t] = pend[t]
      BY <1>3, <1>15, FailedStatement
    <2> QED BY <1>3, <2>1 DEF Linked
  <1> QED
    BY <1>4, <1>6, <1>7, <1>8, <1>9, <1>10, <1>11, <1>12, <1>13, <1>14, <1>15 DEF Next

\* The second half of a default touch is one call of the contract, a revival of
\* the session that was deleted meanwhile or, in sqlite_demo, an error.
LEMMA TouchSaveImplements ==
  ASSUME Seen, Linked, NEW t \in Tasks, TouchSave(t)
  PROVE  \/ Contract!Touch
         \/ LateTouch(t)
         \/ kind = "sqlite_demo" /\ ErrorAlone
  <1> DEFINE L == Loaded
             i == pend[t].id
             s == pend[t].session
             e == pend[t].arg
             ret == save_session(rows, i, s)
  <1>1. /\ pend[t] # None /\ Call("touch", i, e, ret) /\ pend' = [pend EXCEPT ![t] = None]
    BY DEF TouchSave
  <1>2. /\ kind \in Stores /\ Overlap /\ Kept /\ On(Ids, rows) /\ On(Ids, L) /\ On(Tasks, pend)
        /\ \A j \in Ids :
              /\ L[j] = IF rows[j] = None THEN None ELSE Reads(kind, rows[j])
              /\ rows[j] # None =>
                   /\ rows[j] \in Session(Int) /\ Reads(kind, rows[j]) \in Session(Int)
                   /\ L[j] # None /\ Owner(L[j]) = Owner(saved[j])
    BY LoadedRows
  <1>3. /\ i \in Ids /\ saved[i] # None /\ s \in Session(0..U64Max) /\ Owner(s) = Owner(saved[i])
        /\ kind \in {"sqlite_demo", "sqlx"} /\ s.expires = e[1] /\ s.active = e[2]
        /\ pend'[t] = None
    BY <1>1, <1>2 DEF Overlap, Kept, Linked, Stores, Conditional, On
  <1>4. PICK row \in Session(Int) :
          /\ Reads(kind, row) = s
          /\ \/ kind = "sqlite_demo" /\ ret = Returns(rows, Err)
             \/ ret = Returns(Upsert(rows, i, row), Ok)
    <2>1. CASE kind = "sqlite_demo"
      BY <1>2, <1>3, <2>1, SaveWrites
    <2>2. CASE kind = "sqlx"
      <3>1. AsI64(s.user) \in UserIds(users)
        BY <1>3, <2>2 DEF Linked, Owner
      <3>2. s \in Session(0..U64Max)
        BY <1>3
      <3> HIDE DEF i, s
      <3>3. PICK row \in Session(Int) :
              /\ Reads(kind, row) = s
              /\ save_session(rows, i, s) = IF AsI64(s.user) \in UserIds(users)
                                           THEN Returns(Upsert(rows, i, row), Ok)
                                           ELSE Returns(rows, Err)
        <4> HIDE DEF ret
        <4> QED BY <2>2, <3>2, SqlxSaves
      <3> QED BY <3>1, <3>3
    <2> QED BY <1>3, <2>1, <2>2
  <1> HIDE DEF L, i, s, e, ret
  <1>5. \A x, y : Returns(x, y).rows = x /\ Returns(x, y).out = y
    BY DEF Returns
  <1>6. CASE kind = "sqlite_demo" /\ ret = Returns(rows, Err)
    <2>1. ret.rows = rows /\ ret.out = Err
      BY <1>5, <1>6
    <2>2. Loaded' = Loaded /\ ended' = ended /\ last'.out = ret.out
      BY <1>1, <2>1, CallReads
    <2> QED BY <1>6, <2>1, <2>2 DEF ErrorAlone
  <1>7. CASE ret = Returns(Upsert(rows, i, row), Ok)
    <2> DEFINE up == Upsert(rows, i, row)
    <2>1. U64Max >= 0
      <3>1. saved[i] \in NewSessions
        BY <1>2, <1>3 DEF Kept
      <3> QED BY <3>1, NewSession
    <2>2. rows[i] = None \/ (/\ rows[i] \in Session(Int)
                             /\ Owner(Reads(kind, rows[i])) = Owner(Reads(kind, row)))
      BY <1>2, <1>3, <1>4
    <2>3. /\ On(Ids, up) /\ \A j \in Ids \ {i} : up[j] = rows[j]
          /\ up[i] \in Session(Int) /\ Reads(kind, up[i]) = s
      BY <1>2, <1>3, <1>4, <2>1, <2>2, UpsertStores
    <2>4. ret.rows = up /\ ret.out = Ok
      BY <1>5, <1>7
    <2> HIDE DEF up
    <2>5. up[i] # None /\ s # None
      <3>1. up[i] # None
        BY <2>3, NoneAssumption
      <3>2. s \in Session(Int)
        BY <1>2, <1>4, <2>1, ReadsType
      <3> QED BY <3>1, <3>2, NoneAssumption
    <2>6. /\ On(Ids, L')
          /\ \A j \in Ids : L'[j] = IF up[j] = None THEN None ELSE Reads(kind, up[j])
          /\ last'.op = "touch" /\ last'.id = i /\ last'.arg = e /\ last'.out = Ok
          /\ ended' = ended \cup {j \in Ids : rows[j] # None /\ up[j] = None}
      BY <1>1, <2>3, <2>4, CallLoads DEF L
    <2>7. ended' = ended
      BY <2>3, <2>5, <2>6
    <2>8. L'[i] = s /\ \A j \in Ids \ {i} : L'[j] = L[j]
      BY <1>2, <1>3, <2>3, <2>5, <2>6
    <2>9. CASE rows[i] = None
      <3> DEFINE M == [L EXCEPT ![i] = s]
      <3>1. On(Ids, M) /\ M[i] = s /\ \A j \in Ids \ {i} : M[j] = L[j]
        BY <1>2, <1>3 DEF On
      <3> HIDE DEF M
      <3>2. L' = M
        BY <2>6, <2>8, <3>1, SameTable
      <3>3. L[i] = None
        BY <1>2, <1>3, <2>9
      <3> QED BY <1>1, <1>3, <2>6, <2>7, <3>2, <3>3 DEF LateTouch, L, M, i, s
    <2>10. CASE rows[i] # None
      <3>1. L[i] \in Session(Int) /\ L[i] # None /\ Owner(L[i]) = Owner(s)
        BY <1>2, <1>3, <2>10
      <3>2. s = Extended(L[i], e[1], e[2])
        <4> DEFINE old == L[i]
                   new == Extended(old, e[1], e[2])
        <4>1. s \in Session(Int) /\ e[1] \in Int /\ e[2] \in Int \cup {None}
          <5>1. s \in Session(Int)
            BY <1>2, <1>4, <2>1, ReadsType
          <5> QED BY <1>3, <5>1 DEF Session
        <4>2. s.user = old.user /\ s.created = old.created /\ s.hash = old.hash
          BY <3>1 DEF Owner
        <4>3. old \in Session(Int)
          BY <3>1
        <4> HIDE DEF old
        <4>4. /\ new \in Session(Int) /\ new.user = old.user /\ new.created = old.created
              /\ new.expires = e[1] /\ new.active = e[2] /\ new.hash = old.hash
          BY <4>1, <4>3 DEF Extended, Session
        <4> HIDE DEF new
        <4>5. s = new
          BY <1>3, <4>1, <4>2, <4>4, SameFields
        <4> QED BY <4>5 DEF new, old
      <3>3. L' = Retimed(L, i, e[1], e[2])
        BY <1>2, <1>3, <2>6, <2>8, <3>2, OneRetimed
      <3>4. last'.out.tag = "ok"
        BY <2>6 DEF Ok
      <3> QED BY <2>6, <2>7, <3>1, <3>3, <3>4
              DEF Contract!Touch, Contract!Is, Contract!Tag, L, Retimed
    <2> QED BY <2>9, <2>10
  <1> QED BY <1>4, <1>6, <1>7

\* Every other call of a store with the default touch is a call of the contract,
\* an error of sqlite_demo or the first half of a touch, which changes nothing.
LEMMA DefaultImplements ==
  ASSUME Seen, Linked, Next, kind \notin Conditional
  PROVE  \/ Contract!Next
         \/ \E t \in Tasks : LateTouch(t)
         \/ kind = "sqlite_demo" /\ ErrorAlone
         \/ UNCHANGED <<Loaded, ended, last>>
  <1> DEFINE L == Loaded
  <1>1. /\ kind \in Stores \ Conditional /\ Application
        /\ Overlap /\ Kept /\ On(Ids, rows) /\ On(Ids, L)
        /\ \A i \in Ids :
              /\ L[i] = IF rows[i] = None THEN None ELSE Reads(kind, rows[i])
              /\ rows[i] # None =>
                   /\ saved[i] \in NewSessions
                   /\ L[i] # None /\ Owner(L[i]) = Owner(saved[i])
                   /\ kind # "sqlx" => L[i].user = rows[i].user
    BY LoadedRows DEF Seen
  <1> HIDE DEF L
  <1>2. ASSUME NEW i \in Ids, Save(i) PROVE Contract!Next
    BY <1>2, SaveImplements DEF Contract!Next
  <1>3. ASSUME NEW i \in Ids, Find(i)
        PROVE  Contract!Next \/ (kind = "sqlite_demo" /\ ErrorAlone)
    BY <1>3, FindImplements DEF Contract!Next
  <1>4. ASSUME NEW i \in Ids, Delete(i) PROVE Contract!Next
    <2>1. Call("delete", i, None, Returns(Remove(rows, {i}), Ok))
      BY <1>1, <1>4, DefaultDeletes DEF Delete
    <2>2. Contract!EndsExactly({i})
      BY <2>1, EndsImplements
    <2>3. last'.op = "delete" /\ last'.id = i
      BY <2>1 DEF Call
    <2> QED BY <2>2, <2>3 DEF Contract!Delete, Contract!Is, Contract!Next
  <1>5. ASSUME NEW u \in OwnerIds
        PROVE  Contract!Of(u) = IdsOf(rows, Key(u)) /\ IdsOf(rows, Key(u)) \in SUBSET Ids
    <2>1. DOMAIN L = Ids /\ DOMAIN rows = Ids
      BY <1>1 DEF On
    <2>2. u \in 0..U64Max
      <3>1. PICK x \in NewSessions : u = x.user
        BY DEF OwnerIds
      <3> QED BY <3>1, NewSession DEF Session
    <2>3. \A i \in Ids : rows[i] # None => (L[i].user = u <=> rows[i].user = Key(u))
      <3> SUFFICES ASSUME NEW i \in Ids, rows[i] # None
                   PROVE  L[i].user = u <=> rows[i].user = Key(u)
        OBVIOUS
      <3>1. CASE kind # "sqlx"
        BY <1>1, <3>1 DEF Key
      <3>2. CASE kind = "sqlx"
        <4>1. L[i].user = saved[i].user /\ rows[i].user = AsI64(saved[i].user)
          BY <1>1, <3>2 DEF Linked, Owner
        <4>2. saved[i].user \in 0..U64Max
          <5>1. saved[i] \in NewSessions
            BY <1>1
          <5> QED BY <5>1, NewSession DEF Session
        <4>3. AsI64(saved[i].user) = AsI64(u) => saved[i].user = u
          BY <2>2, <4>2, KeysDiffer
        <4> QED BY <3>2, <4>1, <4>3 DEF Key
      <3> QED BY <3>1, <3>2
    <2> QED BY <1>1, <2>1, <2>3 DEF Contract!Of, IdsOf, L
  <1>6. ASSUME NEW op, NEW arg, NEW u, Call(op, None, arg, Returns(rows, Err)) PROVE ErrorAlone
    <2>1. Returns(rows, Err).rows = rows /\ Returns(rows, Err).out = Err
      BY DEF Returns
    <2> QED BY <1>6, <2>1, CallReads DEF ErrorAlone
  <1>7. ASSUME DeleteUser PROVE Contract!Next \/ (kind = "sqlite_demo" /\ ErrorAlone)
    <2>1. PICK u \in OwnerIds : Call("delete_user", None, u, delete_user_sessions(rows, u))
      BY <1>7 DEF DeleteUser
    <2>2. CASE delete_user_sessions(rows, u) = Returns(Remove(rows, IdsOf(rows, Key(u))), Ok)
      <3>1. Contract!EndsExactly(IdsOf(rows, Key(u)))
        BY <1>5, <2>1, <2>2, EndsImplements
      <3>2. last'.op = "delete_user" /\ last'.arg = u
        BY <2>1 DEF Call
      <3> QED BY <1>5, <3>1, <3>2 DEF Contract!DeleteUser, Contract!Is, Contract!Next
    <2>3. CASE kind = "sqlite_demo" /\ delete_user_sessions(rows, u) = Returns(rows, Err)
      BY <1>6, <2>1, <2>3
    <2> QED BY <1>1, <2>2, <2>3, DefaultDeletes
  <1>8. ASSUME List PROVE Contract!Next \/ (kind = "sqlite_demo" /\ ErrorAlone)
    <2>1. PICK u \in OwnerIds : Call("list", None, u, list_user_sessions(rows, u))
      BY <1>8 DEF List
    <2> DEFINE xs == {<<i, Reads(kind, rows[i])>> : i \in IdsOf(rows, Key(u))}
               ret == Returns(rows, Listed(xs))
    <2>2. xs = {<<i, L[i]>> : i \in IdsOf(rows, Key(u))}
      <3>1. \A i \in IdsOf(rows, Key(u)) : L[i] = Reads(kind, rows[i])
        BY <1>1, <1>5 DEF IdsOf
      <3> QED BY <3>1
    <2>3. \/ list_user_sessions(rows, u) = ret
          \/ kind = "sqlite_demo" /\ list_user_sessions(rows, u) = Returns(rows, Err)
      BY <1>1, DefaultLists
    <2> HIDE DEF xs
    <2>4. ret.rows = rows /\ ret.out = Listed(xs)
      BY DEF Returns
    <2> HIDE DEF ret
    <2>5. CASE list_user_sessions(rows, u) = ret
      <3>1. /\ L' = L /\ ended' = ended /\ last'.op = "list" /\ last'.arg = u
            /\ last'.out = ret.out
        BY <2>1, <2>4, <2>5, CallReads DEF L
      <3>2. last'.out.tag = "list" /\ last'.out.got = xs
        BY <2>4, <3>1 DEF Listed
      <3>3. Contract!Of(last'.arg) = IdsOf(rows, Key(u))
        BY <1>5, <3>1
      <3>4. last'.out.got = {<<i, Loaded[i]>> : i \in Contract!Of(last'.arg)}
        BY <2>2, <3>2, <3>3 DEF L
      <3> QED BY <3>1, <3>2, <3>4
              DEF Contract!List, Contract!Is, Contract!Tag, L, Contract!Next
    <2>6. CASE kind = "sqlite_demo" /\ list_user_sessions(rows, u) = Returns(rows, Err)
      BY <1>6, <2>1, <2>6
    <2> QED BY <2>3, <2>5, <2>6
  <1>9. ASSUME NEW i \in Ids, Touch(i) PROVE FALSE
    BY <1>9 DEF Touch
  <1>10. ASSUME NEW t \in Tasks, NEW i \in Ids, TouchFind(t, i)
         PROVE  \/ Contract!Next
                \/ kind = "sqlite_demo" /\ ErrorAlone
                \/ UNCHANGED <<Loaded, ended, last>>
    <2> DEFINE found == find_session(rows, i).out
    <2>1. PICK e \in Touches :
            \/ /\ found.tag = "some"
               /\ UNCHANGED <<kind, rows, last, ended>>
            \/ /\ found.tag # "some"
               /\ Call("touch", i, e, touch_session_if_present(rows, i, e[1], e[2]))
      BY <1>10 DEF TouchFind
    <2>2. /\ rows[i] # None => found.tag = "some"
          /\ rows[i] = None => found = IF kind = "sqlite_demo" THEN Err ELSE Absent
      BY <1>1, FindReads
    <2>3. CASE UNCHANGED <<kind, rows, last, ended>>
      BY <2>3 DEF Seen
    <2>4. CASE found.tag # "some" /\ Call("touch", i, e, touch_session_if_present(rows, i, e[1], e[2]))
      <3> DEFINE ret == touch_session_if_present(rows, i, e[1], e[2])
      <3>1. rows[i] = None
        BY <2>2, <2>4
      <3>2. ret = Returns(rows, IF kind = "sqlite_demo" THEN Err ELSE Ok)
        <4>1. kind # "memory" /\ kind # "adapter"
          BY <1>1 DEF Conditional
        <4> QED BY <2>2, <3>1, <4>1 DEF touch_session_if_present, Err, Absent
      <3>3. Call("touch", i, e, ret)
        BY <2>4
      <3> HIDE DEF ret
      <3>4. ret.rows = rows /\ ret.out = IF kind = "sqlite_demo" THEN Err ELSE Ok
        BY <3>2 DEF Returns
      <3>5. /\ Loaded' = Loaded /\ ended' = ended
            /\ last'.op = "touch" /\ last'.id = i /\ last'.arg = e /\ last'.out = ret.out
        BY <3>3, <3>4, CallReads
      <3>6. CASE kind = "sqlite_demo"
        BY <3>4, <3>5, <3>6 DEF ErrorAlone
      <3>7. CASE kind # "sqlite_demo"
        <4>1. last'.out.tag = "ok" /\ Loaded[last'.id] = None
          BY <1>1, <3>1, <3>4, <3>5, <3>7 DEF Ok, L
        <4> QED BY <3>5, <4>1 DEF Contract!Touch, Contract!Is, Contract!Tag, Contract!Next
      <3> QED BY <3>6, <3>7
    <2> QED BY <2>1, <2>3, <2>4
  <1>11. ASSUME NEW t \in Tasks, TouchSave(t)
         PROVE  Contract!Next \/ LateTouch(t) \/ (kind = "sqlite_demo" /\ ErrorAlone)
    BY <1>11, TouchSaveImplements DEF Contract!Next
  <1>12. ~ SuiteStep
    BY <1>1 DEF SuiteStep
  <1>13. ASSUME StatementFails PROVE Contract!Next
    BY <1>13, FailureImplements DEF Contract!Next
  <1> QED BY <1>2, <1>3, <1>4, <1>7, <1>8, <1>9, <1>10, <1>11, <1>12, <1>13 DEF Next

\* For the two stores that keep the default touch, any number of touches in
\* progress and any width of a word: they differ from the contract in a touch
\* whose session was deleted meanwhile and, sqlite_demo, in errors where no statement
\* failed, and in nothing else.
THEOREM OnlyLateTouchesBreakContract == Spec => OnlyLateTouchDiffers
  <1>1. DInv /\ DInv' /\ [Next]_vars => [DefaultTouchStep]_<<Loaded, ended, last>>
    <2> SUFFICES ASSUME DInv, DInv', [Next]_vars
                 PROVE  [DefaultTouchStep]_<<Loaded, ended, last>>
      OBVIOUS
    <2>1. kind \in Stores /\ kind' \in Stores /\ KInv /\ KInv'
      BY DEF DInv, KInv, IInv
    <2>2. Loaded = View(kind, rows)
      BY <2>1, LoadedIsView
    <2>3. (kind \in Stores => Loaded = View(kind, rows))'
      BY LoadedIsView, PTL
    <2>4. Loaded' = View(kind', rows')
      BY <2>1, <2>3
    <2>5. CASE UNCHANGED vars
      <3>1. Loaded' = Loaded /\ ended' = ended /\ last' = last
        BY <2>2, <2>4, <2>5 DEF vars
      <3> QED BY <3>1
    <2>6. CASE Next
      <3> SUFFICES ASSUME kind \notin Conditional, Application,
                          ~ UNCHANGED <<Loaded, ended, last>>
                   PROVE  \/ Contract!Next
                          \/ \E t \in Tasks : LateTouch(t)
                          \/ kind = "sqlite_demo" /\ ErrorAlone
        BY DEF DefaultTouchStep
      <3>1. kind' = kind
        BY <2>6 DEF Next, Save, Find, Delete, Touch, TouchFind, TouchSave, DeleteUser, List,
               StatementFails, SuiteStep, Call
      <3>2. Seen /\ Linked
        BY <2>1, <2>2, <2>4, <3>1 DEF Seen, DInv
      <3> QED BY <2>6, <3>2, DefaultImplements
    <2> QED BY <2>5, <2>6
  <1> QED BY LinkedInitially, LinkedInductive, <1>1, PTL DEF Spec, OnlyLateTouchDiffers

-----------------------------------------------------------------------------
\* The sessions of the suites, whose numbers fit every store.
Plain == Session(0..3)

\* A table of such sessions, under the ids of the suites.
Table(rs) == On(SuiteIds, rs) /\ \A i \in SuiteIds : rs[i] \in Plain \cup {None}

\* The table with a row written.
Put(rs, i, s) == [rs EXCEPT ![i] = s]

\* Their numbers are within the words and the integers of every store.
LEMMA PlainNumbers ==
  /\ Plain \subseteq Session(0..U64Max) /\ Plain \subseteq Session(Int) /\ None \notin Plain
  /\ U64Max >= 0
  /\ \A x \in 0..3 : AsI64(x) = x /\ AsU64(x) = x
  /\ \A x \in (0..3) \cup {None} : MapOption(AsI64, x) = x /\ MapOption(AsU64, x) = x
  <1>1. 0..3 \subseteq 0..U64Max /\ 0..3 \subseteq 0..I64Max
    BY SuiteNumbersAssumption
  <1>2. U64Max \in Int /\ I64Max \in Int
    BY BitsAssumption DEF U64Max, I64Max
  <1>3. U64Max >= 3 /\ I64Max >= 3
    BY <1>1, <1>2
  <1>4. Plain \subseteq Session(0..U64Max) /\ Plain \subseteq Session(Int)
    BY <1>2, <1>3 DEF Plain, Session
  <1>5. \A x \in 0..3 : AsI64(x) = x
    BY <1>2, <1>3 DEF AsI64
  <1>6. \A x \in 0..3 : AsU64(x) = x
    BY <1>1, <1>5, RoundTrip
  <1>7. \A x \in (0..3) \cup {None} : MapOption(AsI64, x) = x /\ MapOption(AsU64, x) = x
    BY <1>5, <1>6 DEF MapOption
  <1>8. None \notin Plain
    BY <1>4, NoneAssumption
  <1>9. U64Max >= 0
    BY <1>2, <1>3
  <1> QED BY <1>4, <1>5, <1>6, <1>7, <1>8, <1>9

\* A conversion of such a number, and the checks on reading it back, change nothing.
LEMMA PlainReads ==
  ASSUME kind \in Stores, NEW s \in Plain
  PROVE  Reads(kind, s) = s
  <1>1. s \in Session(Int) /\ U64Max >= 0
    BY PlainNumbers
  <1>2. /\ s.user \in 0..3 /\ s.created \in 0..3 /\ s.expires \in 0..3
        /\ s.active \in (0..3) \cup {None}
    BY DEF Plain, Session
  <1>3. Reads(kind, s) \in Session(Int)
    BY <1>1, ReadsType
  <1>4. /\ Reads(kind, s).user = s.user /\ Reads(kind, s).created = s.created
        /\ Reads(kind, s).expires = s.expires /\ Reads(kind, s).active = s.active
        /\ Reads(kind, s).hash = s.hash
    BY <1>1, <1>2, ReadsFields, PlainNumbers DEF Stores
  <1> QED BY <1>1, <1>3, <1>4, SameFields

\* What the casts make of a plain session is that session.
LEMMA PlainRow ==
  ASSUME NEW s \in Plain
  PROVE  /\ [s EXCEPT !.created = s.created, !.expires = s.expires, !.active = s.active] = s
         /\ [s EXCEPT !.user = s.user, !.created = s.created, !.expires = s.expires,
                      !.active = s.active] = s
  <1> DEFINE r == [s EXCEPT !.created = s.created, !.expires = s.expires, !.active = s.active]
             q == [s EXCEPT !.user = s.user, !.created = s.created, !.expires = s.expires,
                      !.active = s.active]
  <1>1. s \in Session(Int)
    BY PlainNumbers
  <1>2. /\ r \in Session(Int) /\ r.user = s.user /\ r.created = s.created
        /\ r.expires = s.expires /\ r.active = s.active /\ r.hash = s.hash
    BY <1>1 DEF Session
  <1>3. /\ q \in Session(Int) /\ q.user = s.user /\ q.created = s.created
        /\ q.expires = s.expires /\ q.active = s.active /\ q.hash = s.hash
    BY <1>1 DEF Session
  <1> HIDE DEF r, q
  <1>4. r = s /\ q = s
    BY <1>1, <1>2, <1>3, SameFields
  <1> QED BY <1>4 DEF r, q

\* A session is written over nothing, or over a row of the same owner and start.
LEMMA UpsertPlain ==
  ASSUME NEW rs, On(SuiteIds, rs), NEW i \in SuiteIds, NEW s \in Plain,
         rs[i] \in Plain \cup {None},
         rs[i] # None => rs[i].user = s.user /\ rs[i].created = s.created
  PROVE  Upsert(rs, i, s) = Put(rs, i, s)
  <1> DEFINE old == rs[i]
             new == [old EXCEPT !.expires = s.expires, !.active = s.active, !.hash = s.hash]
             up == IF old = None THEN s ELSE new
  <1>1. Upsert(rs, i, s) = [rs EXCEPT ![i] = up]
    BY DEF Upsert
  <1>2. old # None => new = s
    <2> SUFFICES ASSUME old # None PROVE new = s
      OBVIOUS
    <2>1. s \in Session(Int) /\ old \in Session(Int)
      BY PlainNumbers
    <2>2. old.user = s.user /\ old.created = s.created
      OBVIOUS
    <2> HIDE DEF old
    <2>3. /\ new \in Session(Int) /\ new.user = s.user /\ new.created = s.created
          /\ new.expires = s.expires /\ new.active = s.active /\ new.hash = s.hash
      BY <2>1, <2>2 DEF Session
    <2> HIDE DEF new
    <2> QED BY <2>1, <2>3, SameFields
  <1>3. up = s
    BY <1>2
  <1> HIDE DEF up
  <1> QED BY <1>1, <1>3 DEF Put

\* A save writes the session, where a SQL store has its user.
LEMMA PlainSave ==
  ASSUME kind \in Stores \ {"sqlite_demo"}, NEW rs, On(SuiteIds, rs), NEW i \in SuiteIds,
         NEW s \in Plain, kind # "memory" => s.user \in UserIds(users),
         rs[i] \in Plain \cup {None},
         rs[i] # None => rs[i].user = s.user /\ rs[i].created = s.created
  PROVE  save_session(rs, i, s) = Returns(Put(rs, i, s), Ok)
  <1>1. Upsert(rs, i, s) = Put(rs, i, s)
    BY UpsertPlain
  <1>2. /\ s.user \in 0..3 /\ s.created \in 0..3 /\ s.expires \in 0..3
        /\ s.active \in (0..3) \cup {None}
    BY DEF Plain, Session
  <1>6. /\ AsI64(s.user) = s.user /\ AsI64(s.created) = s.created
        /\ AsI64(s.expires) = s.expires /\ MapOption(AsI64, s.active) = s.active
    BY <1>2, PlainNumbers
  <1>3. CASE kind = "memory"
    BY <1>3 DEF save_session, Put
  <1>4. CASE kind = "adapter"
    <2> DEFINE c == Adapter!AsI64(s.created)
               e == Adapter!AsI64(s.expires)
               a == Adapter!MapOption(Adapter!AsI64, s.active)
               row == [s EXCEPT !.created = c, !.expires = e, !.active = a]
    <2>1. c = s.created /\ e = s.expires /\ a = s.active
      BY <1>6, Casts, OptionCasts
    <2>2. Adapter!UserIds(users) = UserIds(users)
      BY DEF Adapter!UserIds, UserIds
    <2>3. Adapter!save_session(users, rs, i, s) =
            Adapter!Returns(Adapter!Upsert(rs, i, row), Adapter!Ok)
      BY <1>4, <2>2, Zenon DEF Adapter!save_session
    <2> HIDE DEF c, e, a
    <2>4. row = s
      BY <2>1, PlainRow
    <2> HIDE DEF row
    <2>5. Adapter!Returns(Adapter!Upsert(rs, i, s), Adapter!Ok) = Returns(Upsert(rs, i, s), Ok)
      BY DEF Adapter!Returns, Adapter!Upsert, Adapter!Ok, Returns, Upsert, Ok
    <2> QED BY <1>1, <1>4, <2>3, <2>4, <2>5 DEF save_session
  <1>5. CASE kind = "sqlx"
    <2> DEFINE u == Sqlx!AsI64(s.user)
               c == Sqlx!AsI64(s.created)
               e == Sqlx!AsI64(s.expires)
               a == Sqlx!MapOption(Sqlx!AsI64, s.active)
               row == [s EXCEPT !.user = u, !.created = c, !.expires = e, !.active = a]
    <2>1. u = s.user /\ c = s.created /\ e = s.expires /\ a = s.active
      BY <1>6, Casts, OptionCasts
    <2>2. Sqlx!UserIds(users) = UserIds(users)
      BY DEF Sqlx!UserIds, UserIds
    <2>3. \/ row.user \notin Sqlx!UserIds(users)
          \/ Sqlx!save_session(users, rs, i, s) =
               Sqlx!Returns(Sqlx!Upsert(rs, i, row), Sqlx!Ok)
      BY Zenon DEF Sqlx!save_session
    <2> HIDE DEF u, c, e, a
    <2>4. row = s
      BY <2>1, PlainRow
    <2> HIDE DEF row
    <2>5. Sqlx!Returns(Sqlx!Upsert(rs, i, s), Sqlx!Ok) = Returns(Upsert(rs, i, s), Ok)
      BY DEF Sqlx!Returns, Sqlx!Upsert, Sqlx!Ok, Returns, Upsert, Ok
    <2> QED BY <1>1, <1>5, <2>2, <2>3, <2>4, <2>5 DEF save_session
  <1> QED BY <1>3, <1>4, <1>5 DEF Stores

\* A find returns what is held.
LEMMA PlainFind ==
  ASSUME kind \in Stores \ {"sqlite_demo"}, NEW rs, NEW i, rs[i] \in Plain \cup {None}
  PROVE  find_session(rs, i) =
           Returns(rs, IF rs[i] = None THEN Absent ELSE Found(rs[i]))
  <1>1. rs[i] # None => Reads(kind, rs[i]) = rs[i]
    BY PlainReads
  <1>2. CASE kind = "memory"
    BY <1>2 DEF find_session, memory_find
  <1>3. CASE kind = "adapter"
    <2>1. rs[i] # None => Adapter!SessionOf(rs[i]) = rs[i]
      BY <1>1, <1>3 DEF Reads
    <2>2. find_session(rs, i) =
            Adapter!Returns(rs, IF rs[i] = None THEN Adapter!Absent ELSE Adapter!Found(rs[i]))
      BY <1>3, <2>1 DEF find_session, Adapter!find_session
    <2> QED BY <2>2 DEF Adapter!Returns, Adapter!Absent, Adapter!Found, Returns, Absent, Found
  <1>4. CASE kind = "sqlx"
    <2>1. rs[i] # None => Sqlx!SessionOf(rs[i]) = rs[i]
      BY <1>1, <1>4 DEF Reads
    <2>2. find_session(rs, i) =
            Sqlx!Returns(rs, IF rs[i] = None THEN Sqlx!Absent ELSE Sqlx!Found(rs[i]))
      BY <1>4, <2>1 DEF find_session, Sqlx!find_session
    <2> QED BY <2>2 DEF Sqlx!Returns, Sqlx!Absent, Sqlx!Found, Returns, Absent, Found
  <1> QED BY <1>2, <1>3, <1>4 DEF Stores

\* A delete removes the row, and a revocation the rows of the user.
LEMMA PlainDelete ==
  ASSUME kind \in Stores \ {"sqlite_demo"}, NEW rs, NEW i, NEW u \in 0..3
  PROVE  /\ delete_session(rs, i) = Returns(Remove(rs, {i}), Ok)
         /\ delete_user_sessions(rs, u) = Returns(Remove(rs, IdsOf(rs, u)), Ok)
  <1>1. CASE kind \in Conditional
    BY <1>1, DeleteExactly
  <1>2. CASE kind = "sqlx"
    <2>1. \A ids : Sqlx!Returns(Sqlx!Remove(rs, ids), Sqlx!Ok) = Returns(Remove(rs, ids), Ok)
      BY DEF Sqlx!Returns, Sqlx!Remove, Sqlx!Ok, Returns, Remove, Ok
    <2>2. Sqlx!IdsOf(rs, Sqlx!AsI64(u)) = IdsOf(rs, u)
      <3>1. Sqlx!AsI64(u) = u
        BY PlainNumbers, Casts
      <3> QED BY <3>1 DEF Sqlx!IdsOf, IdsOf
    <2> QED BY <1>2, <2>1, <2>2 DEF delete_session, delete_user_sessions,
              Sqlx!delete_session, Sqlx!delete_user_sessions
  <1> QED BY <1>1, <1>2 DEF Stores, Conditional

\* The listing returns the user's sessions under their ids.
LEMMA PlainList ==
  ASSUME kind \in Stores \ {"sqlite_demo"}, NEW rs, Table(rs), NEW u \in 0..3
  PROVE  list_user_sessions(rs, u) =
           Returns(rs, Listed({<<i, rs[i]>> : i \in IdsOf(rs, u)}))
  <1> DEFINE xs == {<<i, rs[i]>> : i \in IdsOf(rs, u)}
             ys == {<<i, Reads(kind, rs[i])>> : i \in IdsOf(rs, u)}
  <1>1. \A i \in IdsOf(rs, u) : Reads(kind, rs[i]) = rs[i]
    BY PlainReads DEF Table, On, IdsOf
  <1>2. ys = xs
    BY <1>1
  <1>3. CASE kind \in Conditional
    <2>1. list_user_sessions(rs, u) = Returns(rs, Listed(ys))
      BY <1>3, ListReads
    <2> QED BY <1>2, <2>1
  <1>4. CASE kind = "sqlx"
    <2>1. \A r : Reads(kind, r) = Sqlx!SessionOf(r)
      BY <1>4 DEF Reads
    <2>2. list_user_sessions(rs, u) = Sqlx!list_user_sessions(rs, u)
      BY <1>4 DEF list_user_sessions
    <2>3. Sqlx!IdsOf(rs, Sqlx!AsI64(u)) = IdsOf(rs, u)
      <3>1. Sqlx!AsI64(u) = u
        BY PlainNumbers, Casts
      <3> QED BY <3>1 DEF Sqlx!IdsOf, IdsOf
    <2>4. \A x : Sqlx!Returns(rs, Sqlx!Listed(x)) = Returns(rs, Listed(x))
      BY DEF Sqlx!Returns, Returns, Sqlx!Listed, Listed
    <2>5. Sqlx!list_user_sessions(rs, u) = Sqlx!Returns(rs, Sqlx!Listed(ys))
      BY <2>1, <2>3, Zenon DEF Sqlx!list_user_sessions
    <2> QED BY <1>2, <2>2, <2>4, <2>5
  <1> QED BY <1>3, <1>4 DEF Stores, Conditional

\* An extension that nobody disturbs, conditional or not.
LEMMA PlainTouch ==
  ASSUME kind \in Stores \ {"sqlite_demo"}, NEW rs, Table(rs), NEW i \in SuiteIds,
         NEW e \in 0..3, NEW a \in 0..3,
         kind = "sqlx" /\ rs[i] # None => rs[i].user \in UserIds(users)
  PROVE  touch_session_if_present(rs, i, e, a) =
           Returns(IF rs[i] = None THEN rs ELSE Put(rs, i, Extended(rs[i], e, a)), Ok)
  <1> DEFINE new == Extended(rs[i], e, a)
             ret == touch_session_if_present(rs, i, e, a)
  <1>1. rs[i] \in Plain \cup {None}
    BY DEF Table
  <1>2. rs[i] # None => [rs EXCEPT ![i].expires = e, ![i].active = a] = Put(rs, i, new)
    <2> SUFFICES ASSUME rs[i] # None
                 PROVE  [rs EXCEPT ![i].expires = e, ![i].active = a] = Put(rs, i, new)
      OBVIOUS
    <2>1. [rs EXCEPT ![i].expires = e, ![i].active = a]
            = [rs EXCEPT ![i] = [rs[i] EXCEPT !.expires = e, !.active = a]]
      BY DEF Table, On
    <2> QED BY <2>1 DEF Put, Extended
  <1>3. CASE kind = "memory"
    <2>1. ret = memory_touch(rs, i, e, a)
      BY <1>3 DEF touch_session_if_present
    <2> HIDE DEF ret, new
    <2> QED BY <1>2, <2>1 DEF memory_touch, ret, new
  <1>4. CASE kind = "adapter"
    <2>1. ret = Adapter!touch_session_if_present(rs, i, e, a)
      BY <1>4 DEF touch_session_if_present
    <2>2. Adapter!AsI64(e) = e /\ Adapter!AsI64(a) = a
      BY PlainNumbers, Casts
    <2>3. \A x : Adapter!Returns(x, Adapter!Ok) = Returns(x, Ok)
      BY DEF Adapter!Returns, Adapter!Ok, Returns, Ok
    <2> HIDE DEF ret, new
    <2>4. ret = Adapter!Returns(IF rs[i] = None THEN rs
                  ELSE [rs EXCEPT ![i].expires = e, ![i].active = a], Adapter!Ok)
      BY <2>1, <2>2, Zenon DEF Adapter!touch_session_if_present
    <2> QED BY <1>2, <2>3, <2>4 DEF ret, new
  <1>5. CASE kind = "sqlx"
    <2>1. find_session(rs, i).out = IF rs[i] = None THEN Absent ELSE Found(rs[i])
      BY <1>1, <1>5, PlainFind DEF Stores, Returns
    <2>2. Absent.tag = "none" /\ \A x : Found(x).tag = "some" /\ The(Found(x)) = x
      BY DEF Absent, Found, The
    <2>3. CASE rs[i] = None
      <3>1. ret = Returns(rs, Ok)
        BY <1>5, <2>1, <2>2, <2>3 DEF touch_session_if_present
      <3> QED BY <2>3, <3>1
    <2>4. CASE rs[i] # None
      <3>1. ret = save_session(rs, i, new)
        BY <1>5, <2>1, <2>2, <2>4 DEF touch_session_if_present
      <3>2. /\ new \in Plain /\ new.user = rs[i].user /\ new.created = rs[i].created
        BY <1>1, <2>4 DEF Plain, Session, Extended
      <3> HIDE DEF new, ret
      <3>3. save_session(rs, i, new) = Returns(Put(rs, i, new), Ok)
        BY <1>1, <1>5, <2>4, <3>2, PlainSave DEF Table, Stores
      <3> QED BY <2>4, <3>1, <3>3 DEF ret, new
    <2> QED BY <2>3, <2>4
  <1> QED BY <1>3, <1>4, <1>5 DEF Stores

\* The users a suite is given, the seeded one with the hash `auth'.
Seeding(auth) ==
  \E others \in {{}, Others} : users = {Seeded(1, Alice, auth)} \cup others

\* The session that a login of the seeded user starts.
LoginSession(auth) ==
  [user |-> 1, created |-> Now, expires |-> Later, active |-> None, hash |-> auth]

\* The seeded user is found by id and by identifier, an unknown one is not.
LEMMA SeededUser ==
  ASSUME kind \in Conditional, NEW auth, Seeding(auth)
  PROVE  /\ 1 \in UserIds(users)
         /\ find_by_id(1) = Found(Seeded(1, Alice, auth)) /\ find_by_id(Unknown) = Absent
         /\ find_by_identifier(Alice) = Found(Seeded(1, Alice, auth))
         /\ find_by_identifier("nobody") = Absent
  <1> DEFINE alice == Seeded(1, Alice, auth)
  <1>1. /\ alice \in users /\ alice.id = 1 /\ alice.email = Alice /\ alice.username = Alice
        /\ \A u \in users \ {alice} : /\ u.id \in {2, 3} /\ u.email = u.username
                                      /\ u.email \in {"bob", "carol"}
    <2> DEFINE bob == Seeded(User42, "bob", "")
               carol == Seeded(User99, "carol", "")
    <2>1. /\ alice.id = 1 /\ alice.email = Alice /\ alice.username = Alice
          /\ bob.id = 2 /\ bob.email = "bob" /\ bob.username = "bob"
          /\ carol.id = 3 /\ carol.email = "carol" /\ carol.username = "carol"
      BY DEF Seeded, User42, User99
    <2>2. alice \in users /\ users \subseteq {alice, bob, carol}
      BY DEF Seeding, Others
    <2> HIDE DEF alice, bob, carol
    <2> QED BY <2>1, <2>2
  <1>2. /\ {u \in users : u.id = 1} = {alice}
        /\ {u \in users : u.email = Alice} = {alice}
        /\ {u \in users : Alice \in {u.email, u.username}} = {alice}
        /\ {u \in users : u.email = "nobody"} = {}
        /\ {u \in users : "nobody" \in {u.email, u.username}} = {}
    BY <1>1 DEF Alice
  <1>3. 1 \in UserIds(users) /\ 0 \notin UserIds(users)
    BY <1>1 DEF UserIds
  <1>4. WithId(users, 1) = alice
    BY <1>1 DEF WithId
  <1>5. (CHOOSE u \in {alice} : TRUE) = alice
    OBVIOUS
  <1> HIDE DEF alice
  <1>6. CASE kind = "memory"
    <2>1. find_by_id(1) = Found(alice) /\ find_by_id(Unknown) = Absent
      BY <1>3, <1>4, <1>6 DEF find_by_id, memory_find_user, Unknown
    <2>2. /\ find_by_identifier(Alice) = memory_find_identifier(users, Alice)
          /\ find_by_identifier("nobody") = memory_find_identifier(users, "nobody")
      BY <1>6 DEF find_by_identifier
    <2>3. /\ memory_find_identifier(users, Alice) = Found(alice)
          /\ memory_find_identifier(users, "nobody") = Absent
      BY <1>2, <1>5 DEF memory_find_identifier
    <2> QED BY <1>3, <2>1, <2>2, <2>3 DEF alice
  <1>7. CASE kind = "adapter"
    <2>1. /\ Adapter!UserIds(users) = UserIds(users) /\ Adapter!WithId(users, 1) = WithId(users, 1)
          /\ \A x : Adapter!Found(x) = Found(x)
          /\ Adapter!Absent = Absent
      BY DEF Adapter!UserIds, UserIds, Adapter!WithId, WithId, Adapter!Found, Found,
             Adapter!Absent, Absent
    <2>2. find_by_id(1) = Found(alice) /\ find_by_id(Unknown) = Absent
      BY <1>3, <1>4, <1>7, <2>1 DEF find_by_id, Adapter!find_by_id, Unknown
    <2>3. /\ find_by_identifier(Alice) = Adapter!find_by_identifier(users, Alice)
          /\ find_by_identifier("nobody") = Adapter!find_by_identifier(users, "nobody")
      BY <1>7 DEF find_by_identifier
    <2>4. /\ Adapter!find_by_identifier(users, Alice) = Found(alice)
          /\ Adapter!find_by_identifier(users, "nobody") = Absent
      BY <1>2, <1>5, <2>1 DEF Adapter!find_by_identifier
    <2> QED BY <1>3, <2>2, <2>3, <2>4 DEF alice
  <1> QED BY <1>6, <1>7 DEF Conditional

\* The parts of a result.
LEMMA Outcomes ==
  /\ Ok.tag = "ok" /\ Absent.tag = "none" /\ Err.tag = "err" /\ Invalid.tag = "invalid"
  /\ \A x : Found(x).tag = "some" /\ The(Found(x)) = x
  /\ \A x, y : Returns(x, y).rows = x /\ Returns(x, y).out = y
  BY DEF Ok, Absent, Err, Invalid, Found, The, Returns

\* login, validate_session and logout of the seeded user, nobody else running.
LEMMA EngineCalls ==
  ASSUME kind \in Conditional, NEW auth \in SeedHashes, Seeding(auth), Table(rows),
         NEW i \in SuiteIds
  PROVE  /\ Login(i, Alice, "wrong") = Returns(rows, Invalid)
         /\ rows[i] = None =>
              /\ Login(i, Alice, Correct) =
                   Returns(Put(rows, i, LoginSession(auth)), Found(Seeded(1, Alice, auth)))
              /\ Validate(i) = Returns(rows, Absent)
         /\ rows[i] = LoginSession(auth) =>
              Validate(i) = Returns(Put(rows, i, Extended(LoginSession(auth), Later, Now)),
                                    Found(Seeded(1, Alice, auth)))
         /\ rows[i] # None /\ rows[i].user = 1 => Logout(i) = Returns(Remove(rows, {i}), Ok)
  <1> DEFINE alice == Seeded(1, Alice, auth)
             s == LoginSession(auth)
  <1>0. /\ kind \in Stores \ {"sqlite_demo"} /\ kind # "sqlx" /\ rows[i] \in Plain \cup {None}
        /\ On(SuiteIds, rows)
    BY DEF Conditional, Stores, Table
  <1>1. /\ 1 \in UserIds(users) /\ find_by_id(1) = Found(alice)
        /\ find_by_identifier(Alice) = Found(alice)
    BY SeededUser
  <1>2. alice.id = 1 /\ alice.auth = auth
    BY DEF Seeded
  <1>3. s \in Plain /\ s # None /\ s.user = 1 /\ s.hash = auth
    <2>1. s \in Plain
      BY DEF LoginSession, Plain, Session, Now, Later
    <2> QED BY <2>1, PlainNumbers DEF LoginSession
  <1>4. s = [user |-> alice.id, created |-> Now, expires |-> Later, active |-> None,
             hash |-> alice.auth]
    BY <1>2 DEF LoginSession
  <1> HIDE DEF alice, s
  <1>5. find_session(rows, i).out = IF rows[i] = None THEN Absent ELSE Found(rows[i])
    BY <1>0, PlainFind, Outcomes
  <1>6. Login(i, Alice, "wrong") = Returns(rows, Invalid)
    BY <1>1, Outcomes DEF Login, Correct
  <1>7. ASSUME rows[i] = None
        PROVE  /\ Login(i, Alice, Correct) = Returns(Put(rows, i, s), Found(alice))
               /\ Validate(i) = Returns(rows, Absent)
    <2>1. save_session(rows, i, s) = Returns(Put(rows, i, s), Ok)
      BY <1>0, <1>1, <1>3, <1>7, PlainSave
    <2>2. Login(i, Alice, Correct) =
            IF save_session(rows, i, s).out = Ok
            THEN Returns(save_session(rows, i, s).rows, Found(alice))
            ELSE save_session(rows, i, s)
      BY <1>1, <1>4, Outcomes DEF Login
    <2>3. Validate(i) = Returns(rows, Absent)
      <3>1. find_session(rows, i).out = Absent /\ Absent.tag # "some"
        BY <1>5, <1>7, Outcomes
      <3> QED BY <3>1 DEF Validate
    <2> QED BY <2>1, <2>2, <2>3, Outcomes
  <1>8. ASSUME rows[i] = s
        PROVE  Validate(i) = Returns(Put(rows, i, Extended(s, Later, Now)), Found(alice))
    <2>1. find_session(rows, i).out = Found(s)
      BY <1>3, <1>5, <1>8
    <2>2. touch_session_if_present(rows, i, Later, Now)
            = Returns(Put(rows, i, Extended(s, Later, Now)), Ok)
      BY <1>0, <1>3, <1>8, PlainTouch DEF Later, Now
    <2>3. Validate(i) =
            Returns(touch_session_if_present(rows, i, Later, Now).rows, Found(alice))
      BY <1>1, <1>2, <1>3, <2>1, Outcomes DEF Validate
    <2> QED BY <2>2, <2>3, Outcomes
  <1>9. ASSUME rows[i] # None, rows[i].user = 1
        PROVE  Logout(i) = Returns(Remove(rows, {i}), Ok)
    <2>1. find_session(rows, i).out = Found(rows[i])
      BY <1>5, <1>9
    <2>2. Logout(i) = delete_session(rows, i)
      BY <1>1, <1>9, <2>1, Outcomes DEF Logout
    <2> QED BY <2>2, DeleteExactly
  <1> QED BY <1>6, <1>7, <1>8, <1>9 DEF alice, s

\* The call each kind of line makes.
LEMMA Performs ==
  ASSUME NEW i, NEW a, NEW t, NEW v, NEW g
  PROVE  /\ Perform(Line("save", i, a, t, v, g)) = save_session(rows, i, a)
         /\ Perform(Line("find", i, a, t, v, g)) = find_session(rows, i)
         /\ Perform(Line("delete", i, a, t, v, g)) = delete_session(rows, i)
         /\ Perform(Line("delete_user", i, a, t, v, g)) = delete_user_sessions(rows, a)
         /\ Perform(Line("list", i, a, t, v, g)) = list_user_sessions(rows, a)
         /\ Perform(Line("touch", i, a, t, v, g)) =
              touch_session_if_present(rows, i, Extension, Later)
         /\ Perform(Line("find_by_id", i, a, t, v, g)) = Returns(rows, find_by_id(a))
         /\ Perform(Line("find_by_identifier", i, a, t, v, g)) =
              Returns(rows, find_by_identifier(a))
         /\ Perform(Line("login", i, a, t, v, g)) = Login(i, a[1], a[2])
         /\ Perform(Line("validate", i, a, t, v, g)) = Validate(i)
         /\ Perform(Line("logout", i, a, t, v, g)) = Logout(i)
  BY DEF Perform, Line

\* What a line asserts of a result without a value, ...
LEMMA Asserts ==
  ASSUME NEW op, NEW i, NEW a
  PROVE  /\ Accepts(Does(op, i, a), Ok)
         /\ Accepts(IsNone(op, i, a), Absent)
         /\ Accepts(Line(op, i, a, "invalid", "none", {}), Invalid)
  BY DEF Accepts, Shown, Line, Does, IsNone, Ok, Absent, Invalid

\* ... and of what a result holds.
LEMMA AssertsOf ==
  ASSUME NEW op, NEW i, NEW a, NEW x
  PROVE  /\ Accepts(IsSome(op, i, a), Found(x))
         /\ Accepts(Line(op, i, a, "some", "whole", {x}), Found(x))
         /\ Accepts(Line(op, i, a, "some", "times", {<<x.expires, x.active>>}), Found(x))
         /\ Accepts(Line(op, i, a, "some", "user", {<<x.id, x.email, x.auth>>}), Found(x))
         /\ Accepts(Line(op, i, a, "some", "known", {<<x.id, x.email>>}), Found(x))
  BY DEF Accepts, Shown, Line, IsSome, Found

\* ... and of a listing.
LEMMA AssertsList ==
  ASSUME NEW op, NEW i, NEW a, NEW xs
  PROVE  Accepts(Line(op, i, a, "list", "ids", {y[1] : y \in xs}), Listed(xs))
  BY DEF Accepts, Shown, Line, Listed

\* A line goes well if what it asserts holds, and it leaves the table `next'.
Goes(line, next) == Accepts(line, Perform(line).out) /\ Perform(line).rows = next

\* The call of a line and its assertion together.
LEMMA GoesBy ==
  ASSUME NEW line, NEW next, NEW out, Perform(line) = Returns(next, out), Accepts(line, out)
  PROVE  Goes(line, next)
  BY Outcomes DEF Goes

\* The sessions of the suites' two users, as saved and as touched.
LEMMA PlainSession ==
  \A u \in {User42, User99} :
    /\ u \in 0..3 /\ SessionFor(u) \in Plain /\ SessionFor(u).user = u /\ SessionFor(u) # None
    /\ Extended(SessionFor(u), Extension, Later) \in Plain
    /\ Extended(SessionFor(u), Extension, Later) # None
    /\ Extended(SessionFor(u), Extension, Later).user = u
    /\ Extended(SessionFor(u), Extension, Later).expires = Extension
    /\ Extended(SessionFor(u), Extension, Later).active = Later
  <1> SUFFICES ASSUME NEW u \in 0..3
       PROVE  /\ SessionFor(u) \in Plain /\ SessionFor(u).user = u /\ SessionFor(u) # None
    /\ Extended(SessionFor(u), Extension, Later) \in Plain
    /\ Extended(SessionFor(u), Extension, Later) # None
    /\ Extended(SessionFor(u), Extension, Later).user = u
    /\ Extended(SessionFor(u), Extension, Later).expires = Extension
    /\ Extended(SessionFor(u), Extension, Later).active = Later
    BY DEF User42, User99
  <1>1. SessionFor(u) \in Plain /\ SessionFor(u).user = u
    BY DEF SessionFor, Plain, Session, Now, Later
  <1> DEFINE s == SessionFor(u)
             x == Extended(s, Extension, Later)
  <1>2. /\ x \in Plain /\ x.user = s.user /\ x.expires = Extension /\ x.active = Later
    <2>1. s \in Session(0..3)
      BY <1>1 DEF Plain
    <2> HIDE DEF s
    <2>2. x.user = s.user /\ x.expires = Extension /\ x.active = Later
      BY <2>1 DEF Session, Extended
    <2>3. x \in Session(0..3)
      <3>1. Extension \in 0..3 /\ Later \in 0..3
        BY DEF Extension, Later
      <3> QED BY <2>1, <3>1 DEF Session, Extended
    <2> QED BY <2>2, <2>3 DEF Plain
  <1> HIDE DEF x, s
  <1>3. x # None /\ s # None
    BY <1>1, <1>2, PlainNumbers DEF s
  <1> QED BY <1>1, <1>2, <1>3 DEF x, s

\* The lines of the session suite, one by one.
LEMMA SessionLine ==
  ASSUME kind \in {"memory", "sqlx"}, kind = "sqlx" => {User42, User99} \subseteq UserIds(users),
         Table(rows), \A j \in SuiteIds : rows[j] # None => rows[j].user \in {User42, User99},
         NEW i \in SuiteIds, NEW u \in {User42, User99}
  PROVE  /\ rows[i] = None =>
              /\ Goes(Does("save", i, SessionFor(u)), Put(rows, i, SessionFor(u)))
              /\ Goes(IsNone("find", i, None), rows)
              /\ Goes(Does("touch", i, None), rows)
         /\ rows[i] # None =>
              /\ Goes(IsSome("find", i, None), rows)
              /\ Goes(Line("find", i, None, "some", "whole", {rows[i]}), rows)
              /\ Goes(Line("find", i, None, "some", "times",
                           {<<rows[i].expires, rows[i].active>>}), rows)
              /\ Goes(Does("touch", i, None), Put(rows, i, Extended(rows[i], Extension, Later)))
         /\ Goes(Does("delete", i, None), Remove(rows, {i}))
         /\ Goes(Does("delete_user", None, u), Remove(rows, IdsOf(rows, u)))
         /\ Goes(Line("list", None, u, "list", "ids", IdsOf(rows, u)), rows)
  <1>1. /\ kind \in Stores \ {"sqlite_demo"} /\ On(SuiteIds, rows)
        /\ rows[i] \in Plain \cup {None} /\ u \in 0..3 /\ SessionFor(u) \in Plain
        /\ SessionFor(u).user = u
    BY PlainSession DEF Stores, Table
  <1>2. ASSUME rows[i] = None
        PROVE Goes(Does("save", i, SessionFor(u)), Put(rows, i, SessionFor(u)))
    <2>1. save_session(rows, i, SessionFor(u)) = Returns(Put(rows, i, SessionFor(u)), Ok)
      BY <1>1, <1>2, PlainSave
    <2>2. Perform(Does("save", i, SessionFor(u))) = save_session(rows, i, SessionFor(u))
      BY Performs DEF Does
    <2> QED BY <2>1, <2>2, Asserts, GoesBy
  <1>3. find_session(rows, i) = Returns(rows, IF rows[i] = None THEN Absent ELSE Found(rows[i]))
    BY <1>1, PlainFind
  <1>4. rows[i] = None => Goes(IsNone("find", i, None), rows)
    <2>1. Perform(IsNone("find", i, None)) = find_session(rows, i)
      BY Performs DEF IsNone
    <2> QED BY <1>3, <2>1, Asserts, GoesBy
  <1>5. rows[i] # None =>
              /\ Goes(IsSome("find", i, None), rows)
              /\ Goes(Line("find", i, None, "some", "whole", {rows[i]}), rows)
              /\ Goes(Line("find", i, None, "some", "times",
                           {<<rows[i].expires, rows[i].active>>}), rows)
    <2> DEFINE whole == Line("find", i, None, "some", "whole", {rows[i]})
               times == Line("find", i, None, "some", "times", {<<rows[i].expires, rows[i].active>>})
    <2>1. /\ Perform(IsSome("find", i, None)) = find_session(rows, i)
          /\ Perform(whole) = find_session(rows, i) /\ Perform(times) = find_session(rows, i)
      BY Performs DEF IsSome
    <2>2. /\ Accepts(IsSome("find", i, None), Found(rows[i]))
          /\ Accepts(whole, Found(rows[i])) /\ Accepts(times, Found(rows[i]))
      BY AssertsOf
    <2> HIDE DEF whole, times
    <2>3. rows[i] # None =>
            /\ Goes(IsSome("find", i, None), rows) /\ Goes(whole, rows) /\ Goes(times, rows)
      BY <1>3, <2>1, <2>2, GoesBy
    <2> QED BY <2>3 DEF whole, times
  <1>6. Goes(Does("touch", i, None),
             IF rows[i] = None THEN rows ELSE Put(rows, i, Extended(rows[i], Extension, Later)))
    <2>1. touch_session_if_present(rows, i, Extension, Later) =
            Returns(IF rows[i] = None THEN rows
                    ELSE Put(rows, i, Extended(rows[i], Extension, Later)), Ok)
      <3>1. kind = "sqlx" /\ rows[i] # None => rows[i].user \in UserIds(users)
        OBVIOUS
      <3> QED BY <1>1, <3>1, PlainTouch DEF Extension, Later
    <2>2. Perform(Does("touch", i, None)) = touch_session_if_present(rows, i, Extension, Later)
      BY Performs DEF Does
    <2> QED BY <2>1, <2>2, Asserts, GoesBy
  <1>7. Goes(Does("delete", i, None), Remove(rows, {i}))
    <2>1. Perform(Does("delete", i, None)) = delete_session(rows, i)
      BY Performs DEF Does
    <2> QED BY <1>1, <2>1, PlainDelete, Asserts, GoesBy
  <1>8. Goes(Does("delete_user", None, u), Remove(rows, IdsOf(rows, u)))
    <2>1. Perform(Does("delete_user", None, u)) = delete_user_sessions(rows, u)
      BY Performs DEF Does
    <2>2. delete_user_sessions(rows, u) = Returns(Remove(rows, IdsOf(rows, u)), Ok)
      BY <1>1, PlainDelete
    <2> QED BY <2>1, <2>2, Asserts, GoesBy
  <1>9. Goes(Line("list", None, u, "list", "ids", IdsOf(rows, u)), rows)
    <2> DEFINE xs == {<<j, rows[j]>> : j \in IdsOf(rows, u)}
    <2>1. list_user_sessions(rows, u) = Returns(rows, Listed(xs))
      BY <1>1, PlainList
    <2>2. {x[1] : x \in xs} = IdsOf(rows, u)
      <3>1. \A j, y : <<j, y>>[1] = j
        OBVIOUS
      <3> DEFINE S == IdsOf(rows, u)
      <3>2. \A j \in S : <<j, rows[j]>> \in xs
        OBVIOUS
      <3>3. \A x \in xs : \E j \in S : x = <<j, rows[j]>>
        OBVIOUS
      <3> HIDE DEF xs, S
      <3>4. \A x \in xs : x[1] \in S
        BY <3>1, <3>3
      <3>5. \A j \in S : \E x \in xs : x[1] = j
        BY <3>1, <3>2
      <3> QED BY <3>4, <3>5 DEF S
    <2> HIDE DEF xs
    <2>3. Accepts(Line("list", None, u, "list", "ids", IdsOf(rows, u)), Listed(xs))
      BY <2>2, AssertsList
    <2> QED BY <2>1, <2>3, Performs, GoesBy
  <1> QED BY <1>2, <1>4, <1>5, <1>6, <1>7, <1>8, <1>9

-----------------------------------------------------------------------------
\* The lines of a suite that is put together of three parts.
LEMMA Joined ==
  ASSUME NEW X, NEW A \in Seq(X), NEW B \in Seq(X)
  PROVE  /\ A \o B \in Seq(X) /\ Len(A \o B) = Len(A) + Len(B)
         /\ \A n \in 1..Len(A) : (A \o B)[n] = A[n]
         /\ \A n \in 1..Len(B) : (A \o B)[Len(A) + n] = B[n]
  <1>1. A \o B \in Seq(X) /\ Len(A \o B) = Len(A) + Len(B)
    OBVIOUS
  <1>2. ASSUME NEW n \in 1..Len(A) PROVE (A \o B)[n] = A[n]
    OBVIOUS
  <1>3. ASSUME NEW n \in 1..Len(B) PROVE (A \o B)[Len(A) + n] = B[n]
    OBVIOUS
  <1> QED BY <1>1, <1>2, <1>3

\* ... and where the lines of each of three parts end up.
LEMMA JoinedThrice ==
  ASSUME NEW X, NEW A \in Seq(X), NEW B \in Seq(X), NEW C \in Seq(X)
  PROVE  LET S == A \o B \o C IN
         /\ Len(S) = Len(A) + Len(B) + Len(C)
         /\ \A n \in 1..Len(A) : S[n] = A[n]
         /\ \A n \in 1..Len(B) : S[Len(A) + n] = B[n]
         /\ \A n \in 1..Len(C) : S[Len(A) + Len(B) + n] = C[n]
  <1> DEFINE D == A \o B
             S == D \o C
  <1>1. /\ D \in Seq(X) /\ Len(D) = Len(A) + Len(B)
        /\ \A n \in 1..Len(A) : D[n] = A[n]
        /\ \A n \in 1..Len(B) : D[Len(A) + n] = B[n]
    BY Joined
  <1>2. Len(A) \in Nat /\ Len(B) \in Nat /\ Len(C) \in Nat
    OBVIOUS
  <1>3. D \in Seq(X)
    BY <1>1
  <1> HIDE DEF D
  <1>4. /\ Len(S) = Len(D) + Len(C)
        /\ \A n \in 1..Len(D) : S[n] = D[n]
        /\ \A n \in 1..Len(C) : S[Len(D) + n] = C[n]
    BY <1>3, Joined
  <1> HIDE DEF S
  <1>5. \A n \in 1..Len(A) : S[n] = A[n]
    BY <1>1, <1>2, <1>4
  <1>6. \A n \in 1..Len(B) : S[Len(A) + n] = B[n]
    BY <1>1, <1>2, <1>4
  <1>7. \A n \in 1..Len(C) : S[Len(A) + Len(B) + n] = C[n]
    BY <1>1, <1>2, <1>4
  <1> QED BY <1>1, <1>4, <1>5, <1>6, <1>7 DEF S, D

\* Which line of which part each line of the session suite is.
LEMMA SessionSuiteLines ==
  LET S == Lines("sessions_meant") IN
  /\ Len(S) = 21
  /\ \A n \in 1..12 : S[n] = StoresAndDeletes[n]
  /\ S[13] = ListsOnlyTarget[1]
  /\ S[14] = TouchesIfPresent[1] /\ S[15] = TouchesIfPresent[2] /\ S[16] = TouchesIfPresent[3]
  /\ S[17] = TouchesIfPresent[4] /\ S[18] = TouchesIfPresent[5] /\ S[19] = TouchesIfPresent[6]
  /\ S[20] = TouchesIfPresent[7] /\ S[21] = TouchesIfPresent[8]
  <1> DEFINE A == StoresAndDeletes
             B == ListsOnlyTarget
             C == TouchesIfPresent
             X == {A[n] : n \in 1..12} \cup {B[1]} \cup {C[n] : n \in 1..8}
             S == A \o B \o C
  <1>1. A \in Seq(X)
    BY DEF StoresAndDeletes
  <1>2. B \in Seq(X)
    BY DEF ListsOnlyTarget
  <1>3. C \in Seq(X)
    BY DEF TouchesIfPresent
  <1> HIDE DEF X
  <1>4. /\ Len(S) = Len(A) + Len(B) + Len(C)
        /\ \A n \in 1..Len(A) : S[n] = A[n]
        /\ \A n \in 1..Len(B) : S[Len(A) + n] = B[n]
        /\ \A n \in 1..Len(C) : S[Len(A) + Len(B) + n] = C[n]
    BY <1>1, <1>2, <1>3, JoinedThrice
  <1>5. S = Lines("sessions_meant")
    BY DEF Lines
  <1> HIDE DEF S
  <1>6. Len(A) = 12 /\ Len(B) = 1 /\ Len(C) = 8
    BY DEF StoresAndDeletes, ListsOnlyTarget, TouchesIfPresent
  <1> HIDE DEF A, B, C
  <1>7. Len(S) = 21 /\ \A n \in 1..12 : S[n] = A[n]
    BY <1>4, <1>6
  <1>8. S[13] = B[1]
    <2>1. S[12 + 1] = B[1]
      BY <1>4, <1>6
    <2> QED BY <2>1
  <1>9. \A n \in 1..8 : \A m : m = 13 + n => S[m] = C[n]
    BY <1>4, <1>6
  <1>10. /\ S[14] = C[1] /\ S[15] = C[2] /\ S[16] = C[3] /\ S[17] = C[4]
         /\ S[18] = C[5] /\ S[19] = C[6] /\ S[20] = C[7] /\ S[21] = C[8]
    BY <1>9
  <1> QED BY <1>5, <1>7, <1>8, <1>10 DEF A, B, C

\* What the table holds before each line of the session suite.
HeldBySessions(at) ==
  [i \in SuiteIds |->
     CASE i = "s1" /\ 1 < at /\ at < 5 -> SessionFor(User42)
       [] i = "s2" /\ 6 < at /\ at < 9 -> SessionFor(User42)
       [] i = "s3" /\ 7 < at -> SessionFor(User99)
       [] i = "s4" /\ 11 < at -> SessionFor(User42)
       [] i = "s5" /\ 12 < at -> SessionFor(User99)
       [] i = "touch" /\ at = 15 -> SessionFor(User42)
       [] i = "touch" /\ 15 < at /\ at < 20 -> Extended(SessionFor(User42), Extension, Later)
       [] OTHER -> None]

\* They are tables of such sessions.
LEMMA HeldTable ==
  ASSUME NEW n \in 1..22
  PROVE  LET held == HeldBySessions(n) IN
         /\ Table(held)
         /\ \A j \in SuiteIds : held[j] # None => held[j].user \in {User42, User99}
  <1> DEFINE held == HeldBySessions(n)
  <1>1. \A j \in SuiteIds :
          held[j] \in {None, SessionFor(User42), SessionFor(User99),
                       Extended(SessionFor(User42), Extension, Later)}
    BY DEF HeldBySessions
  <1>2. On(SuiteIds, held)
    BY DEF HeldBySessions, On
  <1> HIDE DEF held
  <1>3. \A j \in SuiteIds : held[j] \in Plain \cup {None}
    BY <1>1, PlainSession
  <1>4. \A j \in SuiteIds : held[j] # None => held[j].user \in {User42, User99}
    BY <1>1, PlainSession
  <1> QED BY <1>2, <1>3, <1>4 DEF Table, held

\* Each line of the session suite goes well with a store that answers Ok(None)
\* for a missing session and has the users whose sessions are saved.
LEMMA SessionSuiteGoes ==
  ASSUME kind \in {"memory", "sqlx"}, kind = "sqlx" => {User42, User99} \subseteq UserIds(users),
         NEW n \in 1..21, rows = HeldBySessions(n)
  PROVE  Goes(Lines("sessions_meant")[n], HeldBySessions(n + 1))
  <1> DEFINE S == Lines("sessions_meant")
             s42 == SessionFor(User42)
             s99 == SessionFor(User99)
             ext == Extended(s42, Extension, Later)
  <1>1. /\ Table(rows) /\ On(SuiteIds, rows)
        /\ \A j \in SuiteIds : rows[j] # None => rows[j].user \in {User42, User99}
    BY HeldTable DEF Table
  <1>2. /\ s42 # None /\ s99 # None /\ ext # None /\ s42.user = User42 /\ s99.user = User99
        /\ ext.user = User42 /\ ext.expires = Extension /\ ext.active = Later
        /\ User42 # User99
    BY PlainSession DEF User42, User99
  <1>3. /\ \A m \in 1..12 : S[m] = StoresAndDeletes[m]
        /\ S[13] = ListsOnlyTarget[1]
        /\ S[14] = TouchesIfPresent[1] /\ S[15] = TouchesIfPresent[2]
        /\ S[16] = TouchesIfPresent[3] /\ S[17] = TouchesIfPresent[4]
        /\ S[18] = TouchesIfPresent[5] /\ S[19] = TouchesIfPresent[6]
        /\ S[20] = TouchesIfPresent[7] /\ S[21] = TouchesIfPresent[8]
    BY SessionSuiteLines
  <1> HIDE DEF S, s42, s99, ext
  <1>4. CASE n = 1
    <2>1. S[1] = Does("save", "s1", s42)
      BY <1>3 DEF StoresAndDeletes, s42
    <2>2. rows["s1"] = None
      BY <1>4 DEF HeldBySessions, SuiteIds, s42, s99, ext
    <2>3. HeldBySessions(2) = Put(rows, "s1", s42)
      BY <1>4 DEF HeldBySessions, SuiteIds, s42, s99, ext, Put
    <2>4. Goes(Does("save", "s1", s42), Put(rows, "s1", s42))
      BY <1>1, <1>2, <2>2, SessionLine DEF SuiteIds, s42
    <2> QED BY <1>4, <2>1, <2>3, <2>4 DEF S
  <1>5. CASE n = 2
    <2>1. S[2] = Line("find", "s1", None, "some", "whole", {s42})
      BY <1>3 DEF StoresAndDeletes, s42
    <2>2. rows["s1"] = s42
      BY <1>5 DEF HeldBySessions, SuiteIds, s42, s99, ext
    <2>3. HeldBySessions(3) = rows
      BY <1>5 DEF HeldBySessions, SuiteIds, s42, s99, ext
    <2>4. Goes(Line("find", "s1", None, "some", "whole", {s42}), rows)
      BY <1>1, <1>2, <2>2, SessionLine DEF SuiteIds, s42
    <2> QED BY <1>5, <2>1, <2>3, <2>4 DEF S
  <1>6. CASE n = 3
    <2>1. S[3] = IsNone("find", "unknown", None)
      BY <1>3 DEF StoresAndDeletes
    <2>2. rows["unknown"] = None
      BY <1>6 DEF HeldBySessions, SuiteIds, s42, s99, ext
    <2>3. HeldBySessions(4) = rows
      BY <1>6 DEF HeldBySessions, SuiteIds, s42, s99, ext
    <2>4. Goes(IsNone("find", "unknown", None), rows)
      BY <1>1, <1>2, <2>2, SessionLine DEF SuiteIds
    <2> QED BY <1>6, <2>1, <2>3, <2>4 DEF S
  <1>7. CASE n = 4
    <2>1. S[4] = Does("delete", "s1", None)
      BY <1>3 DEF StoresAndDeletes
    <2>3. HeldBySessions(5) = Remove(rows, {"s1"})
      BY <1>7 DEF HeldBySessions, SuiteIds, s42, s99, ext, Remove
    <2>4. Goes(Does("delete", "s1", None), Remove(rows, {"s1"}))
      BY <1>1, <1>2, SessionLine DEF SuiteIds
    <2> QED BY <1>7, <2>1, <2>3, <2>4 DEF S
  <1>8. CASE n = 5
    <2>1. S[5] = IsNone("find", "s1", None)
      BY <1>3 DEF StoresAndDeletes
    <2>2. rows["s1"] = None
      BY <1>8 DEF HeldBySessions, SuiteIds, s42, s99, ext
    <2>3. HeldBySessions(6) = rows
      BY <1>8 DEF HeldBySessions, SuiteIds, s42, s99, ext
    <2>4. Goes(IsNone("find", "s1", None), rows)
      BY <1>1, <1>2, <2>2, SessionLine DEF SuiteIds
    <2> QED BY <1>8, <2>1, <2>3, <2>4 DEF S
  <1>9. CASE n = 6
    <2>1. S[6] = Does("save", "s2", s42)
      BY <1>3 DEF StoresAndDeletes, s42
    <2>2. rows["s2"] = None
      BY <1>9 DEF HeldBySessions, SuiteIds, s42, s99, ext
    <2>3. HeldBySessions(7) = Put(rows, "s2", s42)
      BY <1>9 DEF HeldBySessions, SuiteIds, s42, s99, ext, Put
    <2>4. Goes(Does("save", "s2", s42), Put(rows, "s2", s42))
      BY <1>1, <1>2, <2>2, SessionLine DEF SuiteIds, s42
    <2> QED BY <1>9, <2>1, <2>3, <2>4 DEF S
  <1>10. CASE n = 7
    <2>1. S[7] = Does("save", "s3", s99)
      BY <1>3 DEF StoresAndDeletes, s99
    <2>2. rows["s3"] = None
      BY <1>10 DEF HeldBySessions, SuiteIds, s42, s99, ext
    <2>3. HeldBySessions(8) = Put(rows, "s3", s99)
      BY <1>10 DEF HeldBySessions, SuiteIds, s42, s99, ext, Put
    <2>4. Goes(Does("save", "s3", s99), Put(rows, "s3", s99))
      BY <1>1, <1>2, <2>2, SessionLine DEF SuiteIds, s99
    <2> QED BY <1>10, <2>1, <2>3, <2>4 DEF S
  <1>11. CASE n = 8
    <2>1. S[8] = Does("delete_user", None, User42)
      BY <1>3 DEF StoresAndDeletes
    <2>2. IdsOf(rows, User42) = {"s2"}
      BY <1>2, <1>11 DEF IdsOf, HeldBySessions, SuiteIds, s42, s99, ext
    <2>3. HeldBySessions(9) = Remove(rows, {"s2"})
      BY <1>11 DEF HeldBySessions, SuiteIds, s42, s99, ext, Remove
    <2>4. Goes(Does("delete_user", None, User42), Remove(rows, {"s2"}))
      BY <1>1, <1>2, <2>2, SessionLine DEF SuiteIds
    <2> QED BY <1>11, <2>1, <2>3, <2>4 DEF S
  <1>12. CASE n = 9
    <2>1. S[9] = IsNone("find", "s2", None)
      BY <1>3 DEF StoresAndDeletes
    <2>2. rows["s2"] = None
      BY <1>12 DEF HeldBySessions, SuiteIds, s42, s99, ext
    <2>3. HeldBySessions(10) = rows
      BY <1>12 DEF HeldBySessions, SuiteIds, s42, s99, ext
    <2>4. Goes(IsNone("find", "s2", None), rows)
      BY <1>1, <1>2, <2>2, SessionLine DEF SuiteIds
    <2> QED BY <1>12, <2>1, <2>3, <2>4 DEF S
  <1>13. CASE n = 10
    <2>1. S[10] = IsSome("find", "s3", None)
      BY <1>3 DEF StoresAndDeletes
    <2>2. rows["s3"] = s99
      BY <1>13 DEF HeldBySessions, SuiteIds, s42, s99, ext
    <2>3. HeldBySessions(11) = rows
      BY <1>13 DEF HeldBySessions, SuiteIds, s42, s99, ext
    <2>4. Goes(IsSome("find", "s3", None), rows)
      BY <1>1, <1>2, <2>2, SessionLine DEF SuiteIds
    <2> QED BY <1>13, <2>1, <2>3, <2>4 DEF S
  <1>14. CASE n = 11
    <2>1. S[11] = Does("save", "s4", s42)
      BY <1>3 DEF StoresAndDeletes, s42
    <2>2. rows["s4"] = None
      BY <1>14 DEF HeldBySessions, SuiteIds, s42, s99, ext
    <2>3. HeldBySessions(12) = Put(rows, "s4", s42)
      BY <1>14 DEF HeldBySessions, SuiteIds, s42, s99, ext, Put
    <2>4. Goes(Does("save", "s4", s42), Put(rows, "s4", s42))
      BY <1>1, <1>2, <2>2, SessionLine DEF SuiteIds, s42
    <2> QED BY <1>14, <2>1, <2>3, <2>4 DEF S
  <1>15. CASE n = 12
    <2>1. S[12] = Does("save", "s5", s99)
      BY <1>3 DEF StoresAndDeletes, s99
    <2>2. rows["s5"] = None
      BY <1>15 DEF HeldBySessions, SuiteIds, s42, s99, ext
    <2>3. HeldBySessions(13) = Put(rows, "s5", s99)
      BY <1>15 DEF HeldBySessions, SuiteIds, s42, s99, ext, Put
    <2>4. Goes(Does("save", "s5", s99), Put(rows, "s5", s99))
      BY <1>1, <1>2, <2>2, SessionLine DEF SuiteIds, s99
    <2> QED BY <1>15, <2>1, <2>3, <2>4 DEF S
  <1>16. CASE n = 13
    <2>1. S[13] = Line("list", None, User42, "list", "ids", {"s4"})
      BY <1>3 DEF ListsOnlyTarget
    <2>2. IdsOf(rows, User42) = {"s4"}
      BY <1>2, <1>16 DEF IdsOf, HeldBySessions, SuiteIds, s42, s99, ext
    <2>3. HeldBySessions(14) = rows
      BY <1>16 DEF HeldBySessions, SuiteIds, s42, s99, ext
    <2>4. Goes(Line("list", None, User42, "list", "ids", {"s4"}), rows)
      BY <1>1, <1>2, <2>2, SessionLine DEF SuiteIds
    <2> QED BY <1>16, <2>1, <2>3, <2>4 DEF S
  <1>17. CASE n = 14
    <2>1. S[14] = Does("save", "touch", s42)
      BY <1>3 DEF TouchesIfPresent, s42
    <2>2. rows["touch"] = None
      BY <1>17 DEF HeldBySessions, SuiteIds, s42, s99, ext
    <2>3. HeldBySessions(15) = Put(rows, "touch", s42)
      BY <1>17 DEF HeldBySessions, SuiteIds, s42, s99, ext, Put
    <2>4. Goes(Does("save", "touch", s42), Put(rows, "touch", s42))
      BY <1>1, <1>2, <2>2, SessionLine DEF SuiteIds, s42
    <2> QED BY <1>17, <2>1, <2>3, <2>4 DEF S
  <1>18. CASE n = 15
    <2>1. S[15] = Does("touch", "touch", None)
      BY <1>3 DEF TouchesIfPresent
    <2>2. rows["touch"] = s42
      BY <1>18 DEF HeldBySessions, SuiteIds, s42, s99, ext
    <2>3. HeldBySessions(16) = Put(rows, "touch", ext)
      BY <1>18 DEF HeldBySessions, SuiteIds, s42, s99, ext, Put
    <2>4. Goes(Does("touch", "touch", None), Put(rows, "touch", ext))
      BY <1>1, <1>2, <2>2, SessionLine DEF SuiteIds, s42, ext
    <2> QED BY <1>18, <2>1, <2>3, <2>4 DEF S
  <1>19. CASE n = 16
    <2>1. S[16] = Line("find", "touch", None, "some", "times", {<<Extension, Later>>})
      BY <1>3 DEF TouchesIfPresent
    <2>2. rows["touch"] = ext
      BY <1>19 DEF HeldBySessions, SuiteIds, s42, s99, ext
    <2>3. HeldBySessions(17) = rows
      BY <1>19 DEF HeldBySessions, SuiteIds, s42, s99, ext
    <2>4. Goes(Line("find", "touch", None, "some", "times", {<<Extension, Later>>}), rows)
      BY <1>1, <1>2, <2>2, SessionLine DEF SuiteIds
    <2> QED BY <1>19, <2>1, <2>3, <2>4 DEF S
  <1>20. CASE n = 17
    <2>1. S[17] = Does("touch", "ghost", None)
      BY <1>3 DEF TouchesIfPresent
    <2>2. rows["ghost"] = None
      BY <1>20 DEF HeldBySessions, SuiteIds, s42, s99, ext
    <2>3. HeldBySessions(18) = rows
      BY <1>20 DEF HeldBySessions, SuiteIds, s42, s99, ext
    <2>4. Goes(Does("touch", "ghost", None), rows)
      BY <1>1, <1>2, <2>2, SessionLine DEF SuiteIds
    <2> QED BY <1>20, <2>1, <2>3, <2>4 DEF S
  <1>21. CASE n = 18
    <2>1. S[18] = IsNone("find", "ghost", None)
      BY <1>3 DEF TouchesIfPresent
    <2>2. rows["ghost"] = None
      BY <1>21 DEF HeldBySessions, SuiteIds, s42, s99, ext
    <2>3. HeldBySessions(19) = rows
      BY <1>21 DEF HeldBySessions, SuiteIds, s42, s99, ext
    <2>4. Goes(IsNone("find", "ghost", None), rows)
      BY <1>1, <1>2, <2>2, SessionLine DEF SuiteIds
    <2> QED BY <1>21, <2>1, <2>3, <2>4 DEF S
  <1>22. CASE n = 19
    <2>1. S[19] = Does("delete", "touch", None)
      BY <1>3 DEF TouchesIfPresent
    <2>3. HeldBySessions(20) = Remove(rows, {"touch"})
      BY <1>22 DEF HeldBySessions, SuiteIds, s42, s99, ext, Remove
    <2>4. Goes(Does("delete", "touch", None), Remove(rows, {"touch"}))
      BY <1>1, <1>2, SessionLine DEF SuiteIds
    <2> QED BY <1>22, <2>1, <2>3, <2>4 DEF S
  <1>23. CASE n = 20
    <2>1. S[20] = Does("touch", "touch", None)
      BY <1>3 DEF TouchesIfPresent
    <2>2. rows["touch"] = None
      BY <1>23 DEF HeldBySessions, SuiteIds, s42, s99, ext
    <2>3. HeldBySessions(21) = rows
      BY <1>23 DEF HeldBySessions, SuiteIds, s42, s99, ext
    <2>4. Goes(Does("touch", "touch", None), rows)
      BY <1>1, <1>2, <2>2, SessionLine DEF SuiteIds
    <2> QED BY <1>23, <2>1, <2>3, <2>4 DEF S
  <1>24. CASE n = 21
    <2>1. S[21] = IsNone("find", "touch", None)
      BY <1>3 DEF TouchesIfPresent
    <2>2. rows["touch"] = None
      BY <1>24 DEF HeldBySessions, SuiteIds, s42, s99, ext
    <2>3. HeldBySessions(22) = rows
      BY <1>24 DEF HeldBySessions, SuiteIds, s42, s99, ext
    <2>4. Goes(IsNone("find", "touch", None), rows)
      BY <1>1, <1>2, <2>2, SessionLine DEF SuiteIds
    <2> QED BY <1>24, <2>1, <2>3, <2>4 DEF S
  <1> QED BY <1>4, <1>5, <1>6, <1>7, <1>8, <1>9, <1>10, <1>11, <1>12, <1>13, <1>14, <1>15,
             <1>16, <1>17, <1>18, <1>19, <1>20, <1>21, <1>22, <1>23, <1>24

\* What the table holds before each line of a suite over the engine, whose login
\* is line `first': the session, extended by the validation that follows.
HeldByLogin(auth, first, at) ==
  [i \in SuiteIds |->
     CASE i = "s1" /\ at = first + 1 -> LoginSession(auth)
       [] i = "s1" /\ first + 1 < at /\ at < 5 -> Extended(LoginSession(auth), Later, Now)
       [] OTHER -> None]

\* They are tables of such sessions, of the seeded user.
LEMMA HeldByLoginTable ==
  ASSUME NEW auth \in SeedHashes, NEW first \in {1, 2}, NEW n \in 1..6
  PROVE  LET s == LoginSession(auth)
             ext == Extended(s, Later, Now)
         IN /\ Table(HeldByLogin(auth, first, n))
            /\ s # None /\ s.user = 1 /\ ext # None /\ ext.user = 1
  <1> DEFINE held == HeldByLogin(auth, first, n)
             s == LoginSession(auth)
             ext == Extended(s, Later, Now)
  <1>1. s \in Session(0..3) /\ s.user = 1
    BY DEF LoginSession, Session, Now, Later
  <1>2. \A j \in SuiteIds : held[j] \in {None, s, ext}
    BY DEF HeldByLogin
  <1>3. On(SuiteIds, held)
    BY DEF HeldByLogin, On
  <1> HIDE DEF held, s
  <1>4. ext \in Session(0..3) /\ ext.user = s.user
    <2>1. Now \in 0..3 /\ Later \in 0..3
      BY DEF Now, Later
    <2> QED BY <1>1, <2>1 DEF Session, Extended
  <1> HIDE DEF ext
  <1>5. s # None /\ ext # None /\ \A j \in SuiteIds : held[j] \in Plain \cup {None}
    BY <1>1, <1>2, <1>4, PlainNumbers DEF Plain
  <1> QED BY <1>1, <1>3, <1>4, <1>5 DEF Table, held, s, ext

\* The lines of a suite over the engine, one by one.
LEMMA EngineLine ==
  ASSUME kind \in Conditional, NEW auth \in SeedHashes, Seeding(auth), Table(rows)
  PROVE  LET known == {<<1, Alice>>}
             s == LoginSession(auth)
         IN /\ Goes(Line("login", "s2", <<Alice, "wrong">>, "invalid", "none", {}), rows)
            /\ rows["s1"] = None =>
                 /\ Goes(Line("login", "s1", <<Alice, Correct>>, "some", "known", known),
                         Put(rows, "s1", s))
                 /\ Goes(IsNone("validate", "s1", None), rows)
            /\ rows["s1"] = s =>
                 Goes(Line("validate", "s1", None, "some", "known", known),
                      Put(rows, "s1", Extended(s, Later, Now)))
            /\ rows["s1"] # None /\ rows["s1"].user = 1 =>
                 Goes(Does("logout", "s1", None), Remove(rows, {"s1"}))
  <1> DEFINE alice == Seeded(1, Alice, auth)
             s == LoginSession(auth)
             wrong == Line("login", "s2", <<Alice, "wrong">>, "invalid", "none", {})
             right == Line("login", "s1", <<Alice, Correct>>, "some", "known", {<<1, Alice>>})
             valid == Line("validate", "s1", None, "some", "known", {<<1, Alice>>})
  <1>1. /\ Login("s2", Alice, "wrong") = Returns(rows, Invalid)
        /\ rows["s1"] = None =>
             /\ Login("s1", Alice, Correct) = Returns(Put(rows, "s1", s), Found(alice))
             /\ Validate("s1") = Returns(rows, Absent)
        /\ rows["s1"] = s =>
             Validate("s1") = Returns(Put(rows, "s1", Extended(s, Later, Now)), Found(alice))
        /\ rows["s1"] # None /\ rows["s1"].user = 1 =>
             Logout("s1") = Returns(Remove(rows, {"s1"}), Ok)
    BY EngineCalls DEF SuiteIds
  <1>2. /\ Perform(wrong) = Login("s2", Alice, "wrong")
        /\ Perform(right) = Login("s1", Alice, Correct)
        /\ Perform(valid) = Validate("s1")
        /\ Perform(IsNone("validate", "s1", None)) = Validate("s1")
        /\ Perform(Does("logout", "s1", None)) = Logout("s1")
    BY Performs DEF IsNone, Does
  <1>3. alice.id = 1 /\ alice.email = Alice
    BY DEF Seeded
  <1>4. Accepts(right, Found(alice)) /\ Accepts(valid, Found(alice))
    BY <1>3, AssertsOf
  <1>5. /\ Accepts(wrong, Invalid) /\ Accepts(IsNone("validate", "s1", None), Absent)
        /\ Accepts(Does("logout", "s1", None), Ok)
    BY Asserts
  <1> HIDE DEF alice, s, wrong, right, valid
  <1>6. Goes(wrong, rows)
    BY <1>1, <1>2, <1>5, GoesBy
  <1>7. rows["s1"] = None =>
          Goes(right, Put(rows, "s1", s)) /\ Goes(IsNone("validate", "s1", None), rows)
    BY <1>1, <1>2, <1>4, <1>5, GoesBy
  <1>8. rows["s1"] = s => Goes(valid, Put(rows, "s1", Extended(s, Later, Now)))
    BY <1>1, <1>2, <1>4, GoesBy
  <1>9. rows["s1"] # None /\ rows["s1"].user = 1 =>
          Goes(Does("logout", "s1", None), Remove(rows, {"s1"}))
    BY <1>1, <1>2, <1>5, GoesBy
  <1> QED BY <1>6, <1>7, <1>8, <1>9 DEF s, wrong, right, valid

\* Each line of the engine lifecycle suite goes well.
LEMMA EngineSuiteGoes ==
  ASSUME kind \in Conditional, NEW auth \in SeedHashes, Seeding(auth),
         NEW n \in 1..5, rows = HeldByLogin(auth, 1, n)
  PROVE  Goes(run_engine_lifecycle_tests[n], HeldByLogin(auth, 1, n + 1))
  <1> DEFINE s == LoginSession(auth)
             ext == Extended(s, Later, Now)
             wrong == Line("login", "s2", <<Alice, "wrong">>, "invalid", "none", {})
             right == Line("login", "s1", <<Alice, Correct>>, "some", "known", {<<1, Alice>>})
             valid == Line("validate", "s1", None, "some", "known", {<<1, Alice>>})
             out == Does("logout", "s1", None)
             gone == IsNone("validate", "s1", None)
  <1>1. /\ Table(rows)
        /\ s # None /\ s.user = 1 /\ ext # None /\ ext.user = 1
    BY HeldByLoginTable
  <1>2. /\ Goes(wrong, rows)
        /\ rows["s1"] = None => Goes(right, Put(rows, "s1", s)) /\ Goes(gone, rows)
        /\ rows["s1"] = s => Goes(valid, Put(rows, "s1", ext))
        /\ rows["s1"] # None /\ rows["s1"].user = 1 => Goes(out, Remove(rows, {"s1"}))
    BY <1>1, EngineLine
  <1>3. run_engine_lifecycle_tests = <<right, valid, wrong, out, gone>>
    BY DEF run_engine_lifecycle_tests
  <1> HIDE DEF s, ext, wrong, right, valid, out, gone
  <1>4. CASE n = 1
    <2>1. rows["s1"] = None
      BY <1>4 DEF HeldByLogin, SuiteIds, s, ext
    <2>2. HeldByLogin(auth, 1, 2) = Put(rows, "s1", s)
      BY <1>4 DEF HeldByLogin, SuiteIds, s, ext, Put
    <2> QED BY <1>1, <1>2, <1>3, <1>4, <2>1, <2>2
  <1>5. CASE n = 2
    <2>1. rows["s1"] = s
      BY <1>5 DEF HeldByLogin, SuiteIds, s, ext
    <2>2. HeldByLogin(auth, 1, 3) = Put(rows, "s1", ext)
      BY <1>5 DEF HeldByLogin, SuiteIds, s, ext, Put
    <2> QED BY <1>1, <1>2, <1>3, <1>5, <2>1, <2>2
  <1>6. CASE n = 3
    <2>2. HeldByLogin(auth, 1, 4) = rows
      BY <1>6 DEF HeldByLogin, SuiteIds, s, ext
    <2> QED BY <1>1, <1>2, <1>3, <1>6, <2>2
  <1>7. CASE n = 4
    <2>1. rows["s1"] = ext
      BY <1>7 DEF HeldByLogin, SuiteIds, s, ext
    <2>2. HeldByLogin(auth, 1, 5) = Remove(rows, {"s1"})
      BY <1>7 DEF HeldByLogin, SuiteIds, s, ext, Remove
    <2> QED BY <1>1, <1>2, <1>3, <1>7, <2>1, <2>2
  <1>8. CASE n = 5
    <2>1. rows["s1"] = None
      BY <1>8 DEF HeldByLogin, SuiteIds, s, ext
    <2>2. HeldByLogin(auth, 1, 6) = rows
      BY <1>8 DEF HeldByLogin, SuiteIds, s, ext
    <2> QED BY <1>1, <1>2, <1>3, <1>8, <2>1, <2>2
  <1> QED BY <1>4, <1>5, <1>6, <1>7, <1>8

\* So does each line of the main of sqlite_adapter.
LEMMA AdapterMainGoes ==
  ASSUME kind \in Conditional, NEW auth \in SeedHashes, Seeding(auth),
         NEW n \in 1..5, rows = HeldByLogin(auth, 2, n)
  PROVE  Goes(adapter_main[n], HeldByLogin(auth, 2, n + 1))
  <1> DEFINE s == LoginSession(auth)
             ext == Extended(s, Later, Now)
             wrong == Line("login", "s2", <<Alice, "wrong">>, "invalid", "none", {})
             right == Line("login", "s1", <<Alice, Correct>>, "some", "known", {<<1, Alice>>})
             valid == Line("validate", "s1", None, "some", "known", {<<1, Alice>>})
             out == Does("logout", "s1", None)
             gone == IsNone("validate", "s1", None)
  <1>1. /\ Table(rows)
        /\ s # None /\ s.user = 1 /\ ext # None /\ ext.user = 1
    BY HeldByLoginTable
  <1>2. /\ Goes(wrong, rows)
        /\ rows["s1"] = None => Goes(right, Put(rows, "s1", s)) /\ Goes(gone, rows)
        /\ rows["s1"] = s => Goes(valid, Put(rows, "s1", ext))
        /\ rows["s1"] # None /\ rows["s1"].user = 1 => Goes(out, Remove(rows, {"s1"}))
    BY <1>1, EngineLine
  <1>3. adapter_main = <<wrong, right, valid, out, gone>>
    BY DEF adapter_main
  <1> HIDE DEF s, ext, wrong, right, valid, out, gone
  <1>4. CASE n = 1
    <2>2. HeldByLogin(auth, 2, 2) = rows
      BY <1>4 DEF HeldByLogin, SuiteIds, s, ext
    <2> QED BY <1>1, <1>2, <1>3, <1>4, <2>2
  <1>5. CASE n = 2
    <2>1. rows["s1"] = None
      BY <1>5 DEF HeldByLogin, SuiteIds, s, ext
    <2>2. HeldByLogin(auth, 2, 3) = Put(rows, "s1", s)
      BY <1>5 DEF HeldByLogin, SuiteIds, s, ext, Put
    <2> QED BY <1>1, <1>2, <1>3, <1>5, <2>1, <2>2
  <1>6. CASE n = 3
    <2>1. rows["s1"] = s
      BY <1>6 DEF HeldByLogin, SuiteIds, s, ext
    <2>2. HeldByLogin(auth, 2, 4) = Put(rows, "s1", ext)
      BY <1>6 DEF HeldByLogin, SuiteIds, s, ext, Put
    <2> QED BY <1>1, <1>2, <1>3, <1>6, <2>1, <2>2
  <1>7. CASE n = 4
    <2>1. rows["s1"] = ext
      BY <1>7 DEF HeldByLogin, SuiteIds, s, ext
    <2>2. HeldByLogin(auth, 2, 5) = Remove(rows, {"s1"})
      BY <1>7 DEF HeldByLogin, SuiteIds, s, ext, Remove
    <2> QED BY <1>1, <1>2, <1>3, <1>7, <2>1, <2>2
  <1>8. CASE n = 5
    <2>1. rows["s1"] = None
      BY <1>8 DEF HeldByLogin, SuiteIds, s, ext
    <2>2. HeldByLogin(auth, 2, 6) = rows
      BY <1>8 DEF HeldByLogin, SuiteIds, s, ext
    <2> QED BY <1>1, <1>2, <1>3, <1>8, <2>1, <2>2
  <1> QED BY <1>4, <1>5, <1>6, <1>7, <1>8

\* The two suites that only look users up.
LEMMA UserSuitesGo ==
  ASSUME kind = "memory", NEW auth, Seeding(auth), NEW n \in 1..2
  PROVE  /\ Goes(run_password_user_store_tests[n], rows)
         /\ auth = "" => Goes(run_user_store_tests[n], rows)
  <1> DEFINE alice == Seeded(1, Alice, auth)
             byId == Line("find_by_id", None, 1, "some", "user", {<<1, Alice, "">>})
             byName == Line("find_by_identifier", None, Alice, "some", "known", {<<1, Alice>>})
             noId == IsNone("find_by_id", None, Unknown)
             noName == IsNone("find_by_identifier", None, "nobody")
  <1>1. /\ find_by_id(1) = Found(alice) /\ find_by_id(Unknown) = Absent
        /\ find_by_identifier(Alice) = Found(alice) /\ find_by_identifier("nobody") = Absent
    BY SeededUser DEF Conditional
  <1>2. /\ Perform(byId) = Returns(rows, find_by_id(1))
        /\ Perform(noId) = Returns(rows, find_by_id(Unknown))
        /\ Perform(byName) = Returns(rows, find_by_identifier(Alice))
        /\ Perform(noName) = Returns(rows, find_by_identifier("nobody"))
    <2>1. /\ byId.op = "find_by_id" /\ byId.arg = 1
          /\ byName.op = "find_by_identifier" /\ byName.arg = Alice
          /\ noId.op = "find_by_id" /\ noId.arg = Unknown
          /\ noName.op = "find_by_identifier" /\ noName.arg = "nobody"
      BY DEF Line, IsNone
    <2> HIDE DEF byId, byName, noId, noName
    <2>2. Perform(byId) = Returns(rows, find_by_id(1))
      BY <2>1 DEF Perform
    <2>3. Perform(noId) = Returns(rows, find_by_id(Unknown))
      BY <2>1 DEF Perform
    <2>4. Perform(byName) = Returns(rows, find_by_identifier(Alice))
      BY <2>1 DEF Perform
    <2>5. Perform(noName) = Returns(rows, find_by_identifier("nobody"))
      BY <2>1 DEF Perform
    <2> QED BY <2>2, <2>3, <2>4, <2>5
  <1>3. alice.id = 1 /\ alice.email = Alice /\ alice.auth = auth
    BY DEF Seeded
  <1>4. Accepts(byName, Found(alice)) /\ (auth = "" => Accepts(byId, Found(alice)))
    BY <1>3, AssertsOf
  <1>5. Accepts(noId, Absent) /\ Accepts(noName, Absent)
    BY Asserts
  <1>6. /\ run_user_store_tests = <<byId, noId>>
        /\ run_password_user_store_tests = <<byName, noName>>
    BY DEF run_user_store_tests, run_password_user_store_tests
  <1> HIDE DEF alice, byId, byName, noId, noName
  <1>7. Goes(byName, rows) /\ (auth = "" => Goes(byId, rows))
    BY <1>1, <1>2, <1>4, GoesBy
  <1>8. Goes(noId, rows) /\ Goes(noName, rows)
    BY <1>1, <1>2, <1>5, GoesBy
  <1>9. CASE n = 1
    <2>1. run_password_user_store_tests[1] = byName /\ run_user_store_tests[1] = byId
      BY <1>6
    <2> QED BY <1>7, <1>9, <2>1
  <1>10. CASE n = 2
    <2>1. run_password_user_store_tests[2] = noName /\ run_user_store_tests[2] = noId
      BY <1>6
    <2> QED BY <1>8, <1>10, <2>1
  <1>11. n = 1 \/ n = 2
    BY ONLY n \in 1..2
  <1> QED BY <1>9, <1>10, <1>11

-----------------------------------------------------------------------------
\* Why a suite may fail all the same: the store answers an error for a missing
\* session, the listing is asserted as written, or the seeding does not fit.
Excused ==
  \/ kind = "sqlite_demo"
  \/ suite.script = "sessions"
  \/ suite.script = "users" /\ \E u \in users : u.id = 1 /\ u.auth # ""
  \/ kind = "sqlx" /\ ~ {User42, User99} \subseteq UserIds(users)

\* What the table holds before line `at' of the suite that runs.
Expected(auth, at) ==
  CASE suite.script = "sessions_meant" -> HeldBySessions(at)
    [] suite.script = "engine" -> HeldByLogin(auth, 1, at)
    [] suite.script = "adapter_main" -> HeldByLogin(auth, 2, at)
    [] OTHER -> [i \in SuiteIds |-> None]

\* The inductive invariant: a suite without such a reason has not failed, and the
\* table is what its lines so far have left.
SuiteInv ==
  /\ kind \in Stores /\ SuiteOK
  /\ Application => suite.failed = 0
  /\ ~ Application =>
       /\ suite.script \in Scripts /\ Fits(kind, suite.script) /\ suite.at \in Nat \ {0}
       /\ ~ Excused => /\ suite.failed = 0
                       /\ \E auth \in SeedHashes :
                            Seeding(auth) /\ rows = Expected(auth, suite.at)

\* The line that a suite without an excuse is at goes well.
LEMMA LineGoes ==
  ASSUME SuiteInv, ~ Application, ~ Excused, suite.at <= Len(Lines(suite.script)),
         NEW auth \in SeedHashes, Seeding(auth), rows = Expected(auth, suite.at)
  PROVE  Goes(Lines(suite.script)[suite.at], Expected(auth, suite.at + 1))
  <1> DEFINE n == suite.at
             line == Lines(suite.script)[suite.at]
  <1>1. /\ suite.script \in {"users", "passwords", "sessions_meant", "engine", "adapter_main"}
        /\ Fits(kind, suite.script) /\ n \in Nat \ {0} /\ kind \in Stores \ {"sqlite_demo"}
    BY ScriptsAssumption DEF SuiteInv, Application, Excused
  <1>a. \A k \in Nat : Len(Lines(suite.script)) = k => n \in 1..k
    <2>1. n <= Len(Lines(suite.script)) /\ n \in Nat \ {0}
      BY <1>1
    <2> HIDE DEF n
    <2>2. ASSUME NEW k \in Nat, Len(Lines(suite.script)) = k PROVE n \in 1..k
      <3>1. n <= k
        BY <2>1, <2>2
      <3>2. n \in Nat \ {0}
        BY <2>1
      <3> QED BY ONLY k \in Nat, <3>1, <3>2
    <2> QED BY <2>2
  <1>2. CASE suite.script = "sessions_meant"
    <2>1. kind \in {"memory", "sqlx"} /\ (kind = "sqlx" => {User42, User99} \subseteq UserIds(users))
      BY <1>1, <1>2 DEF Fits, Excused, Stores
    <2>2. n \in 1..21
      BY <1>a, <1>2, SessionSuiteLines
    <2>3. rows = HeldBySessions(n) /\ Expected(auth, n + 1) = HeldBySessions(n + 1)
      BY <1>2 DEF Expected
    <2> QED BY <1>2, <2>1, <2>2, <2>3, SessionSuiteGoes
  <1>3. CASE suite.script = "engine"
    <2>1. Lines(suite.script) = run_engine_lifecycle_tests
      BY <1>3 DEF Lines
    <2>2. Len(run_engine_lifecycle_tests) = 5
      BY DEF run_engine_lifecycle_tests
    <2>3. n \in 1..5
      BY <1>a, <2>1, <2>2
    <2>4. kind \in Conditional
      BY <1>1, <1>3 DEF Fits, Conditional
    <2>5. rows = HeldByLogin(auth, 1, n) /\ Expected(auth, n + 1) = HeldByLogin(auth, 1, n + 1)
      BY <1>3 DEF Expected
    <2> QED BY <2>1, <2>3, <2>4, <2>5, EngineSuiteGoes
  <1>4. CASE suite.script = "adapter_main"
    <2>1. Lines(suite.script) = adapter_main
      BY <1>4 DEF Lines
    <2>2. Len(adapter_main) = 5
      BY DEF adapter_main
    <2>3. n \in 1..5
      BY <1>a, <2>1, <2>2
    <2>4. kind \in Conditional
      BY <1>1, <1>4 DEF Fits, Conditional
    <2>5. rows = HeldByLogin(auth, 2, n) /\ Expected(auth, n + 1) = HeldByLogin(auth, 2, n + 1)
      BY <1>4 DEF Expected
    <2> QED BY <2>1, <2>3, <2>4, <2>5, AdapterMainGoes
  <1>5. CASE suite.script \in {"users", "passwords"}
    <2>1. kind = "memory" /\ Expected(auth, n + 1) = rows
      BY <1>1, <1>5 DEF Fits, Expected
    <2>2. Lines(suite.script) = IF suite.script = "users" THEN run_user_store_tests
                                ELSE run_password_user_store_tests
      BY <1>5 DEF Lines
    <2>3. Len(run_user_store_tests) = 2 /\ Len(run_password_user_store_tests) = 2
      BY DEF run_user_store_tests, run_password_user_store_tests
    <2>4. n \in 1..2
      BY <1>a, <2>2, <2>3
    <2>5. suite.script = "users" => auth = ""
      <3>1. Seeded(1, Alice, auth).id = 1 /\ Seeded(1, Alice, auth).auth = auth
        BY DEF Seeded
      <3> QED BY <3>1 DEF Excused, Seeding
    <2> QED BY <1>5, <2>1, <2>2, <2>4, <2>5, UserSuitesGo
  <1> QED BY <1>1, <1>2, <1>3, <1>4, <1>5

\* A suite starts on an empty table with its users seeded.
LEMMA SuiteInitially == Init => SuiteInv
  <1> SUFFICES ASSUME Init PROVE SuiteInv
    OBVIOUS
  <1>1. PICK script \in {s \in Scripts : Fits(kind, s)} :
           /\ suite = [script |-> script, at |-> 1, failed |-> 0]
           /\ rows = [i \in IF script = "app" THEN Ids ELSE SuiteIds |-> None]
    BY DEF Init
  <1>2. kind \in Stores /\ SuiteOK
    BY <1>1, KindsAssumption DEF Init, SuiteOK
  <1>3. suite.script = script /\ suite.at = 1 /\ suite.failed = 0
    BY <1>1
  <1>4. ASSUME ~ Application PROVE \E auth \in SeedHashes : Seeding(auth) /\ rows = Expected(auth, 1)
    <2>1. rows = [i \in SuiteIds |-> None]
      BY <1>1, <1>3, <1>4 DEF Application
    <2>2. PICK auth \in SeedHashes : Seeding(auth)
      BY <1>4 DEF Init, Seeding
    <2>3. HeldBySessions(1) = [i \in SuiteIds |-> None]
      BY DEF HeldBySessions
    <2>4. /\ HeldByLogin(auth, 1, 1) = [i \in SuiteIds |-> None]
          /\ HeldByLogin(auth, 2, 1) = [i \in SuiteIds |-> None]
      BY DEF HeldByLogin
    <2>5. Expected(auth, 1) = [i \in SuiteIds |-> None]
      BY <2>3, <2>4 DEF Expected
    <2> QED BY <2>1, <2>2, <2>5
  <1> QED BY <1>1, <1>2, <1>3, <1>4 DEF SuiteInv

\* The application leaves the suite alone; a line goes on or excuses itself.
LEMMA SuiteInductive == SuiteInv /\ [Next]_vars => SuiteInv'
  <1> SUFFICES ASSUME SuiteInv, [Next]_vars PROVE SuiteInv'
    OBVIOUS
  <1>1. SuiteOK /\ kind \in Stores
    BY DEF SuiteInv
  <1>2. CASE SuiteStep
    <2> DEFINE line == Lines(suite.script)[suite.at]
               ret == Perform(line)
    <2>1. /\ ~ Application /\ suite.failed = 0 /\ suite.at <= Len(Lines(suite.script))
          /\ rows' = ret.rows
          /\ suite' = IF Accepts(line, ret.out) THEN [suite EXCEPT !.at = @ + 1]
                      ELSE [suite EXCEPT !.failed = suite.at]
          /\ kind' = kind /\ users' = users
      BY <1>2 DEF SuiteStep
    <2>2. /\ suite'.script = suite.script /\ suite'.at \in {suite.at, suite.at + 1}
          /\ Accepts(line, ret.out) => suite'.at = suite.at + 1 /\ suite'.failed = 0
          /\ SuiteOK'
      BY <1>1, <2>1 DEF SuiteOK
    <2>3. /\ ~ Application' /\ (Excused' <=> Excused)
          /\ \A auth : Seeding(auth)' <=> Seeding(auth)
      BY <2>1, <2>2 DEF Application, Excused, Seeding
    <2>4. /\ suite'.script \in Scripts /\ Fits(kind', suite'.script) /\ suite'.at \in Nat \ {0}
      BY <2>1, <2>2 DEF SuiteInv, Fits
    <2>5. ASSUME ~ Excused
          PROVE  /\ suite'.failed = 0
                 /\ \E auth \in SeedHashes : Seeding(auth)' /\ rows' = Expected(auth, suite.at)'
      <3>1. PICK auth \in SeedHashes : Seeding(auth) /\ rows = Expected(auth, suite.at)
        BY <2>1, <2>5 DEF SuiteInv
      <3>2. Goes(line, Expected(auth, suite.at + 1))
        BY <2>1, <2>5, <3>1, LineGoes
      <3>3. suite'.failed = 0 /\ suite'.at = suite.at + 1 /\ rows' = Expected(auth, suite.at + 1)
        BY <2>1, <2>2, <3>2 DEF Goes
      <3>4. Expected(auth, suite.at)' = Expected(auth, suite.at + 1)
        BY <2>2, <3>3 DEF Expected
      <3> QED BY <2>3, <3>1, <3>3, <3>4
    <2> QED BY <1>1, <2>1, <2>2, <2>3, <2>4, <2>5 DEF SuiteInv
  <1>3. CASE Next /\ ~ SuiteStep
    <2>1. Application /\ suite' = suite /\ kind' = kind
      BY <1>3 DEF Next, Save, Find, Delete, Touch, TouchFind, TouchSave, DeleteUser, List,
                  StatementFails, Call
    <2> QED BY <2>1 DEF SuiteInv, Application, SuiteOK
  <1>4. CASE UNCHANGED vars
    BY <1>4 DEF SuiteInv, Application, SuiteOK, Excused, Seeding, Expected, vars, Fits
  <1> QED BY <1>2, <1>3, <1>4

\* For every width of a word that holds the suites' numbers and every hash in the
\* seeded user: MemoryStore and the SQLite adapter pass every suite that takes
\* their types, and the sqlx store passes the session suite, once the listing
\* means its message and the users of the saved sessions exist.
THEOREM CorrectStoresPassSuites == Spec => []SuitesPassCorrectStores
  <1>1. SuiteInv => SuitesPassCorrectStores
    BY DEF SuiteInv, SuitesPassCorrectStores, Excused
  <1> QED BY SuiteInitially, SuiteInductive, <1>1, PTL DEF Spec
=============================================================================
