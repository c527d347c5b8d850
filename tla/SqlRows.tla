------------------------------- MODULE SqlRows -------------------------------
(***************************************************************************)
(* What the example stores over SQL have in common: rows of signed numbers, *)
(* the constraints of their schema and the results a call of a store        *)
(* returns.  SQLite itself, rusqlite and sqlx are outside the repository    *)
(* and are modelled from the statements the stores execute.                 *)
(***************************************************************************)
EXTENDS Integers, FiniteSets

CONSTANTS
  Bits,    \* width of the machine's words: 64 in the program
  None     \* no row, no value

ASSUME BitsAssumption == Bits \in Nat \ {0, 1}

I64Max == 2^(Bits - 1) - 1
U64Max == 2^Bits - 1

\* Rust's casts between u64 and i64 keep the bits; an Option is mapped.
AsI64(x) == IF x > I64Max THEN x - 2^Bits ELSE x
AsU64(y) == y % 2^Bits
MapOption(F(_), x) == IF x = None THEN None ELSE F(x)

\* The result of a call: Ok(()), Ok(None), Err, or Ok of one or several things.
Ok == [tag |-> "ok", got |-> {}]
Absent == [tag |-> "none", got |-> {}]
Err == [tag |-> "err", got |-> {}]
\* The AuthError::Store of a statement that failed.
Failed == [tag |-> "fail", got |-> {}]
Found(x) == [tag |-> "some", got |-> {x}]
Listed(xs) == [tag |-> "list", got |-> xs]

\* What a call leaves in the table, and its result.
Returns(rows, out) == [rows |-> rows, out |-> out]

\* Mutant: the update forgets the expiry.
UpsertKeepsExpiry(rows, i, r) ==
  [rows EXCEPT ![i] =
     IF @ = None THEN r ELSE [@ EXCEPT !.active = r.active, !.hash = r.hash]]

\* INSERT .. ON CONFLICT(id) DO UPDATE: the owner and the creation stay.
Upsert(rows, i, r) ==
  [rows EXCEPT ![i] =
     IF @ = None THEN r
     ELSE [@ EXCEPT !.expires = r.expires, !.active = r.active, !.hash = r.hash]]

\* DELETE FROM sessions, of the ids given.
Remove(rows, ids) == [i \in DOMAIN rows |-> IF i \in ids THEN None ELSE rows[i]]

\* SELECT .. WHERE user_id = u.
IdsOf(rows, u) == {i \in DOMAIN rows : rows[i] # None /\ rows[i].user = u}

\* The user table, a set of rows; AUTOINCREMENT numbers a new one.
UserIds(users) == {u.id : u \in users}
NextId(users) == CHOOSE n \in 1..(Cardinality(users) + 1) : n \notin UserIds(users)
WithId(users, id) == CHOOSE u \in users : u.id = id
=============================================================================
