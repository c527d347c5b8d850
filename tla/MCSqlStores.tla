----------------------------- MODULE MCSqlStores -----------------------------
(***************************************************************************)
(* Model checking of SqlStores with words of three bits: 3 is the largest   *)
(* i64, 7 the largest u64.                                                  *)
(***************************************************************************)
EXTENDS SqlStores

SavedSession(u, c, e) ==
  [user |-> u, created |-> c, expires |-> e, active |-> None, hash |-> "hash"]

MCNewSessions == {SavedSession(1, 1, 3), SavedSession(2, 1, 7), SavedSession(2, 4, 7)}

MCTouches == {<<2, 1>>, <<7, 4>>}
=============================================================================
