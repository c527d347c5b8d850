--------------------------- MODULE MCAuthSessions ---------------------------
(***************************************************************************)
(* Model checking of AuthSessions.  Requests and tokens are interchangeable *)
(* (no operator orders or chooses among them), so both may be permuted.    *)
(***************************************************************************)
EXTENDS AuthSessions, TLC

Symmetry == Permutations(Procs) \cup Permutations(Tokens)
=============================================================================
