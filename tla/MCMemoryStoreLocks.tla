------------------------- MODULE MCMemoryStoreLocks -------------------------
(***************************************************************************)
(* Model checking of MemoryStoreLocks: which methods run together.         *)
(***************************************************************************)
EXTENDS MemoryStoreLocks

\* A registration or password change while someone logs in.
RegistrationAndLogin == {"insert_user_with_password", "find_by_identifier"}
=============================================================================
