-------------------------- MODULE SessionLifecycle --------------------------
(***************************************************************************)
(* What AuthEngine promises about a wire token, with no store, clock or    *)
(* user table: a token is minted once, is live until it is revoked, and is *)
(* dead ever after; a validation may answer "accepted" only if the token   *)
(* was live at some moment of that very call.  This is the store contract  *)
(* (Spec 16) of src/storage/session.rs, seen from the engine's callers.    *)
(***************************************************************************)
CONSTANTS Procs, Tokens, None

VARIABLES
  status,   \* each token: "unminted", "live" or "dead"
  asking,   \* the token each validation in flight asks about, or None
  phase     \* how far each caller's validation has come

vars == <<status, asking, phase>>

Live == {t \in Tokens : status[t] = "live"}

InFlight(p) == phase[p] \in {"asked", "seen"}

Init ==
  /\ status = [t \in Tokens |-> "unminted"]
  /\ asking = [p \in Procs |-> None]
  /\ phase = [p \in Procs |-> "free"]

\* A login hands out a token nobody held before.
Mint(t) ==
  /\ status[t] = "unminted"
  /\ status' = [status EXCEPT ![t] = "live"]
  /\ UNCHANGED <<asking, phase>>

\* Revocation, expiry and credential changes only ever end lives.
Kill(S) ==
  /\ status' = [t \in Tokens |-> IF t \in S THEN "dead" ELSE status[t]]
  /\ UNCHANGED <<asking, phase>>

Ask(p, t) ==
  /\ ~ InFlight(p)
  /\ status[t] # "unminted"
  /\ asking' = [asking EXCEPT ![p] = t]
  /\ phase' = [phase EXCEPT ![p] = "asked"]
  /\ UNCHANGED status

See(p) ==
  /\ phase[p] = "asked"
  /\ asking[p] \in Live
  /\ phase' = [phase EXCEPT ![p] = "seen"]
  /\ UNCHANGED <<status, asking>>

Answer(p, verdict) ==
  /\ asking' = [asking EXCEPT ![p] = None]
  /\ phase' = [phase EXCEPT ![p] = verdict]

Accept(p) ==
  /\ phase[p] = "seen"
  /\ Answer(p, "accepted")
  /\ UNCHANGED status

\* A refusing validation may end the token's life as it answers.
Refuse(p) ==
  /\ InFlight(p)
  /\ Answer(p, "refused")
  /\ \/ UNCHANGED status
     \/ /\ asking[p] \in Live
        /\ status' = [status EXCEPT ![asking[p]] = "dead"]

\* The call ends without a verdict: an error, a panic, a dropped future.
GiveUp(p) ==
  /\ InFlight(p)
  /\ Answer(p, "free")
  /\ UNCHANGED status

\* The caller turns to something else.
MoveOn(p) ==
  /\ phase[p] \in {"accepted", "refused"}
  /\ phase' = [phase EXCEPT ![p] = "free"]
  /\ UNCHANGED <<status, asking>>

Next ==
  \/ \E t \in Tokens : Mint(t)
  \/ \E S \in SUBSET Live : Kill(S)
  \/ \E p \in Procs : See(p) \/ Accept(p) \/ Refuse(p)
                    \/ GiveUp(p) \/ MoveOn(p)
  \/ \E p \in Procs, t \in Tokens : Ask(p, t)

Spec == Init /\ [][Next]_vars
=============================================================================
