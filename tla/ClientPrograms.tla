---------------------------- MODULE ClientPrograms ----------------------------
(***************************************************************************)
(* What runs on a visitor's machine: an example application in a tab, tabs  *)
(* that share the return-to key, or a native client with its token file.    *)
(* The three share no state; a behaviour is one of them.                    *)
(***************************************************************************)
EXTENDS TokenFile, ExampleApps

VARIABLE program

vars == <<program, fileVars, returnVars, appVars>>

Init ==
  /\ program \in {"file", "return_to", "app"}
  /\ IF program = "app" THEN app \in Apps ELSE app = "basic"
  /\ IF program = "file" THEN FileInit
     ELSE /\ path = 0 /\ tmp = 0 /\ file = [f \in Files |-> Blank]
          /\ save = [s \in Savers |-> NoSave] /\ committed = NoToken
          /\ written = {} /\ overlapped = FALSE
  /\ ReturnInit /\ (program # "return_to" => parked = NotParked)
  /\ AppInit /\ (program # "app" => ui.page = "home")

Next ==
  /\ UNCHANGED program
  /\ \/ program = "file" /\ FileNext /\ UNCHANGED <<returnVars, appVars>>
     \/ program = "return_to" /\ ReturnNext /\ UNCHANGED <<fileVars, appVars>>
     \/ /\ program = "app" /\ AppNext
        /\ UNCHANGED <<fileVars, visitor, bounces, consumed, misled, twice>>

Spec == Init /\ [][Next]_vars
=============================================================================
