------------------------------- MODULE TokenFile -------------------------------
(***************************************************************************)
(* FileTokenStorage of a native client (transport/file.rs, Unix): save      *)
(* writes a sibling .tmp file and renames it over the token file.  Each     *)
(* call on the file system is a step; two savers, threads or processes,     *)
(* share the one .tmp name, and a save can stop after any step.             *)
(***************************************************************************)
EXTENDS Naturals, FiniteSets

CONSTANTS Savers, Tokens, NoToken

ASSUME SaversAssumption == IsFiniteSet(Savers)

\* Nobody saves the empty token, which load takes for none.
ASSUME TokensAssumption == {NoToken, ""} \cap Tokens = {}

VARIABLES
  path, tmp,    \* the file each of the two names refers to, 0 when there is none
  file,         \* contents and mode of each file
  save,         \* each saver's step, open file and token
  committed,    \* history: the token last renamed into place or found, if not cleared
  written,      \* history: files that a save has put in place
  overlapped    \* history: were two saves ever in progress at once?

fileVars == <<path, tmp, file, save, committed, written, overlapped>>

\* Two names and an open file for each saver: no more files are in use.
Files == 1..(2 + Cardinality(Savers))
Private == "0600"
NoSave == [at |-> "idle", fd |-> 0, token |-> NoToken]
Blank == [data |-> "", mode |-> Private]

InUse == {path, tmp} \cup {save[s].fd : s \in Savers}
FreeFile == CHOOSE f \in Files : f \notin InUse

\* What a file holds: a whole token, nothing yet, or the part that was written.
Contents == Tokens \cup {"", "torn"}

\* load: a file that is missing or empty is no token.
Load == IF path = 0 THEN NoToken
        ELSE IF file[path].data = "" THEN NoToken ELSE file[path].data

StepTo(s, at) == save' = [save EXCEPT ![s].at = at]

\* Mutant: the token file itself is opened and truncated.
OpenTmpInPlace(s) ==
  /\ save[s] = NoSave
  /\ \E t \in Tokens, f \in {IF path = 0 THEN FreeFile ELSE path} :
       /\ save' = [save EXCEPT ![s] = [at |-> "opened", fd |-> f, token |-> t]]
       /\ file' = [file EXCEPT ![f] = [@ EXCEPT !.data = ""]]
       /\ path' = f
  /\ overlapped' = (overlapped \/ \E o \in Savers : save[o] # NoSave)
  /\ UNCHANGED <<tmp, committed, written>>

\* open with create, truncate and mode 0600: a .tmp that exists keeps its mode.
OpenTmp(s) ==
  /\ save[s] = NoSave
  /\ \E t \in Tokens, f \in {IF tmp = 0 THEN FreeFile ELSE tmp} :
       /\ save' = [save EXCEPT ![s] = [at |-> "opened", fd |-> f, token |-> t]]
       /\ file' = [file EXCEPT ![f] =
            IF tmp = 0 THEN Blank ELSE [@ EXCEPT !.data = ""]]
       /\ tmp' = f
  /\ overlapped' = (overlapped \/ \E o \in Savers : save[o] # NoSave)
  /\ UNCHANGED <<path, committed, written>>

\* write_all goes to the open file, whatever its name is by now.
Write(s) ==
  /\ save[s].at = "opened"
  /\ file' = [file EXCEPT ![save[s].fd].data = save[s].token]
  /\ StepTo(s, "written")
  /\ UNCHANGED <<path, tmp, committed, written, overlapped>>

\* Mutant: no set_permissions.
SetModeSkipped(s) ==
  /\ save[s].at = "written"
  /\ StepTo(s, "private")
  /\ UNCHANGED <<path, tmp, file, committed, written, overlapped>>

\* set_permissions goes by name, and fails when the name is gone.
SetMode(s) ==
  /\ save[s].at = "written"
  /\ \/ /\ tmp # 0
        /\ file' = [file EXCEPT ![tmp].mode = Private]
        /\ StepTo(s, "private")
     \/ /\ tmp = 0
        /\ save' = [save EXCEPT ![s] = NoSave]
        /\ UNCHANGED file
  /\ UNCHANGED <<path, tmp, committed, written, overlapped>>

\* So does rename.
Rename(s) ==
  /\ save[s].at = "private"
  /\ save' = [save EXCEPT ![s] = NoSave]
  /\ \/ /\ tmp # 0
        /\ path' = tmp /\ tmp' = 0
        /\ committed' = save[s].token
        /\ written' = (written \ {path}) \cup {tmp}
     \/ /\ tmp = 0
        /\ UNCHANGED <<path, tmp, committed, written>>
  /\ UNCHANGED <<file, overlapped>>

\* An I/O error or the end of the process; write_all may have begun.
Stop(s) ==
  /\ save[s] # NoSave
  /\ save' = [save EXCEPT ![s] = NoSave]
  /\ \/ UNCHANGED file
     \/ save[s].at = "opened" /\ file' = [file EXCEPT ![save[s].fd].data = "torn"]
  /\ UNCHANGED <<path, tmp, committed, written, overlapped>>

\* clear removes the token file and nothing else.
Clear ==
  /\ path' = 0
  /\ committed' = NoToken
  /\ written' = written \ {path}
  /\ UNCHANGED <<tmp, file, save, overlapped>>

\* An earlier process may have left either file, with any mode.
FileInit ==
  /\ path \in {0, 1} /\ tmp \in {0, 2}
  /\ \E token \in Tokens, left \in Contents, modes \in [Files -> {Private, "loose"}] :
       /\ \A f \in Files \ {1, 2} : modes[f] = Private
       /\ file = [f \in Files |->
            [data |-> IF f = 1 THEN token ELSE IF f = 2 THEN left ELSE "",
             mode |-> modes[f]]]
  /\ save = [s \in Savers |-> NoSave]
  /\ committed = Load
  /\ written = {} /\ overlapped = FALSE

FileNext ==
  \/ \E s \in Savers : OpenTmp(s) \/ Write(s) \/ SetMode(s) \/ Rename(s) \/ Stop(s)
  \/ Clear

-----------------------------------------------------------------------------
\* Unless two saves overlap, load finds the token of the last save that reached
\* its rename, the one that was there, or none after clear: wherever the other
\* saves stopped, the token file is never empty, torn or of a save that failed.
FileWhole == ~ overlapped => Load = committed

\* However saves overlap and stop, a file that a save puts in place is readable
\* by its owner only, also when .tmp was there with a looser mode.
SecretMode == \A f \in written : file[f].mode = Private
=============================================================================
