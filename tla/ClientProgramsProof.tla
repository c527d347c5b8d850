------------------------- MODULE ClientProgramsProof -------------------------
(***************************************************************************)
(* Theorems about ClientPrograms: about TokenFile for any finite set of     *)
(* savers, about ReturnTo for any number of tabs, URLs and redirects, and   *)
(* about the example applications for any number of page loads and calls.   *)
(***************************************************************************)
EXTENDS ClientPrograms, FiniteSetTheorems, TLAPS

-----------------------------------------------------------------------------
\* The token file.

Modes == {Private, "loose"}
FileRecord == [data : Contents, mode : Modes]
SaveRecord ==
  [at : {"idle", "opened", "written", "private"}, fd : Files \cup {0},
   token : Tokens \cup {NoToken}]

FileTyped ==
  /\ path \in Files \cup {0} /\ tmp \in Files \cup {0}
  /\ file \in [Files -> FileRecord]
  /\ save \in [Savers -> SaveRecord]
  /\ \A s \in Savers : save[s] # NoSave =>
       save[s].at # "idle" /\ save[s].fd # 0 /\ save[s].token \in Tokens
  /\ written \subseteq Files
  /\ overlapped \in BOOLEAN

\* Once a saver has set the mode, every file that the name .tmp refers to until
\* that saver renames it is private: the one it saw, or a new one.
ModesOK ==
  /\ (\E s \in Savers : save[s].at = "private") /\ tmp # 0 =>
       file[tmp].mode = Private
  /\ SecretMode

\* A saver that is alone has .tmp for itself, and it is not the token file.
Alone ==
  /\ \A s, o \in Savers : save[s] # NoSave /\ save[o] # NoSave => s = o
  /\ \A s \in Savers : save[s] # NoSave => save[s].fd = tmp
  /\ \A s \in Savers : save[s].at \in {"written", "private"} =>
       file[tmp].data = save[s].token
  /\ tmp # 0 => tmp # path
  /\ path = 0 => committed = NoToken
  /\ path # 0 => committed \in Tokens /\ file[path].data = committed

FileOK == FileTyped /\ ModesOK /\ (~ overlapped => Alone)

\* There are two names and an open file for each saver, and a saver that is
\* about to open one has none: FreeFile is a file that is not in use.
LEMMA FilesFacts == {1, 2} \subseteq Files /\ 0 \notin Files
                    /\ IsFiniteSet(Files) /\ Cardinality(Savers) < Cardinality(Files)
<1>1. Cardinality(Savers) \in Nat
  BY FS_CardinalityType, SaversAssumption
<1>2. IsFiniteSet(Files) /\ Cardinality(Files) = 2 + Cardinality(Savers)
  BY <1>1, FS_Interval, SMT DEF Files
<1> QED BY <1>1, <1>2 DEF Files

\* There is always a file that is not in use.
LEMMA FreeFileIsFree ==
  ASSUME FileTyped, tmp = 0, NEW s \in Savers, save[s] = NoSave
  PROVE  FreeFile \in Files /\ FreeFile # path
<1>1. \E f \in Files : f \notin InUse
  <2>1. SUFFICES ASSUME \A f \in Files : f \in InUse PROVE FALSE
    OBVIOUS
  <2> DEFINE user(f) == CHOOSE o \in Savers : save[o].fd = f
             g == [f \in Files |-> IF f = path THEN s ELSE user(f)]
  <2>2. \A f \in Files : f # path =>
          user(f) \in Savers /\ save[user(f)].fd = f
    BY <2>1, FilesFacts DEF InUse
  <2>3. g \in [Files -> Savers]
    BY <2>2
  <2> HIDE DEF g
  <2>4. PICK x, y \in Files : x # y /\ g[x] = g[y]
    BY <2>3, FS_PigeonHole, FilesFacts, SaversAssumption
  <2>5. save[s].fd = 0
    BY DEF NoSave
  <2> QED BY <2>2, <2>4, <2>5, FilesFacts DEF g
<1>2. FreeFile \in Files /\ FreeFile \notin InUse
  BY <1>1 DEF FreeFile
<1> QED BY <1>2 DEF InUse

\* What an earlier process may have left.
LEMMA FileBegins == FileInit => FileOK
<1> SUFFICES ASSUME FileInit PROVE FileOK
  OBVIOUS
<1> USE FilesFacts
<1>1. PICK token \in Tokens, left \in Contents,
           modes \in [Files -> {Private, "loose"}] :
         file = [f \in Files |->
           [data |-> IF f = 1 THEN token ELSE IF f = 2 THEN left ELSE "",
            mode |-> modes[f]]]
  BY DEF FileInit
<1>2. file \in [Files -> FileRecord]
  BY <1>1 DEF FileRecord, Modes, Contents
<1>3. FileTyped
  BY <1>2 DEF FileInit, FileTyped, SaveRecord, NoSave
<1>4. ModesOK
  BY DEF FileInit, ModesOK, SecretMode, NoSave
<1>5. Alone
  <2>1. file[1].data = token /\ token # "" /\ token # NoToken
    BY <1>1, TokensAssumption
  <2>2. \A s \in Savers : save[s] = NoSave /\ save[s].at = "idle"
    BY DEF FileInit, NoSave
  <2>3. path \in {0, 1} /\ tmp \in {0, 2} /\ committed = Load
    BY DEF FileInit
  <2>4. path = 0 => committed = NoToken
    BY <2>3 DEF Load
  <2>5. path # 0 => path = 1 /\ committed = token
    BY <2>1, <2>3 DEF Load
  <2>6. tmp # 0 => tmp # path
    BY <2>3
  <2>7. path # 0 => committed \in Tokens /\ file[path].data = committed
    BY <2>1, <2>5
  <2> QED BY <2>2, <2>4, <2>6, <2>7 DEF Alone
<1> QED BY <1>3, <1>4, <1>5 DEF FileOK

\* A save opens .tmp, there already or new.
LEMMA OpenTmpKeeps ==
  ASSUME FileOK, NEW s \in Savers, OpenTmp(s)
  PROVE  FileOK'
<1> USE DEF FileOK, FileTyped
<1>1. PICK t \in Tokens, f \in {IF tmp = 0 THEN FreeFile ELSE tmp} :
        /\ save' = [save EXCEPT ![s] = [at |-> "opened", fd |-> f, token |-> t]]
        /\ file' = [file EXCEPT ![f] =
             IF tmp = 0 THEN Blank ELSE [@ EXCEPT !.data = ""]]
        /\ tmp' = f
  BY DEF OpenTmp
<1>2. f \in Files /\ f # 0 /\ (tmp # 0 => f = tmp) /\ (tmp = 0 => f # path)
  BY <1>1, FreeFileIsFree, FilesFacts DEF OpenTmp
<1>3. UNCHANGED <<path, committed, written>>
      /\ save[s] = NoSave
      /\ overlapped' = (overlapped \/ \E o \in Savers : save[o] # NoSave)
  BY DEF OpenTmp
<1>4. /\ \A g \in Files : g # f => file'[g] = file[g]
      /\ file'[f].data = ""
      /\ file'[f].mode = IF tmp = 0 THEN Private ELSE file[f].mode
      /\ file' \in [Files -> FileRecord]
  <2>1. CASE tmp = 0
    BY <1>1, <1>2, <2>1 DEF Blank, FileRecord, Modes, Contents
  <2>2. CASE tmp # 0
    BY <1>1, <1>2, <2>2 DEF FileRecord, Modes, Contents
  <2> QED BY <2>1, <2>2
<1>5. FileTyped'
  BY <1>1, <1>2, <1>3, <1>4 DEF SaveRecord, NoSave
<1>6. ModesOK'
  <2>1. \A o \in Savers : save'[o].at = "private" => save[o].at = "private"
    BY <1>1
  <2> QED BY <1>1, <1>2, <1>3, <1>4, <2>1 DEF ModesOK, SecretMode
<1>7. ~ overlapped' => Alone'
  <2> SUFFICES ASSUME ~ overlapped' PROVE Alone'
    OBVIOUS
  <2>1. \A o \in Savers : o # s => save'[o] = NoSave
    BY <1>1, <1>3
  <2>2. save'[s].at = "opened" /\ save'[s].fd = tmp' /\ NoSave.at = "idle"
    BY <1>1 DEF NoSave
  <2>3. Alone
    BY <1>3
  <2>4. tmp' # path'
    BY <1>1, <1>2, <1>3, <2>3 DEF Alone
  <2>5. path' # 0 => file'[path'] = file[path]
    BY <1>1, <1>3, <1>4, <2>4
  <2> QED BY <1>3, <2>1, <2>2, <2>3, <2>4, <2>5 DEF Alone
<1> QED BY <1>5, <1>6, <1>7

\* A save writes its token, whole or torn.
LEMMA WriteKeeps ==
  ASSUME FileOK, NEW s \in Savers, Write(s)
  PROVE  FileOK'
<1> USE DEF FileOK, FileTyped
<1>1. /\ save[s].at = "opened"
      /\ file' = [file EXCEPT ![save[s].fd].data = save[s].token]
      /\ save' = [save EXCEPT ![s].at = "written"]
      /\ UNCHANGED <<path, tmp, committed, written, overlapped>>
  BY DEF Write, StepTo
<1>2. save[s] # NoSave /\ save[s].fd \in Files /\ save[s].token \in Tokens
  BY <1>1 DEF SaveRecord, NoSave
<1>3. /\ \A g \in Files : g # save[s].fd => file'[g] = file[g]
      /\ file'[save[s].fd].data = save[s].token
      /\ \A g \in Files : file'[g].mode = file[g].mode
      /\ file' \in [Files -> FileRecord]
  BY <1>1, <1>2 DEF FileRecord, Contents
<1>4. /\ \A o \in Savers : o # s => save'[o] = save[o]
      /\ save'[s].at = "written" /\ save'[s].fd = save[s].fd
      /\ save'[s].token = save[s].token
      /\ save' \in [Savers -> SaveRecord]
  BY <1>1 DEF SaveRecord
<1>5. FileTyped'
  BY <1>1, <1>2, <1>3, <1>4
<1>6. ModesOK'
  BY <1>1, <1>3, <1>4 DEF ModesOK, SecretMode
<1>7. ~ overlapped' => Alone'
  <2> SUFFICES ASSUME ~ overlapped PROVE Alone'
    BY <1>1
  <2>1. \A o \in Savers : o # s => save[o] = NoSave
    BY <1>2 DEF Alone
  <2>2. NoSave.at = "idle"
    BY DEF NoSave
  <2>3. save[s].fd = tmp /\ tmp # path
    BY <1>2, FilesFacts DEF Alone
  <2> QED BY <1>1, <1>2, <1>3, <1>4, <2>1, <2>2, <2>3 DEF Alone
<1> QED BY <1>5, <1>6, <1>7

\* A save sets the mode of what .tmp refers to by then.
LEMMA SetModeKeeps ==
  ASSUME FileOK, NEW s \in Savers, SetMode(s)
  PROVE  FileOK'
<1> USE DEF FileOK, FileTyped
<1>1. /\ save[s].at = "written"
      /\ UNCHANGED <<path, tmp, committed, written, overlapped>>
  BY DEF SetMode
<1>2. CASE /\ tmp # 0
           /\ file' = [file EXCEPT ![tmp].mode = Private]
           /\ save' = [save EXCEPT ![s].at = "private"]
  <2>1. /\ \A g \in Files : file'[g].data = file[g].data
        /\ \A g \in Files : file[g].mode = Private => file'[g].mode = Private
        /\ file'[tmp].mode = Private
        /\ file' \in [Files -> FileRecord]
    BY <1>2 DEF FileRecord, Modes
  <2>2. /\ \A o \in Savers : o # s => save'[o] = save[o]
        /\ save'[s].at = "private" /\ save'[s].fd = save[s].fd
        /\ save'[s].token = save[s].token
        /\ save' \in [Savers -> SaveRecord]
    BY <1>2 DEF SaveRecord
  <2>3. save[s] # NoSave
    BY <1>1 DEF NoSave
  <2>4. FileTyped'
    BY <1>1, <2>1, <2>2, <2>3
  <2>5. ModesOK'
    BY <1>1, <2>1, <2>2 DEF ModesOK, SecretMode
  <2>6. ~ overlapped' => Alone'
    <3> SUFFICES ASSUME ~ overlapped PROVE Alone'
      BY <1>1
    <3> QED BY <1>1, <1>2, <2>1, <2>2, <2>3 DEF Alone
  <2> QED BY <2>4, <2>5, <2>6
<1>3. CASE /\ tmp = 0
           /\ save' = [save EXCEPT ![s] = NoSave]
           /\ UNCHANGED file
  <2>1. FileTyped'
    BY <1>1, <1>3 DEF SaveRecord, NoSave
  <2>2. ModesOK'
    BY <1>1, <1>3 DEF ModesOK, SecretMode, NoSave
  <2>3. ~ overlapped' => Alone'
    BY <1>1, <1>3 DEF Alone, NoSave
  <2> QED BY <2>1, <2>2, <2>3
<1> QED BY <1>2, <1>3 DEF SetMode, StepTo

\* A save renames what .tmp refers to into place.
LEMMA RenameKeeps ==
  ASSUME FileOK, NEW s \in Savers, Rename(s)
  PROVE  FileOK'
<1> USE DEF FileOK, FileTyped
<1>1. /\ save[s].at = "private"
      /\ save' = [save EXCEPT ![s] = NoSave]
      /\ UNCHANGED <<file, overlapped>>
  BY DEF Rename
<1>2. /\ \A o \in Savers : o # s => save'[o] = save[o]
      /\ save'[s] = NoSave /\ NoSave.at = "idle"
      /\ save' \in [Savers -> SaveRecord]
      /\ save[s] # NoSave /\ save[s].token \in Tokens
  BY <1>1 DEF SaveRecord, NoSave
<1>3. CASE /\ tmp # 0
           /\ path' = tmp /\ tmp' = 0
           /\ committed' = save[s].token
           /\ written' = (written \ {path}) \cup {tmp}
  <2>1. FileTyped'
    BY <1>1, <1>2, <1>3
  <2>2. ModesOK'
    BY <1>1, <1>2, <1>3 DEF ModesOK, SecretMode
  <2>3. ~ overlapped' => Alone'
    BY <1>1, <1>2, <1>3 DEF Alone
  <2> QED BY <2>1, <2>2, <2>3
<1>4. CASE tmp = 0 /\ UNCHANGED <<path, tmp, committed, written>>
  <2>1. FileTyped'
    BY <1>1, <1>2, <1>4
  <2>2. ModesOK'
    BY <1>1, <1>2, <1>4 DEF ModesOK, SecretMode
  <2>3. ~ overlapped' => Alone'
    BY <1>1, <1>2, <1>4 DEF Alone
  <2> QED BY <2>1, <2>2, <2>3
<1> QED BY <1>3, <1>4 DEF Rename

\* A save fails or its process ends.
LEMMA StopKeeps ==
  ASSUME FileOK, NEW s \in Savers, Stop(s)
  PROVE  FileOK'
<1> USE DEF FileOK, FileTyped
<1>1. /\ save[s] # NoSave
      /\ save' = [save EXCEPT ![s] = NoSave]
      /\ UNCHANGED <<path, tmp, committed, written, overlapped>>
  BY DEF Stop
<1>2. /\ \A o \in Savers : o # s => save'[o] = save[o]
      /\ save'[s] = NoSave /\ NoSave.at = "idle"
      /\ save' \in [Savers -> SaveRecord]
      /\ save[s].fd \in Files
  BY <1>1 DEF SaveRecord, NoSave
<1>3. /\ \A g \in Files : g # save[s].fd => file'[g] = file[g]
      /\ \A g \in Files : file'[g].mode = file[g].mode
      /\ file' \in [Files -> FileRecord]
  <2>1. CASE UNCHANGED file
    BY <2>1
  <2>2. CASE file' = [file EXCEPT ![save[s].fd].data = "torn"]
    BY <1>2, <2>2 DEF FileRecord, Contents
  <2> QED BY <2>1, <2>2 DEF Stop
<1>4. FileTyped'
  BY <1>1, <1>2, <1>3
<1>5. ModesOK'
  BY <1>1, <1>2, <1>3 DEF ModesOK, SecretMode
<1>6. ~ overlapped' => Alone'
  <2> SUFFICES ASSUME ~ overlapped PROVE Alone'
    BY <1>1
  <2>1. \A o \in Savers : save'[o] = NoSave
    BY <1>1, <1>2 DEF Alone
  <2>2. path # 0 => path # save[s].fd
    BY <1>1, <1>2, FilesFacts DEF Alone
  <2> QED BY <1>1, <1>2, <1>3, <2>1, <2>2 DEF Alone
<1> QED BY <1>4, <1>5, <1>6

\* The token file is removed.
LEMMA ClearKeeps == ASSUME FileOK, Clear PROVE FileOK'
<1> USE DEF FileOK, FileTyped, Clear
<1>1. FileTyped'
  OBVIOUS
<1>2. ModesOK'
  BY DEF ModesOK, SecretMode
<1>3. ~ overlapped' => Alone'
  BY DEF Alone
<1> QED BY <1>1, <1>2, <1>3

\* Every step of the savers keeps their invariant.
LEMMA FileStep == FileOK /\ [FileNext]_fileVars => FileOK'
<1>1. ASSUME FileOK, UNCHANGED fileVars PROVE FileOK'
  BY <1>1 DEF fileVars, FileOK, FileTyped, ModesOK, SecretMode, Alone
<1> QED BY <1>1, OpenTmpKeeps, WriteKeeps, SetModeKeeps, RenameKeeps, StopKeeps,
           ClearKeeps DEF FileNext

\* The invariant is what load and the mode promise.
LEMMA FileOKMeans == FileOK => FileWhole /\ SecretMode
BY TokensAssumption DEF FileOK, ModesOK, Alone, FileWhole, Load

-----------------------------------------------------------------------------
\* The return-to key.

Parked == [url : Urls \cup Foreign \cup {NotParked.url}, bounce : Nat]
VisitorRecord ==
  [at : {"away", "login", "consuming"}, own : Nat, read : Parked, alone : BOOLEAN]

ReturnTyped ==
  /\ parked \in Parked /\ bounces \in Nat
  /\ visitor \in [Visitors -> VisitorRecord]

\* Bounces are numbered in their order.  What is parked was never returned, and a
\* visitor who reads alone is the only one to read what it has read.
Fresher ==
  /\ parked.bounce <= bounces /\ consumed \subseteq 1..bounces
  /\ parked.bounce \notin consumed
  /\ \A v \in Visitors : visitor[v].at = "consuming" =>
       /\ visitor[v].read.bounce <= bounces
       /\ visitor[v].alone => /\ visitor[v].read.bounce \notin consumed
                             /\ \A w \in Visitors : visitor[w].at = "consuming" => v = w

\* Nothing older than a tab's own destination is parked while the tab is at the
\* login page, but for what no bounce has put there.
NotOlder(own, that) == that.bounce = 0 \/ own <= that.bounce

OwnOK ==
  \A v \in Visitors :
    /\ visitor[v].own <= bounces
    /\ visitor[v].at = "login" => NotOlder(visitor[v].own, parked)
    /\ visitor[v].at = "consuming" => NotOlder(visitor[v].own, visitor[v].read)

ReturnOK ==
  /\ ReturnTyped /\ Fresher /\ OwnOK
  /\ twice = FALSE /\ misled = FALSE

\* A visitor who is away, and a key that holds nothing.
LEMMA AwayFacts == Away \in VisitorRecord /\ NotParked \in Parked
                   /\ Away.at = "away" /\ Away.own = 0 /\ NotParked.bounce = 0
BY DEF Away, NotParked, VisitorRecord, Parked

\* The first state of the return-to key.
LEMMA ReturnBegins == ReturnInit => ReturnOK
<1> SUFFICES ASSUME ReturnInit PROVE ReturnOK
  OBVIOUS
<1>1. parked \in Parked /\ parked.bounce = 0
  BY AwayFacts DEF ReturnInit, Parked, NotParked
<1>2. ReturnTyped /\ OwnOK
  BY <1>1, AwayFacts DEF ReturnInit, ReturnTyped, OwnOK
<1>3. Fresher
  BY <1>1, AwayFacts DEF ReturnInit, Fresher
<1> QED BY <1>2, <1>3 DEF ReturnOK, ReturnInit

\* A gate parks a destination newer than any other.
LEMMA RedirectKeeps ==
  ASSUME ReturnOK, NEW v \in Visitors, NEW u \in Urls, Redirect(v, u)
  PROVE  ReturnOK'
<1> USE DEF ReturnOK, ReturnTyped
<1> DEFINE here == [url |-> u, bounce |-> bounces + 1]
           own == IF is_safe_return_to(u) THEN bounces + 1 ELSE 0
<1>1. /\ visitor[v].at = "away" /\ bounces' = bounces + 1
      /\ parked' = IF is_safe_return_to(u) THEN here ELSE parked
      /\ visitor' = [visitor EXCEPT ![v] = [Away EXCEPT !.at = "login", !.own = own]]
      /\ UNCHANGED <<consumed, misled, twice>>
  BY DEF Redirect, capture_return_to
<1>2. here \in Parked /\ here.bounce = bounces + 1
  BY DEF Parked
<1>3. /\ visitor'[v].at = "login" /\ visitor'[v].own = own
      /\ visitor' \in [Visitors -> VisitorRecord]
      /\ \A w \in Visitors : w # v => visitor'[w] = visitor[w]
  <2> DEFINE r == [Away EXCEPT !.at = "login", !.own = own]
  <2>1. own \in Nat
    OBVIOUS
  <2> HIDE DEF own
  <2>2. r \in VisitorRecord /\ r.at = "login" /\ r.own = own
    BY <2>1, AwayFacts DEF VisitorRecord
  <2>3. visitor' = [visitor EXCEPT ![v] = r]
    BY <1>1
  <2> HIDE DEF r
  <2> QED BY <2>2, <2>3
<1> HIDE DEF here
<1>4. ReturnTyped'
  BY <1>1, <1>2, <1>3
<1>5. Fresher'
  <2>1. consumed \subseteq 1..bounces /\ bounces + 1 \notin consumed
    BY DEF Fresher
  <2>2. \A w \in Visitors : visitor'[w].at = "consuming" => w # v
    BY <1>3
  <2>3. parked'.bounce <= bounces' /\ parked'.bounce \notin consumed'
    BY <1>1, <1>2, <2>1 DEF Fresher, Parked
  <2>4. ASSUME NEW w \in Visitors, visitor'[w].at = "consuming"
        PROVE  /\ visitor'[w].read.bounce <= bounces'
               /\ visitor'[w].alone =>
                    /\ visitor'[w].read.bounce \notin consumed'
                    /\ \A x \in Visitors : visitor'[x].at = "consuming" => w = x
    BY <1>1, <1>3, <2>2, <2>4 DEF Fresher, VisitorRecord, Parked
  <2>5. consumed' \subseteq 1..bounces'
    BY <1>1, <2>1
  <2> QED BY <2>3, <2>4, <2>5 DEF Fresher
<1>6. OwnOK'
  BY <1>1, <1>2, <1>3 DEF OwnOK, NotOlder, VisitorRecord, Parked
<1> QED BY <1>1, <1>4, <1>5, <1>6

\* A tab goes to the login page by a link, or leaves it.
LEMMA LoginPageKeeps ==
  ASSUME ReturnOK, NEW v \in Visitors, GoToLogin(v) \/ Leave(v)
  PROVE  ReturnOK'
<1> USE DEF ReturnOK, ReturnTyped
<1> DEFINE next == visitor'[v]
<1>1. /\ visitor[v].at # "consuming"
      /\ visitor' \in [Visitors -> VisitorRecord]
      /\ \A w \in Visitors : w # v => visitor'[w] = visitor[w]
      /\ next.at # "consuming" /\ next.own = 0
      /\ UNCHANGED <<bounces, consumed, misled, twice>>
      /\ parked' = parked \/ parked' = NotParked
  <2> DEFINE r == [Away EXCEPT !.at = "login"]
  <2>1. GoToLogin(v) => visitor' = [visitor EXCEPT ![v] = r]
    BY DEF GoToLogin
  <2>2. r \in VisitorRecord /\ r.at = "login" /\ r.own = 0
    BY AwayFacts DEF VisitorRecord
  <2> HIDE DEF r
  <2>3. CASE GoToLogin(v)
    BY <2>1, <2>2, <2>3 DEF GoToLogin
  <2>4. CASE Leave(v)
    BY <2>4, AwayFacts DEF Leave
  <2> QED BY <2>3, <2>4
<1>2. parked' \in Parked /\ (parked'.bounce = 0 \/ parked' = parked)
  BY <1>1, AwayFacts
<1> HIDE DEF next
<1>3. Fresher'
  BY <1>1, <1>2 DEF Fresher, Parked, next
<1>4. OwnOK'
  BY <1>1, <1>2 DEF OwnOK, NotOlder, Parked, VisitorRecord, next
<1> QED BY <1>1, <1>2, <1>3, <1>4

\* A login reads the key.
LEMMA ConsumeGetKeeps ==
  ASSUME ReturnOK, NEW v \in Visitors, ConsumeGet(v)
  PROVE  ReturnOK'
<1> USE DEF ReturnOK, ReturnTyped
<1> DEFINE alone == \A w \in Visitors : visitor[w].at # "consuming"
           mine == [visitor[v] EXCEPT !.at = "consuming", !.read = parked,
                                      !.alone = alone]
<1>1. /\ visitor[v].at = "login"
      /\ visitor' = [w \in Visitors |->
           IF w = v THEN IF parked = NotParked THEN Away ELSE mine
           ELSE [visitor[w] EXCEPT !.alone = FALSE]]
      /\ UNCHANGED <<parked, bounces, consumed, misled, twice>>
  BY DEF ConsumeGet
<1>2. /\ mine \in VisitorRecord /\ mine.at = "consuming"
      /\ mine.read = parked /\ mine.alone = alone /\ mine.own = visitor[v].own
  <2> DEFINE flag == alone
  <2> HIDE DEF flag
  <2>1. flag \in BOOLEAN
    BY DEF flag
  <2>2. LET r == [visitor[v] EXCEPT !.at = "consuming", !.read = parked,
                                    !.alone = flag]
        IN /\ r \in VisitorRecord /\ r.at = "consuming"
           /\ r.read = parked /\ r.alone = flag /\ r.own = visitor[v].own
    BY <2>1 DEF VisitorRecord
  <2> QED BY <2>2 DEF flag
<1> HIDE DEF mine
<1>3. \A w \in Visitors : w # v =>
        /\ visitor'[w] \in VisitorRecord
        /\ visitor'[w].at = visitor[w].at /\ visitor'[w].own = visitor[w].own
        /\ visitor'[w].read = visitor[w].read /\ visitor'[w].alone = FALSE
  BY <1>1 DEF VisitorRecord
<1>4. visitor'[v] = Away \/ visitor'[v] = mine
  BY <1>1
<1>5. visitor' \in [Visitors -> VisitorRecord]
  BY <1>1, <1>2, <1>3, <1>4, AwayFacts
<1>6. Fresher'
  <2>1. ASSUME NEW w \in Visitors, visitor'[w].at = "consuming", w # v
        PROVE  visitor'[w].read.bounce <= bounces' /\ ~ visitor'[w].alone
    BY <1>1, <1>3, <2>1 DEF Fresher
  <2>2. ASSUME visitor'[v].at = "consuming"
        PROVE  /\ visitor'[v].read.bounce <= bounces'
               /\ visitor'[v].alone =>
                    /\ visitor'[v].read.bounce \notin consumed'
                    /\ \A x \in Visitors : visitor'[x].at = "consuming" => v = x
    <3>1. visitor'[v] = mine
      BY <1>4, <2>2, AwayFacts
    <3>2. visitor'[v].read = parked /\ (visitor'[v].alone => alone)
      BY <1>2, <3>1
    <3> HIDE DEF alone
    <3>3. alone => \A x \in Visitors : visitor'[x].at = "consuming" => v = x
      BY <1>3 DEF alone
    <3> QED BY <1>1, <3>2, <3>3 DEF Fresher
  <2> QED BY <1>1, <2>1, <2>2 DEF Fresher
<1>7. OwnOK'
  <2>1. ASSUME NEW w \in Visitors, w # v
        PROVE  /\ visitor'[w].own <= bounces'
               /\ visitor'[w].at = "login" => NotOlder(visitor'[w].own, parked')
               /\ visitor'[w].at = "consuming" =>
                    NotOlder(visitor'[w].own, visitor'[w].read)
    BY <1>1, <1>3, <2>1 DEF OwnOK
  <2>2. /\ visitor'[v].own <= bounces' /\ visitor'[v].at # "login"
        /\ visitor'[v].at = "consuming" =>
             NotOlder(visitor'[v].own, visitor'[v].read)
    BY <1>1, <1>2, <1>4, AwayFacts DEF OwnOK
  <2> QED BY <2>1, <2>2 DEF OwnOK
<1> QED BY <1>1, <1>5, <1>6, <1>7

\* A login removes the key and follows what it has read.
LEMMA ConsumeRemoveKeeps ==
  ASSUME ReturnOK, NEW v \in Visitors, ConsumeRemove(v)
  PROVE  ReturnOK'
<1> USE DEF ReturnOK, ReturnTyped
<1>1. /\ visitor[v].at = "consuming" /\ parked' = NotParked
      /\ visitor' = [visitor EXCEPT ![v] = Away]
      /\ consumed' = consumed \cup ({Destination(v)} \ {0})
      /\ twice' = (twice \/ (visitor[v].alone /\ Destination(v) \in consumed))
      /\ misled' = (misled \/ Destination(v) \in 1..(visitor[v].own - 1))
      /\ bounces' = bounces
  BY DEF ConsumeRemove, Returned
<1>2. /\ Destination(v) \in 0..bounces
      /\ Destination(v) # 0 => Destination(v) = visitor[v].read.bounce
  BY <1>1 DEF Destination, Fresher, VisitorRecord, Parked
<1>3. 0 \notin consumed
  BY DEF Fresher
<1>4. ~ (visitor[v].alone /\ Destination(v) \in consumed)
  BY <1>1, <1>2, <1>3 DEF Fresher
<1>5. Destination(v) \notin 1..(visitor[v].own - 1)
  BY <1>1, <1>2 DEF OwnOK, NotOlder, VisitorRecord, Parked
<1>6. ReturnTyped'
  BY <1>1, AwayFacts
<1>7. consumed' \subseteq 1..bounces /\ 0 \notin consumed'
  <2>1. consumed \subseteq 1..bounces
    BY DEF Fresher
  <2> HIDE DEF ReturnOK, ReturnTyped
  <2>2. {Destination(v)} \ {0} \subseteq 1..bounces
    BY <1>2
  <2> QED BY <1>1, <1>3, <2>1, <2>2
<1>8. \A w \in Visitors : visitor'[w].at = "consuming" =>
        w # v /\ visitor'[w] = visitor[w] /\ ~ visitor[w].alone
  BY <1>1, AwayFacts DEF Fresher
<1>9. Fresher'
  BY <1>1, <1>7, <1>8, AwayFacts DEF Fresher
<1>10. OwnOK'
  <2>1. NotParked.bounce = 0 /\ visitor'[v] = Away
    BY <1>1, AwayFacts
  <2> QED BY <1>1, <2>1, AwayFacts DEF OwnOK, NotOlder
<1> QED BY <1>1, <1>4, <1>5, <1>6, <1>9, <1>10

\* Every step of the tabs keeps their invariant.
LEMMA ReturnStep == ReturnOK /\ [ReturnNext]_returnVars => ReturnOK'
<1>1. ASSUME ReturnOK, UNCHANGED returnVars PROVE ReturnOK'
  BY <1>1 DEF returnVars, ReturnOK, ReturnTyped, Fresher, OwnOK, NotOlder
<1> QED BY <1>1, RedirectKeeps, LoginPageKeeps, ConsumeGetKeeps, ConsumeRemoveKeeps
        DEF ReturnNext

-----------------------------------------------------------------------------
\* The example applications: what their pages and functions have in common.

AppNames == {"sqlite_demo", "sqlx", "fullstack", "basic", "registration"}
Pages == {"home", "login", "dashboard", "register", "verify", "forgot", "reset"}
Statuses == {"Loading", "Authenticated", "Unauthenticated"}
Tags == {"ok", "none", "err", "lost"}

UiRecord ==
  [page : Pages, status : Statuses, submitting : BOOLEAN,
   metrics : {"none", "shown", "error"}, panicked : BOOLEAN]
ServerRecord ==
  [live : SUBSET Nat, issued : Nat, seeded : BOOLEAN, missing : {"none", "err"}]

\* Every application has its pages and a first status.
LEMMA RoutesAndStatus ==
  ASSUME app \in AppNames
  PROVE  /\ Routes \subseteq Pages /\ FirstStatus \in Statuses
         /\ app # "basic" => FirstStatus = "Loading"
BY DEF AppNames, Pages, Statuses, Routes, FirstStatus, SqliteDemo!Route, Sqlx!Route,
       Fullstack!Route, Basic!Route, Registration!Route, SqliteDemo!App, Sqlx!App,
       Fullstack!App, Basic!App, Registration!App

\* Only a page that renders the user without a gate around it can panic, and only
\* three applications have metrics.
LEMMA ViewFacts ==
  ASSUME app \in AppNames, NEW u \in UiRecord
  PROVE  /\ View(u) = "crash" =>
              /\ app \in {"sqlite_demo", "sqlx", "registration"}
              /\ u.page = "dashboard" /\ u.status # "Authenticated"
         /\ View(u) = "metrics" => app \in {"sqlite_demo", "sqlx", "fullstack"}
<1>1. u.page \in Pages /\ u.status \in Statuses
  BY DEF UiRecord
<1>2. CASE u.page = "dashboard"
  BY <1>1, <1>2 DEF AppNames, Statuses, View,
     SqliteDemo!Dashboard, SqliteDemo!Unwrapped, Sqlx!Dashboard, Sqlx!Unwrapped,
     Fullstack!ProtectedLayout, Fullstack!Dashboard, Fullstack!Unwrapped,
     Fullstack!require_auth, Basic!ProtectedLayout, Basic!Dashboard,
     Basic!Unwrapped, Basic!require_auth, Registration!Dashboard,
     Registration!Unwrapped
<1>3. CASE u.page # "dashboard"
  BY <1>1, <1>3 DEF AppNames, Pages, View, Basic!Login
<1> QED BY <1>2, <1>3

\* What a session is asked about, and what comes back.  The sqlx demo answers
\* every call with an error; it never has a session.
ServerTyped ==
  /\ srv \in ServerRecord /\ 0 \notin srv.live
  /\ app = "sqlx" => srv.live = {}
  /\ app \in {"fullstack", "registration"} => srv.missing = "none"

\* The restore probe tells a live session from none, or that it cannot.
LEMMA WhoamiReply ==
  ASSUME app \in AppNames \ {"basic"}, ServerTyped, NEW c, c.op = "whoami"
  PROVE  LET r == SessionReply(c) IN
         /\ r.srv = srv /\ r.set = Keep /\ r.tag \in {"ok", "none", "err"}
         /\ r.tag = "ok" => c.cookie \in srv.live
         /\ r.tag = "none" => c.cookie \notin srv.live
         /\ r.tag = "err" =>
              \/ app = "sqlx"
              \/ app = "sqlite_demo" /\ c.cookie \notin srv.live \cup {NoCookie}
BY DEF AppNames, ServerTyped, ServerRecord, NoCookie, Keep, SessionReply,
   SqliteDemo!current_user, SqliteDemo!current_user_from_request,
   SqliteDemo!find_session, SqliteDemo!Reply, SqliteDemo!Keep, SqliteDemo!NoCookie,
   Sqlx!current_user, Sqlx!get_server_state, Sqlx!Reply, Sqlx!Keep,
   Fullstack!current_user, Fullstack!current_user_from_request,
   Fullstack!find_session, Fullstack!Reply, Fullstack!Keep, Fullstack!NoCookie,
   Registration!current_user, Registration!current_user_from_request,
   Registration!find_session, Registration!Reply, Registration!Keep,
   Registration!NoCookie

\* A sign-in issues the next token or leaves everything as it is.
LEMMA LoginReply ==
  ASSUME app \in AppNames \ {"basic"}, ServerTyped, NEW c, c.op = "login"
  PROVE  LET r == SessionReply(c) IN
         \/ /\ r.srv = srv /\ r.set = Keep /\ r.tag = "err"
         \/ /\ r.srv = [srv EXCEPT !.issued = srv.issued + 1,
                                   !.live = @ \cup {srv.issued + 1}]
            /\ r.set = srv.issued + 1 /\ r.tag = "ok" /\ app # "sqlx"
BY DEF AppNames, ServerTyped, ServerRecord, Keep, SessionReply,
   SqliteDemo!login_server, SqliteDemo!login_cookie, SqliteDemo!Reply,
   SqliteDemo!Keep, Sqlx!login_server, Sqlx!get_server_state, Sqlx!Reply, Sqlx!Keep,
   Fullstack!login_server, Fullstack!login_cookie, Fullstack!Reply, Fullstack!Keep,
   Registration!login_server, Registration!login_cookie, Registration!Reply,
   Registration!Keep

\* A sign-out leaves the session of its cookie dead.
LEMMA LogoutReply ==
  ASSUME app \in AppNames \ {"basic"}, ServerTyped, NEW c, c.op = "log out"
  PROVE  LET r == SessionReply(c) IN
         /\ r.set \in {Keep, NoCookie} /\ r.tag \in {"ok", "err"}
         /\ \/ r.srv = srv /\ c.cookie \notin srv.live
            \/ r.srv = [srv EXCEPT !.live = @ \ {c.cookie}]
BY DEF AppNames, ServerTyped, ServerRecord, Keep, NoCookie, SessionReply,
   SqliteDemo!logout_server, SqliteDemo!logout_and_clear_cookie,
   SqliteDemo!find_session, SqliteDemo!Reply, SqliteDemo!Keep, SqliteDemo!NoCookie,
   Sqlx!logout_server, Sqlx!get_server_state, Sqlx!Reply, Sqlx!Keep,
   Fullstack!logout_server, Fullstack!logout_current,
   Fullstack!logout_and_clear_cookie, Fullstack!find_session, Fullstack!Reply,
   Fullstack!Keep, Fullstack!NoCookie,
   Registration!logout_server, Registration!logout_and_clear_cookie,
   Registration!find_session, Registration!Reply, Registration!Keep,
   Registration!NoCookie

\* The metrics change nothing on the server.
LEMMA MetricsReply ==
  ASSUME app \in {"sqlite_demo", "sqlx", "fullstack"}, NEW c, c.op = "metrics"
  PROVE  LET r == SessionReply(c) IN
         r.srv = srv /\ r.set = Keep /\ r.tag \in {"ok", "err"}
BY DEF Keep, SessionReply,
   SqliteDemo!get_secret_metrics, SqliteDemo!require_user_from_request,
   SqliteDemo!Reply, SqliteDemo!Keep,
   Sqlx!get_secret_metrics, Sqlx!get_server_state, Sqlx!Reply, Sqlx!Keep,
   Fullstack!get_secret_metrics, Fullstack!require_user_from_request,
   Fullstack!Reply, Fullstack!Keep

\* What awaits a reply: a sign-in that succeeded signs the tab in, a sign-out
\* signs it out whatever came back, anything else leaves a decided status alone.
LEMMA LoggedInFacts ==
  ASSUME app \in AppNames \ {"basic"}, ui \in UiRecord, NEW tag \in Tags
  PROVE  /\ LoggedIn(tag) \in UiRecord /\ LoggedIn(tag).panicked = ui.panicked
         /\ LoggedIn(tag).status = IF tag = "ok" THEN "Authenticated" ELSE ui.status
BY DEF AppNames, UiRecord, Pages, Statuses, LoggedIn,
   SqliteDemo!LogIn, SqliteDemo!Submitting, SqliteDemo!GoTo, SqliteDemo!SetUser,
   Sqlx!LogIn, Sqlx!Submitting, Sqlx!GoTo, Sqlx!SetUser,
   Fullstack!LogIn, Fullstack!Submitting, Fullstack!GoTo, Fullstack!SetUser,
   Registration!LogIn, Registration!GoTo, Registration!SetUser

\* A sign-out signs the tab out whatever the reply.
LEMMA LoggedOutFacts ==
  ASSUME app \in AppNames, ui \in UiRecord
  PROVE  /\ LoggedOut \in UiRecord /\ LoggedOut.panicked = ui.panicked
         /\ LoggedOut.status = "Unauthenticated"
BY DEF AppNames, UiRecord, Pages, Statuses, LoggedOut,
   SqliteDemo!LogOut, SqliteDemo!GoTo, SqliteDemo!SetLoggedOut,
   Sqlx!LogOut, Sqlx!GoTo, Sqlx!SetLoggedOut,
   Fullstack!LogOut, Fullstack!GoTo, Fullstack!SetLoggedOut,
   Basic!LogOut, Basic!SetLoggedOut,
   Registration!LogOut, Registration!GoTo, Registration!SetLoggedOut

\* What each kind of continuation makes of the page.
LEMMA ContinuedFacts ==
  ASSUME app \in AppNames \ {"basic"}, ui \in UiRecord, NEW c, c.tag \in Tags
  PROVE  LET u == Continued(c) IN
         /\ u \in UiRecord /\ u.panicked = ui.panicked
         /\ c.op = "login" =>
              u.status = IF c.tag = "ok" THEN "Authenticated" ELSE ui.status
         /\ c.op = "log out" => u.status = "Unauthenticated"
         /\ c.op = "whoami" =>
              u.status = IF ui.status # "Loading" THEN ui.status ELSE
                         CASE c.tag = "ok" -> "Authenticated"
                           [] c.tag = "none" -> "Unauthenticated"
                           [] OTHER -> ui.status
         /\ c.op \notin {"login", "log out", "whoami"} => u.status = ui.status
<1>1. CASE c.op = "whoami"
  BY <1>1 DEF Continued, Restored, UiRecord, Statuses
<1>2. CASE c.op = "login"
  BY <1>2, LoggedInFacts DEF Continued
<1>3. CASE c.op = "log out"
  BY <1>3, LoggedOutFacts DEF Continued
<1>4. CASE c.op = "metrics"
  BY <1>4 DEF Continued, UiRecord
<1>5. CASE c.op = "register"
  BY <1>5 DEF Continued, Registration!Registered, Registration!GoTo, UiRecord, Pages
<1>6. CASE c.op \notin {"whoami", "login", "log out", "metrics", "register"}
  BY <1>6 DEF Continued
<1> QED BY <1>1, <1>2, <1>3, <1>4, <1>5, <1>6

-----------------------------------------------------------------------------
\* The invariant of a tab.  Its parts take the page u and the calls cs, because a
\* continuation changes both before the page is rendered.

SetCookie == Nat \cup {Keep}
FormOps == {"register", "verify", "request reset", "reset"}
CallRecord ==
  [op : SessionOps \cup FormOps \cup {"none"},
   at : {"idle", "sent", "halfway", "served", "arrived", "done"},
   arg : Nat, cookie : Nat, tag : Tags \cup {""}, set : SetCookie,
   from : Pages \cup {"app", "gone"}]

\* What kind of call a slot holds; without a server there are none.
CallOK(s, c) ==
  /\ c \in CallRecord
  /\ c.op = "none" <=> c.at = "idle"
  /\ c.op # "none" =>
       /\ app # "basic"
       /\ s \notin Forms => c.op = s
       /\ s \in Forms => c.op \notin {"whoami", "metrics"}
  /\ c.op = "metrics" => app \in {"sqlite_demo", "sqlx", "fullstack"}
  /\ s = "whoami" => c.from = "app"
  /\ c.at = "halfway" => c.op \in {"register", "verify"}
  /\ c.at \in {"served", "arrived", "done"} => c.tag \in Tags
  /\ c.at = "done" => s \notin Forms
  /\ ~ Changing(c) => c.set = Keep
  /\ c.set # Keep => c.set <= srv.issued

CallsOK(cs) ==
  /\ cs = [s \in Slots |-> cs[s]]
  /\ \A s \in Slots : CallOK(s, cs[s])

\* Tokens are numbered as they are issued: none that is about is of a later login.
NumbersOK(cs) ==
  /\ srv.live \subseteq 1..srv.issued /\ jar <= srv.issued
  /\ \A s \in Slots : cs[s].cookie <= srv.issued

\* A probe that was answered decides the status, if nothing has before.
ProbeOK(u, cs) ==
  LET p == cs["whoami"] IN
  /\ p.at \in {"served", "arrived", "done"} /\ p.tag = "err" =>
       \/ app = "sqlx"
       \/ app = "sqlite_demo" /\ p.cookie \notin srv.live \cup {NoCookie}
  /\ ~ u.panicked /\ u.status = "Loading" /\ p.at = "done" => p.tag \in {"err", "lost"}

\* A sign-in or sign-out whose outcome the status is still to follow.
TookEffect(c) ==
  \/ c.op = "login" /\ c.at = "arrived" /\ c.tag = "ok"
  \/ c.op = "log out" /\ c.at \in {"served", "arrived"}

\* The state of an undisturbed one, call by call.
ChangeOK(c) ==
  /\ c.from # "gone"
  /\ c.op = "log out" /\ c.at = "sent" => c.cookie = jar
  /\ c.op = "log out" /\ c.at \in {"served", "arrived"} =>
       jar \notin srv.live /\ c.set \in {Keep, NoCookie}
  /\ c.op = "login" /\ c.at = "served" =>
       IF c.tag = "ok" THEN c.set \in srv.live ELSE c.set = Keep
  /\ c.op = "login" /\ c.at = "arrived" /\ c.tag = "ok" => jar \in srv.live

\* The status matches the jar, or the probe will make it match.
Steady(u, cs) ==
  LET p == cs["whoami"] IN
  IF u.status = "Loading"
  THEN /\ p.at = "sent" => p.cookie = jar
       /\ p.at \in {"served", "arrived"} =>
            /\ p.tag = "ok" => jar \in srv.live
            /\ p.tag = "none" => jar \notin srv.live
  ELSE u.status = "Authenticated" <=> jar \in srv.live

\* While nothing has disturbed them: one change at a time, and between changes
\* status and jar agree.
AgreeOK(u, cs) ==
  /\ \A f, g \in Forms : Changing(cs[f]) /\ Changing(cs[g]) => f = g
  /\ \A f \in Forms : Changing(cs[f]) => ChangeOK(cs[f])
  /\ ~ u.panicked /\ app # "basic" /\ (\A f \in Forms : ~ TookEffect(cs[f]))
       => Steady(u, cs)

TabOK(u, cs) ==
  /\ CallsOK(cs) /\ NumbersOK(cs) /\ ProbeOK(u, cs)
  /\ agreed => AgreeOK(u, cs)

\* A page panics only where it renders the user with no gate around it.
UngatedPanics ==
  ui.panicked =>
    /\ app \in {"sqlite_demo", "sqlx", "registration"}
    /\ ui.page = "dashboard" /\ ui.status # "Authenticated"

AppTyped ==
  /\ app \in AppNames /\ ui \in UiRecord /\ ServerTyped /\ jar \in Nat
  /\ agreed \in BOOLEAN
  /\ UngatedPanics

AppOK == AppTyped /\ TabOK(ui, calls)

\* The accounts of the registration demo: a token, or a call between its two steps,
\* is of one account, and only one of the three stands between it and verification.
Tables ==
  [users : SUBSET [id : Nat, email : {"admin", "visitor"}, verified : BOOLEAN],
   credentials : {{}},
   email_tokens : SUBSET [token : Nat, user : Nat, expired : BOOLEAN],
   reset_tokens : {{}},
   next : Nat \ {0}]

RegOK ==
  /\ reg \in Tables
  /\ \A u \in reg.users : u.id \in 0..(reg.next - 1)
  /\ \A x \in reg.email_tokens : x.token \in 1..(reg.next - 1) /\ x.user = x.token
  /\ \A x, y \in reg.email_tokens : x.token = y.token => x = y
  /\ \A s \in Slots : calls[s].at = "halfway" => calls[s].arg \in 1..(reg.next - 1)
  /\ \A s, o \in Slots : calls[s].at = "halfway" /\ calls[o].at = "halfway"
       /\ calls[s].arg = calls[o].arg => s = o
  /\ \A s \in Slots, x \in reg.email_tokens :
       calls[s].at = "halfway" => calls[s].arg # x.token
  /\ \A s \in Slots, u \in reg.users :
       calls[s].at = "halfway" /\ calls[s].op = "register" /\ calls[s].arg = u.id
         => ~ u.verified
  /\ VerifiedByOwnToken

-----------------------------------------------------------------------------
\* Calls: none, sent, left behind.

\* The slots of the probe, the metrics and the two forms.
LEMMA SlotFacts == /\ "whoami" \in Slots /\ "metrics" \in Slots /\ Forms \subseteq Slots
                   /\ "whoami" \notin Forms /\ "metrics" \notin Forms
                   /\ "whoami" # "metrics"
BY DEF Slots, Forms

\* A slot with no call.
LEMMA IdleFacts ==
  /\ Idle \in CallRecord /\ Idle.op = "none" /\ Idle.at = "idle" /\ Idle.cookie = 0
  /\ Idle.set = Keep /\ Idle.from = "app" /\ ~ Changing(Idle)
  /\ \A s \in Slots : CallOK(s, Idle)
BY DEF Idle, CallRecord, SetCookie, NoCookie, Changing, CallOK

\* A call that was just sent, with the cookie of that moment.
LEMMA SentFacts ==
  ASSUME jar \in Nat, NEW op \in SessionOps \cup FormOps, NEW arg \in Nat,
         NEW from \in Pages \cup {"app"}
  PROVE  LET c == Sent(op, arg, from) IN
         /\ c \in CallRecord /\ c.op = op /\ c.at = "sent" /\ c.arg = arg
         /\ c.cookie = jar /\ c.set = Keep /\ c.from = from
BY DEF Sent, Idle, CallRecord, SetCookie, NoCookie

\* A call whose component is gone is otherwise as it was.
LEMMA GoneFacts ==
  ASSUME NEW c \in CallRecord
  PROVE  LET g == [c EXCEPT !.from = "gone"] IN
         /\ g \in CallRecord /\ g.op = c.op /\ g.at = c.at /\ g.arg = c.arg
         /\ g.cookie = c.cookie /\ g.tag = c.tag /\ g.set = c.set
BY DEF CallRecord

\* What rendering does to the calls and to the page.
LEMMA RenderFacts ==
  ASSUME NEW u \in UiRecord, NEW cs, NEW was, Render(u, cs, was)
  PROVE  /\ ui' \in UiRecord /\ ui'.page = u.page /\ ui'.status = u.status
         /\ ui'.panicked = (View(u) = "crash")
         /\ calls' = [s \in Slots |-> calls'[s]]
         /\ \A s \in Slots \ {"metrics"} :
              \/ calls'[s] = cs[s]
              \/ cs[s].from # "app" /\ calls'[s] = [cs[s] EXCEPT !.from = "gone"]
         /\ \/ calls'["metrics"] = Idle
            \/ calls'["metrics"] = cs["metrics"]
            \/ View(u) = "metrics" /\ calls'["metrics"] = Sent("metrics", 0, u.page)
         /\ agreed' =>
              agreed /\ \A f \in Forms : Changing(cs[f]) => calls'[f] = cs[f]
<1> DEFINE view == View(u)
           crash == view = "crash"
           still == u.submitting /\ u.page = "login"
           shown == IF view # "metrics" \/ (view = "metrics" /\ was # "metrics")
                    THEN "none" ELSE u.metrics
           here(c) == IF c.from \in {u.page, "app"} THEN c ELSE [c EXCEPT !.from = "gone"]
           slot(s) ==
             CASE s = "metrics" -> IF view = "metrics" /\ was # "metrics"
                                   THEN Sent("metrics", 0, u.page)
                                   ELSE IF view # "metrics" THEN Idle ELSE cs[s]
               [] OTHER -> here(cs[s])
<1>1. /\ ui' = [u EXCEPT !.panicked = crash, !.submitting = still, !.metrics = shown]
      /\ calls' = [s \in Slots |-> slot(s)]
      /\ agreed' = (agreed /\ \A f \in Forms : Changing(cs[f]) => here(cs[f]) = cs[f])
  BY DEF Render
<1>2. crash \in BOOLEAN /\ still \in BOOLEAN /\ shown \in {"none", "shown", "error"}
  BY DEF UiRecord
<1> HIDE DEF crash, still, shown
<1>3. /\ ui' \in UiRecord /\ ui'.page = u.page /\ ui'.status = u.status
      /\ ui'.panicked = crash
  BY <1>1, <1>2 DEF UiRecord
<1>4. \A s \in Slots : calls'[s] = slot(s)
  BY <1>1
<1>5. \A s \in Slots \ {"metrics"} : calls'[s] = here(cs[s])
  BY <1>4
<1>6. \/ calls'["metrics"] = Idle
      \/ calls'["metrics"] = cs["metrics"]
      \/ view = "metrics" /\ calls'["metrics"] = Sent("metrics", 0, u.page)
  BY <1>4, SlotFacts
<1>7. calls' = [s \in Slots |-> calls'[s]]
  BY <1>1
<1>8. \A f \in Forms : calls'[f] = here(cs[f])
  BY <1>5, SlotFacts
<1> QED BY <1>1, <1>3, <1>5, <1>6, <1>7, <1>8 DEF crash

\* Rendering keeps the invariant: what holds of the page and the calls it is
\* given holds of what it leaves.
LEMMA RenderKeeps ==
  ASSUME AppTyped, NEW u \in UiRecord, ~ u.panicked, NEW cs, TabOK(u, cs),
         NEW was, Render(u, cs, was), UNCHANGED <<app, srv, jar>>
  PROVE  AppOK'
<1> USE SlotFacts
<1>1. /\ ui' \in UiRecord /\ ui'.page = u.page /\ ui'.status = u.status
      /\ ui'.panicked = (View(u) = "crash")
  BY RenderFacts
<1>2. \A s \in Slots \ {"metrics"} :
        \/ calls'[s] = cs[s]
        \/ cs[s].from # "app" /\ calls'[s] = [cs[s] EXCEPT !.from = "gone"]
  BY RenderFacts
<1>3. \/ calls'["metrics"] = Idle
      \/ calls'["metrics"] = cs["metrics"]
      \/ View(u) = "metrics" /\ calls'["metrics"] = Sent("metrics", 0, u.page)
  BY RenderFacts
<1>4. agreed' => agreed /\ \A f \in Forms : Changing(cs[f]) => calls'[f] = cs[f]
  BY RenderFacts
<1>5. calls' = [s \in Slots |-> calls'[s]]
  BY RenderFacts
<1>6. app \in AppNames /\ jar \in Nat /\ UNCHANGED <<app, srv, jar>>
  BY DEF AppTyped
<1>7. \A s \in Slots : CallOK(s, cs[s]) /\ cs[s] \in CallRecord
  BY DEF TabOK, CallsOK, CallOK
<1>8. \A s \in Slots \ {"metrics"} :
        /\ calls'[s] \in CallRecord
        /\ calls'[s].op = cs[s].op /\ calls'[s].at = cs[s].at
        /\ calls'[s].tag = cs[s].tag /\ calls'[s].set = cs[s].set
        /\ calls'[s].cookie = cs[s].cookie
        /\ cs[s].from = "app" => calls'[s] = cs[s]
  BY <1>2, <1>7, GoneFacts
<1>9. AppTyped'
  <2>1. UngatedPanics'
    BY <1>1, <1>6, ViewFacts DEF UngatedPanics
  <2>2. agreed' \in BOOLEAN
    BY DEF Render
  <2> QED BY <1>1, <1>6, <2>1, <2>2 DEF AppTyped, ServerTyped
<1>10. CallsOK(calls)'
  <2>1. ASSUME NEW s \in Slots \ {"metrics"} PROVE CallOK(s, calls[s])'
    <3>1. CASE calls'[s] = cs[s]
      BY <1>6, <1>7, <3>1 DEF CallOK, Changing
    <3>2. CASE calls'[s] # cs[s]
      <4> DEFINE c == cs[s]
                 g == calls'[s]
      <4>1. CallOK(s, c)
        BY <1>7
      <4>2. /\ g \in CallRecord /\ g.op = c.op /\ g.at = c.at /\ g.tag = c.tag
            /\ g.set = c.set /\ c.from # "app"
        BY <1>2, <1>8, <3>2
      <4> HIDE DEF c, g
      <4>3. CallOK(s, g)
        BY <4>1, <4>2 DEF CallOK, Changing
      <4> QED BY <1>6, <4>3 DEF CallOK, Changing, g
    <3> QED BY <3>1, <3>2
  <2>2. CallOK("metrics", calls["metrics"])'
    <3>1. CASE calls'["metrics"] = Idle
      BY <1>6, <3>1, IdleFacts DEF CallOK
    <3>2. CASE calls'["metrics"] = cs["metrics"]
      BY <1>6, <1>7, <3>2 DEF CallOK, Changing
    <3>3. CASE View(u) = "metrics" /\ calls'["metrics"] = Sent("metrics", 0, u.page)
      <4>1. app \in {"sqlite_demo", "sqlx", "fullstack"}
        BY <1>6, <3>3, ViewFacts
      <4>2. u.page \in Pages
        BY DEF UiRecord
      <4>3. LET c == Sent("metrics", 0, u.page) IN
            c \in CallRecord /\ c.op = "metrics" /\ c.at = "sent" /\ c.set = Keep
        <5>1. "metrics" \in SessionOps \cup FormOps /\ 0 \in Nat
          BY DEF SessionOps
        <5>2. u.page \in Pages \cup {"app"}
          BY <4>2
        <5> QED BY ONLY <1>6, <5>1, <5>2, SentFacts
      <4> QED BY <1>6, <3>3, <4>1, <4>3 DEF CallOK
    <3> QED BY <1>3, <3>1, <3>2, <3>3
  <2> QED BY <1>5, <2>1, <2>2 DEF CallsOK
<1>11. NumbersOK(calls)'
  <2>1. calls'["metrics"].cookie = cs["metrics"].cookie \/ calls'["metrics"].cookie = 0
        \/ calls'["metrics"].cookie = jar
    <3>1. Sent("metrics", 0, u.page).cookie = jar
      BY DEF Sent, Idle
    <3> QED BY <1>3, <3>1, IdleFacts
  <2>2. srv.issued \in Nat
    BY DEF AppTyped, ServerTyped, ServerRecord
  <2> QED BY <1>6, <1>8, <2>1, <2>2 DEF TabOK, NumbersOK
<1>12. calls'["whoami"] = cs["whoami"]
  BY <1>2, <1>7 DEF CallOK
<1>13. ProbeOK(ui, calls)'
  BY <1>1, <1>6, <1>12 DEF TabOK, ProbeOK
<1>14. ASSUME agreed' PROVE AgreeOK(ui, calls)'
  <2>1. AgreeOK(u, cs) /\ \A f \in Forms : Changing(cs[f]) => calls'[f] = cs[f]
    BY <1>4, <1>14 DEF TabOK
  <2>2. \A f \in Forms : Changing(calls'[f]) <=> Changing(cs[f])
    BY <1>8 DEF Changing
  <2>3. \A f \in Forms : Changing(calls'[f]) => calls'[f] = cs[f]
    BY <2>1, <2>2
  <2>4. \A f \in Forms : TookEffect(calls'[f]) <=> TookEffect(cs[f])
    BY <2>2, <2>3 DEF TookEffect, Changing
  <2>5. \A f, g \in Forms : Changing(calls'[f]) /\ Changing(calls'[g]) => f = g
    BY <2>1, <2>2 DEF AgreeOK
  <2>6. \A f \in Forms : Changing(calls'[f]) => ChangeOK(calls[f])'
    BY <1>6, <2>1, <2>2, <2>3 DEF AgreeOK, ChangeOK
  <2>7. Steady(u, cs) => Steady(ui, calls)'
    BY <1>1, <1>6, <1>12 DEF Steady
  <2>8. ~ ui'.panicked /\ app' # "basic" /\ (\A f \in Forms : ~ TookEffect(calls'[f]))
          => Steady(ui, calls)'
    BY <1>6, <2>1, <2>4, <2>7 DEF AgreeOK
  <2> QED BY <2>5, <2>6, <2>8 DEF AgreeOK, Changing, TookEffect
<1> QED BY <1>9, <1>10, <1>11, <1>13, <1>14 DEF AppOK, TabOK

\* An entry of the address bar, or the first load: everything starts again.
LEMMA FreshFacts ==
  ASSUME app \in AppNames, NEW p \in Pages
  PROVE  LET u == [Fresh(p) EXCEPT !.panicked = (View(Fresh(p)) = "crash")] IN
         /\ Fresh(p) \in UiRecord /\ u \in UiRecord
         /\ u.page = p /\ u.status = FirstStatus
         /\ Fresh(p).page = p /\ Fresh(p).status = FirstStatus
         /\ u.panicked = (View(Fresh(p)) = "crash")
<1> DEFINE crash == View(Fresh(p)) = "crash"
<1>1. Fresh(p) \in UiRecord /\ Fresh(p).page = p /\ Fresh(p).status = FirstStatus
  BY RoutesAndStatus DEF Fresh, UiRecord
<1>2. crash \in BOOLEAN
  OBVIOUS
<1> HIDE DEF crash
<1>3. LET u == [Fresh(p) EXCEPT !.panicked = crash] IN
      /\ u \in UiRecord /\ u.page = p /\ u.status = FirstStatus /\ u.panicked = crash
  BY <1>1, <1>2 DEF UiRecord
<1> QED BY <1>1, <1>3 DEF crash

\* The calls a page starts with.
LEMMA FreshCalls ==
  ASSUME app \in AppNames, jar \in Nat, NEW p \in Pages
  PROVE  LET m == IF View(Fresh(p)) = "metrics" THEN Sent("metrics", 0, p) ELSE Idle IN
         /\ CallOK("whoami", Probing) /\ CallOK("metrics", m)
         /\ Probing.cookie \in {0, jar} /\ m.cookie \in {0, jar}
         /\ Probing.at \in {"idle", "sent"}
         /\ Probing.at = "sent" => Probing.cookie = jar
<1> USE SlotFacts
<1>1. "whoami" \in SessionOps \cup FormOps /\ "metrics" \in SessionOps \cup FormOps
      /\ 0 \in Nat
  BY DEF SessionOps
<1>2. LET c == Sent("whoami", 0, "app") IN
      /\ c \in CallRecord /\ c.op = "whoami" /\ c.at = "sent"
      /\ c.cookie = jar /\ c.set = Keep /\ c.from = "app"
  BY <1>1, SentFacts
<1>3. LET c == Sent("metrics", 0, p) IN
      /\ c \in CallRecord /\ c.op = "metrics" /\ c.at = "sent"
      /\ c.cookie = jar /\ c.set = Keep
  BY ONLY jar \in Nat, p \in Pages, <1>1, SentFacts
<1>4. View(Fresh(p)) = "metrics" => app \in {"sqlite_demo", "sqlx", "fullstack"}
  BY FreshFacts, ViewFacts
<1> QED BY <1>2, <1>3, <1>4, IdleFacts DEF CallOK, Probing

\* A page is loaded again: calls go on, their continuations do not.
LEMMA ReloadKeeps ==
  ASSUME AppOK, NEW p \in Routes, ReloadPage(p)
  PROVE  AppOK'
<1> USE SlotFacts
<1> DEFINE view == View(Fresh(p))
           m == IF view = "metrics" THEN Sent("metrics", 0, p) ELSE Idle
           u == [Fresh(p) EXCEPT !.panicked = (view = "crash")]
<1>1. app \in AppNames /\ p \in Pages /\ jar \in Nat /\ UNCHANGED <<app, srv, jar>>
  BY RoutesAndStatus DEF AppOK, AppTyped, ReloadPage
<1>2. ui' = u /\ agreed' = Settled
  BY DEF ReloadPage
<1>3. /\ calls' = [s \in Slots |-> calls'[s]]
      /\ calls'["whoami"] = Probing /\ calls'["metrics"] = m
      /\ \A f \in Forms :
           calls'[f] = IF calls[f] = Idle THEN Idle ELSE [calls[f] EXCEPT !.from = "gone"]
  <2> DEFINE slot(s) ==
        CASE s = "whoami" -> Probing
          [] s = "metrics" -> m
          [] OTHER -> IF calls[s] = Idle THEN Idle ELSE [calls[s] EXCEPT !.from = "gone"]
  <2>1. calls' = [s \in Slots |-> slot(s)]
    BY DEF ReloadPage
  <2> HIDE DEF m
  <2> QED BY <2>1
<1>4. \A s \in Slots : CallOK(s, calls[s]) /\ calls[s] \in CallRecord
  BY DEF AppOK, TabOK, CallsOK, CallOK
<1>5. /\ ui' \in UiRecord /\ ui'.page = p /\ ui'.status = FirstStatus
      /\ ui'.panicked = (view = "crash") /\ Fresh(p) \in UiRecord
      /\ Fresh(p).page = p /\ Fresh(p).status = FirstStatus
  BY <1>1, <1>2, FreshFacts
<1>6. \A f \in Forms :
        /\ calls'[f] \in CallRecord
        /\ calls'[f].op = calls[f].op /\ calls'[f].at = calls[f].at
        /\ calls'[f].tag = calls[f].tag /\ calls'[f].set = calls[f].set
        /\ calls'[f].cookie = calls[f].cookie
  <2> TAKE f \in Forms
  <2>1. calls[f] \in CallRecord
    BY <1>4
  <2>2. calls'[f] = calls[f] \/ calls'[f] = [calls[f] EXCEPT !.from = "gone"]
    BY <1>3
  <2> QED BY ONLY <2>1, <2>2, GoneFacts
<1> HIDE DEF view
<1>7. AppTyped'
  <2>1. UngatedPanics'
    BY <1>1, <1>5, ViewFacts DEF UngatedPanics, view
  <2>2. agreed' \in BOOLEAN
    BY <1>2 DEF Settled
  <2> QED BY <1>1, <1>5, <2>1, <2>2 DEF AppOK, AppTyped, ServerTyped
<1>8. /\ CallOK("whoami", Probing) /\ CallOK("metrics", m)
      /\ Probing.cookie \in {0, jar} /\ m.cookie \in {0, jar}
      /\ Probing.at \in {"idle", "sent"}
      /\ Probing.at = "sent" => Probing.cookie = jar
  BY <1>1, FreshCalls DEF view
<1> HIDE DEF m, u
<1>9. CallsOK(calls)'
  <2>1. ASSUME NEW f \in Forms PROVE CallOK(f, calls[f])'
    <3> DEFINE c == calls[f]
               g == calls'[f]
    <3>1. /\ CallOK(f, c) /\ f # "whoami"
          /\ g \in CallRecord /\ g.op = c.op /\ g.at = c.at /\ g.tag = c.tag
          /\ g.set = c.set
      BY <1>4, <1>6
    <3> HIDE DEF c, g
    <3>2. CallOK(f, g)
      BY <3>1 DEF CallOK, Changing
    <3> QED BY <1>1, <3>2 DEF CallOK, Changing, g
  <2>2. CallOK("whoami", calls["whoami"])' /\ CallOK("metrics", calls["metrics"])'
    BY <1>1, <1>3, <1>8 DEF CallOK, Changing
  <2>3. \A s \in Slots : CallOK(s, calls[s])'
    BY <2>1, <2>2 DEF Slots
  <2> QED BY <1>3, <2>3 DEF CallsOK
<1>10. NumbersOK(calls)'
  <2>1. srv.issued \in Nat /\ NumbersOK(calls)
    BY DEF AppOK, TabOK, AppTyped, ServerTyped, ServerRecord
  <2>2. \A s \in Slots : calls'[s].cookie <= srv.issued
    BY <1>1, <1>3, <1>6, <1>8, <2>1 DEF NumbersOK, Slots
  <2> QED BY <1>1, <2>1, <2>2 DEF NumbersOK
<1>11. ProbeOK(ui, calls)'
  BY <1>3, <1>8 DEF ProbeOK
<1>12. ASSUME agreed' PROVE AgreeOK(ui, calls)'
  <2>1. \A f \in Forms : ~ Changing(calls'[f])
    BY <1>2, <1>6, <1>12 DEF Settled, Changing
  <2>2. app # "basic" => Steady(ui, calls)'
    <3> SUFFICES ASSUME app # "basic" PROVE Steady(ui, calls)'
      OBVIOUS
    <3>1. ui'.status = "Loading"
      BY <1>1, <1>5, RoutesAndStatus
    <3> QED BY <1>1, <1>3, <1>8, <3>1 DEF Steady
  <2> QED BY <1>1, <2>1, <2>2 DEF AgreeOK, Changing
<1> QED BY <1>7, <1>9, <1>10, <1>11, <1>12 DEF AppOK, TabOK

\* The first load.
LEMMA AppBegins ==
  ASSUME app \in AppNames, AppInit
  PROVE  AppOK
<1> USE SlotFacts
<1>1. PICK p \in Routes :
        LET u == Fresh(p)   view == View(u) IN
        /\ ui = [u EXCEPT !.panicked = (view = "crash")]
        /\ calls = [s \in Slots |->
             IF s = "whoami" THEN Probing
             ELSE IF s = "metrics" /\ view = "metrics" THEN Sent("metrics", 0, p) ELSE Idle]
  BY DEF AppInit
<1> DEFINE view == View(Fresh(p))
           m == IF view = "metrics" THEN Sent("metrics", 0, p) ELSE Idle
<1>2. jar = 0 /\ jar \in Nat /\ p \in Pages /\ agreed = TRUE /\ srv = FirstServer
  BY RoutesAndStatus DEF AppInit, NoCookie
<1>3. ServerTyped /\ srv.live = {} /\ srv.issued = 0
  BY <1>2 DEF AppNames, ServerTyped, ServerRecord, FirstServer, Server,
     SqliteDemo!SERVER_STATE, SqliteDemo!Server, Sqlx!SERVER_STATE, Sqlx!Server,
     Fullstack!SERVER_STATE, Fullstack!Server, Registration!init_server_state,
     Registration!Server
<1>4. /\ ui \in UiRecord /\ ui.page = p /\ ui.status = FirstStatus
      /\ ui.panicked = (view = "crash") /\ Fresh(p) \in UiRecord
      /\ Fresh(p).page = p /\ Fresh(p).status = FirstStatus
  BY <1>1, <1>2, FreshFacts
<1>5. /\ calls = [s \in Slots |-> calls[s]]
      /\ calls["whoami"] = Probing /\ calls["metrics"] = m
      /\ \A f \in Forms : calls[f] = Idle
  BY <1>1
<1> HIDE DEF view
<1>6. AppTyped
  <2>1. UngatedPanics
    BY <1>4, ViewFacts DEF UngatedPanics, view
  <2> QED BY <1>2, <1>3, <1>4, <2>1 DEF AppTyped
<1>7. /\ CallOK("whoami", Probing) /\ CallOK("metrics", m)
      /\ Probing.cookie \in {0, jar} /\ m.cookie \in {0, jar}
      /\ Probing.at \in {"idle", "sent"}
      /\ Probing.at = "sent" => Probing.cookie = jar
  BY <1>2, FreshCalls DEF view
<1> HIDE DEF m
<1>8. CallsOK(calls)
  <2>1. \A s \in Slots : CallOK(s, calls[s])
    BY <1>5, <1>7, IdleFacts DEF Slots
  <2> QED BY <1>5, <2>1 DEF CallsOK
<1>9. NumbersOK(calls)
  BY <1>2, <1>3, <1>5, <1>7, IdleFacts DEF NumbersOK, Slots
<1>10. ProbeOK(ui, calls)
  BY <1>5, <1>7 DEF ProbeOK
<1>11. AgreeOK(ui, calls)
  <2>1. \A f \in Forms : ~ Changing(calls[f])
    BY <1>5, IdleFacts
  <2>2. app # "basic" => ui.status = "Loading"
    BY <1>4, RoutesAndStatus
  <2> QED BY <1>5, <1>7, <2>1, <2>2 DEF AgreeOK, Steady
<1> QED BY <1>6, <1>8, <1>9, <1>10, <1>11 DEF AppOK, TabOK

-----------------------------------------------------------------------------
\* Steps that leave server and cookie alone.

\* What the invariant says of the variables one by one.
LEMMA CallsAreOK ==
  ASSUME AppOK
  PROVE  /\ app \in AppNames /\ ui \in UiRecord /\ jar \in Nat
         /\ srv \in ServerRecord /\ agreed \in BOOLEAN
         /\ calls = [s \in Slots |-> calls[s]]
         /\ \A s \in Slots : CallOK(s, calls[s]) /\ calls[s] \in CallRecord
BY DEF AppOK, AppTyped, ServerTyped, TabOK, CallsOK, CallOK

\* What was shown of a page and its calls still holds when they are what is there.
LEMMA Carry ==
  ASSUME AppTyped, TabOK(ui', calls'), ui' \in UiRecord, agreed' => agreed,
         agreed' \in BOOLEAN, UngatedPanics', UNCHANGED <<app, srv, jar>>
  PROVE  AppOK'
<1>1. AppTyped'
  BY DEF AppTyped, ServerTyped
<1>2. CallsOK(calls)'
  BY DEF TabOK, CallsOK, CallOK, Changing
<1>3. NumbersOK(calls)' /\ ProbeOK(ui, calls)'
  BY DEF TabOK, NumbersOK, ProbeOK
<1>4. agreed' => AgreeOK(ui, calls)'
  BY DEF TabOK, AgreeOK, ChangeOK, TookEffect, Steady, Changing
<1> QED BY <1>1, <1>2, <1>3, <1>4 DEF AppOK, TabOK

\* A call that neither signs in or out nor is the probe.
LEMMA QuietCall ==
  ASSUME AppOK, NEW s \in Slots \ {"whoami"}, NEW d, CallOK(s, d),
         ~ Changing(calls[s]), ~ Changing(d), d.cookie <= srv.issued,
         NEW u, u.status = ui.status, u.panicked = ui.panicked
  PROVE  TabOK(u, [calls EXCEPT ![s] = d])
<1> DEFINE cs == [calls EXCEPT ![s] = d]
<1>1. /\ cs = [t \in Slots |-> cs[t]] /\ cs[s] = d
      /\ \A t \in Slots \ {s} : cs[t] = calls[t]
  BY CallsAreOK
<1> HIDE DEF cs
<1>2. CallsOK(cs)
  BY <1>1, CallsAreOK DEF CallsOK
<1>3. NumbersOK(cs)
  BY <1>1 DEF AppOK, TabOK, NumbersOK
<1>4. cs["whoami"] = calls["whoami"]
  BY <1>1, SlotFacts
<1>5. ProbeOK(u, cs)
  BY <1>4 DEF AppOK, TabOK, ProbeOK
<1>6. ASSUME agreed PROVE AgreeOK(u, cs)
  <2>1. AgreeOK(ui, calls)
    BY <1>6 DEF AppOK, TabOK
  <2>2. \A f \in Forms : Changing(cs[f]) => f # s /\ cs[f] = calls[f]
    BY <1>1, SlotFacts
  <2>3. ~ TookEffect(d) /\ ~ TookEffect(calls[s])
    BY DEF TookEffect, Changing
  <2>4. \A f \in Forms : TookEffect(cs[f]) <=> TookEffect(calls[f])
    BY <1>1, <2>3, SlotFacts
  <2>5. Steady(ui, calls) => Steady(u, cs)
    BY <1>4 DEF Steady
  <2>6. \A f, g \in Forms : Changing(cs[f]) /\ Changing(cs[g]) => f = g
    BY <2>1, <2>2 DEF AgreeOK
  <2>7. \A f \in Forms : Changing(cs[f]) => ChangeOK(cs[f])
    BY <2>1, <2>2 DEF AgreeOK
  <2>8. ~ u.panicked /\ app # "basic" /\ (\A f \in Forms : ~ TookEffect(cs[f]))
          => Steady(u, cs)
    BY <2>1, <2>4, <2>5 DEF AgreeOK
  <2> QED BY <2>6, <2>7, <2>8 DEF AgreeOK
<1> QED BY <1>2, <1>3, <1>5, <1>6 DEF TabOK, cs

\* Links, the gate's redirect, and the buttons of the demo without a server.
LEMMA SamePage ==
  ASSUME NEW cs, TabOK(ui, cs), NEW u, u.status = ui.status, u.panicked = ui.panicked
  PROVE  TabOK(u, cs)
BY DEF TabOK, ProbeOK, AgreeOK, Steady

\* A link is followed.
LEMMA FollowKeeps ==
  ASSUME AppOK, NEW p \in Routes, Follow(p)
  PROVE  AppOK'
<1>1. p \in Pages /\ ui \in UiRecord /\ ~ ui.panicked
  BY CallsAreOK, RoutesAndStatus DEF Follow, Alive
<1> DEFINE u == GoTo(ui, p)
<1>2. u \in UiRecord /\ u.status = ui.status /\ u.panicked = ui.panicked
  BY <1>1 DEF GoTo, UiRecord
<1>3. Render(u, calls, View(ui)) /\ UNCHANGED <<app, srv, jar>>
  BY DEF Follow
<1> HIDE DEF u
<1>4. AppTyped /\ TabOK(u, calls)
  BY <1>2, SamePage DEF AppOK
<1> QED BY <1>1, <1>2, <1>3, <1>4, RenderKeeps

\* A gate redirects.
LEMMA GateKeeps == ASSUME AppOK, GateRedirects PROVE AppOK'
<1>1. ui \in UiRecord /\ ~ ui.panicked
  BY CallsAreOK DEF GateRedirects, Alive
<1> DEFINE p == IF ui.page = "login" THEN "dashboard" ELSE "login"
           u == GoTo(ui, p)
<1>2. u \in UiRecord /\ u.status = ui.status /\ u.panicked = ui.panicked
  BY <1>1 DEF GoTo, UiRecord, Pages
<1>3. Render(u, calls, View(ui)) /\ UNCHANGED <<app, srv, jar>>
  BY DEF GateRedirects
<1> HIDE DEF u
<1>4. AppTyped /\ TabOK(u, calls)
  BY <1>2, SamePage DEF AppOK
<1> QED BY <1>1, <1>2, <1>3, <1>4, RenderKeeps

\* The demo without a server signs in or out.
LEMMA HereKeeps == ASSUME AppOK, SignInHere \/ SignOutHere PROVE AppOK'
<1>1. app = "basic" /\ ui \in UiRecord /\ ~ ui.panicked
  BY CallsAreOK DEF AppOK, AppTyped, UngatedPanics, SignInHere, SignOutHere
<1>2. UNCHANGED <<app, srv, jar>> /\ AppTyped
  BY DEF SignInHere, SignOutHere, AppOK
<1>3. ASSUME NEW u \in UiRecord, ~ u.panicked PROVE TabOK(u, calls)
  <2>1. calls["whoami"].at = "idle"
    BY <1>1, CallsAreOK, SlotFacts DEF CallOK
  <2> QED BY <1>1, <2>1 DEF AppOK, TabOK, ProbeOK, AgreeOK
<1>4. CASE SignInHere
  <2> DEFINE u == Basic!LogIn(ui)
  <2>1. u \in UiRecord /\ ~ u.panicked
    BY <1>1 DEF Basic!LogIn, Basic!SetUser, UiRecord, Statuses
  <2>2. Render(u, calls, View(ui))
    BY <1>4 DEF SignInHere
  <2> HIDE DEF u
  <2> QED BY <1>2, <1>3, <2>1, <2>2, RenderKeeps
<1>5. CASE SignOutHere
  <2>1. LoggedOut \in UiRecord /\ ~ LoggedOut.panicked
    BY <1>1, LoggedOutFacts DEF AppNames
  <2>2. Render(LoggedOut, calls, View(ui))
    BY <1>5 DEF SignOutHere
  <2> QED BY <1>2, <1>3, <2>1, <2>2, RenderKeeps
<1> QED BY <1>4, <1>5

\* Forms and the log-out button.
LEMMA BeginKeeps ==
  ASSUME AppOK, NEW f \in Forms, NEW op \in (SessionOps \cup FormOps) \ {"whoami", "metrics"},
         app # "basic", NEW arg \in Nat, NEW from \in Pages \cup {"app"},
         Begin(f, op, arg, from),
         ui' \in UiRecord, ui'.page = ui.page, ui'.status = ui.status,
         ui'.panicked = ui.panicked
  PROVE  AppOK'
<1> USE SlotFacts
<1> DEFINE d == Sent(op, arg, from)
<1>1. /\ calls[f] = Idle /\ calls' = [calls EXCEPT ![f] = d]
      /\ agreed' = (agreed /\ (op \in {"login", "log out"} => Settled))
      /\ UNCHANGED <<app, jar, srv>>
  BY DEF Begin
<1>2. /\ d \in CallRecord /\ d.op = op /\ d.at = "sent" /\ d.cookie = jar
      /\ d.set = Keep /\ d.from = from
  BY ONLY CallsAreOK, AppOK, SentFacts, arg \in Nat, from \in Pages \cup {"app"},
          op \in (SessionOps \cup FormOps) \ {"whoami", "metrics"}
<1> HIDE DEF d
<1>3. op # "none"
  BY DEF SessionOps, FormOps
<1>4. CallOK(f, d)
  BY <1>2, <1>3 DEF CallOK
<1>5. d.cookie <= srv.issued
  BY <1>2 DEF AppOK, TabOK, NumbersOK
<1>7. UngatedPanics' /\ agreed' \in BOOLEAN
  <2>1. agreed' \in BOOLEAN
    BY <1>1 DEF Settled
  <2> QED BY <1>1, <2>1 DEF AppOK, AppTyped, UngatedPanics
<1>8. CASE ~ Changing(d)
  <2>1. TabOK(ui', calls')
    BY <1>1, <1>4, <1>5, <1>8, IdleFacts, QuietCall
  <2> QED BY <1>1, <1>7, <2>1, Carry DEF AppOK
<1>9. CASE Changing(d)
  <2>1. /\ calls' = [t \in Slots |-> calls'[t]] /\ calls'[f] = d
        /\ \A t \in Slots \ {f} : calls'[t] = calls[t]
    BY <1>1, CallsAreOK
  <2>2. AppTyped'
    BY <1>1, <1>7 DEF AppOK, AppTyped, ServerTyped
  <2>3. CallsOK(calls')
    BY <1>4, <2>1, CallsAreOK DEF CallsOK
  <2>4. CallsOK(calls)'
    BY <1>1, <2>3 DEF CallsOK, CallOK, Changing
  <2>5. NumbersOK(calls)'
    BY <1>1, <1>5, <2>1 DEF AppOK, TabOK, NumbersOK
  <2>6. ProbeOK(ui, calls)'
    BY <1>1, <2>1 DEF AppOK, TabOK, ProbeOK
  <2>7. ASSUME agreed' PROVE AgreeOK(ui, calls)'
    <3>1. AgreeOK(ui, calls) /\ \A g \in Forms : ~ Changing(calls[g])
      BY <1>1, <1>2, <1>9, <2>7 DEF AppOK, TabOK, Settled, Changing
    <3>2. \A g \in Forms : Changing(calls'[g]) => g = f
      BY <2>1, <3>1
    <3>3. ChangeOK(calls[f])'
      BY <1>1, <1>2, <2>1 DEF ChangeOK, Pages
    <3>4. \A g \in Forms : ~ TookEffect(calls[g])
      BY <3>1 DEF TookEffect, Changing
    <3>5. Steady(ui, calls) => Steady(ui, calls)'
      BY <1>1, <2>1 DEF Steady
    <3>6. ~ ui.panicked /\ app # "basic" => Steady(ui, calls)'
      BY <3>1, <3>4, <3>5 DEF AgreeOK
    <3> QED BY <1>1, <3>2, <3>3, <3>6 DEF AgreeOK, Changing
  <2> QED BY <2>2, <2>4, <2>5, <2>6, <2>7 DEF AppOK, TabOK
<1> QED BY <1>8, <1>9

\* A form is sent or the log-out button pressed.
LEMMA FormsKeep ==
  ASSUME AppOK, reg.next \in Nat, NEW f \in Forms,
         SubmitLogin(f) \/ PressLogOut(f) \/ SubmitForm(f)
  PROVE  AppOK'
<1>1. ui \in UiRecord
  BY CallsAreOK
<1>2. CASE SubmitLogin(f)
  <2>1. PICK arg \in {0, 1} : Begin(f, "login", arg, "login")
    BY <1>2 DEF SubmitLogin
  <2> DEFINE waits == app # "registration"
  <2>2. ui' = [ui EXCEPT !.submitting = waits] /\ waits \in BOOLEAN /\ app # "basic"
    BY <1>2 DEF SubmitLogin, Submitting
  <2> HIDE DEF waits
  <2>3. /\ ui' \in UiRecord /\ ui'.page = ui.page /\ ui'.status = ui.status
        /\ ui'.panicked = ui.panicked
    BY <1>1, <2>2 DEF UiRecord
  <2>4. /\ "login" \in (SessionOps \cup FormOps) \ {"whoami", "metrics"}
        /\ arg \in Nat /\ "login" \in Pages \cup {"app"}
    BY DEF SessionOps, Pages
  <2> QED BY ONLY AppOK, f \in Forms, <2>1, <2>2, <2>3, <2>4, BeginKeeps
<1>3. CASE PressLogOut(f)
  <2>1. Begin(f, "log out", 0, "app") /\ ui' = ui /\ app # "basic"
    BY <1>3 DEF PressLogOut
  <2>2. /\ "log out" \in (SessionOps \cup FormOps) \ {"whoami", "metrics"}
        /\ 0 \in Nat /\ "app" \in Pages \cup {"app"}
    BY DEF SessionOps
  <2> QED BY ONLY AppOK, f \in Forms, <1>1, <2>1, <2>2, BeginKeeps
<1>4. CASE SubmitForm(f)
  <2>1. PICK form \in {Registration!Register, Registration!Verify,
                       Registration!ForgotPassword, Registration!ResetPassword},
             token \in 1..reg.next : Begin(f, form.op, token, form.page)
    BY <1>4 DEF SubmitForm
  <2>2. /\ form.op \in (SessionOps \cup FormOps) \ {"whoami", "metrics"}
        /\ form.page \in Pages \cup {"app"}
    <3>1. CASE form = Registration!Register
      BY <3>1 DEF Registration!Register, FormOps, Pages
    <3>2. CASE form = Registration!Verify
      BY <3>2 DEF Registration!Verify, FormOps, Pages
    <3>3. CASE form = Registration!ForgotPassword
      BY <3>3 DEF Registration!ForgotPassword, FormOps, Pages
    <3>4. CASE form = Registration!ResetPassword
      BY <3>4 DEF Registration!ResetPassword, FormOps, Pages
    <3> QED BY <3>1, <3>2, <3>3, <3>4
  <2>3. token \in Nat /\ ui' = ui /\ app # "basic"
    <3>1. ui' = ui /\ app # "basic"
      BY <1>4 DEF SubmitForm
    <3>2. token \in Nat
      BY ONLY reg.next \in Nat, token \in 1..reg.next
    <3> QED BY <3>1, <3>2
  <2> QED BY ONLY AppOK, f \in Forms, <1>1, <2>1, <2>2, <2>3, BeginKeeps
<1> QED BY <1>2, <1>3, <1>4

\* A call that is asked, answered, dropped or received and changes nothing else.
LEMMA QuietStep ==
  ASSUME AppOK, NEW s \in Slots \ {"whoami"}, NEW d, CallOK(s, d),
         ~ Changing(calls[s]), ~ Changing(d), d.cookie <= srv.issued,
         calls' = [calls EXCEPT ![s] = d], agreed' = agreed, UNCHANGED <<app, ui, jar, srv>>
  PROVE  AppOK'
<1>1. TabOK(ui', calls')
  BY QuietCall
<1>2. UngatedPanics'
  BY DEF AppOK, AppTyped, UngatedPanics
<1> QED BY <1>1, <1>2, CallsAreOK, Carry DEF AppOK

-----------------------------------------------------------------------------
\* Calls on their way.

\* A call that the server has answered.
LEMMA AnsweredFacts ==
  ASSUME NEW c \in CallRecord, NEW tag \in Tags, NEW set \in SetCookie
  PROVE  LET a == Answered(c, tag, set) IN
         /\ a \in CallRecord /\ a.op = c.op /\ a.at = "served" /\ a.from = c.from
         /\ a.tag = tag /\ a.set = set
         /\ a.cookie \in {0, c.cookie} /\ (c.op = "whoami" => a.cookie = c.cookie)
<1> DEFINE k == IF c.op = "whoami" THEN c.cookie ELSE 0
           a == [c EXCEPT !.at = "served", !.tag = tag, !.set = set, !.arg = 0,
                          !.cookie = k]
<1>1. Answered(c, tag, set) = a
  BY DEF Answered, NoCookie
<1>2. k \in Nat
  BY DEF CallRecord
<1> HIDE DEF k
<1>3. /\ a \in CallRecord /\ a.op = c.op /\ a.at = "served" /\ a.from = c.from
      /\ a.tag = tag /\ a.set = set /\ a.cookie = k
  BY <1>2 DEF CallRecord
<1> QED BY <1>1, <1>3 DEF k

\* A call that nobody will answer any more.
LEMMA LostFacts ==
  ASSUME NEW c \in CallRecord
  PROVE  LET b == [Answered(c, "lost", Keep) EXCEPT !.at = "arrived"] IN
         /\ b \in CallRecord /\ b.op = c.op /\ b.at = "arrived" /\ b.from = c.from
         /\ b.tag = "lost" /\ b.set = Keep
         /\ b.cookie \in {0, c.cookie} /\ (c.op = "whoami" => b.cookie = c.cookie)
<1> DEFINE a == Answered(c, "lost", Keep)
<1>1. /\ a \in CallRecord /\ a.op = c.op /\ a.from = c.from
      /\ a.tag = "lost" /\ a.set = Keep
      /\ a.cookie \in {0, c.cookie} /\ (c.op = "whoami" => a.cookie = c.cookie)
  <2>1. "lost" \in Tags /\ Keep \in SetCookie
    BY DEF Tags, SetCookie
  <2> QED BY ONLY <2>1, c \in CallRecord, AnsweredFacts
<1> HIDE DEF a
<1>2. LET b == [a EXCEPT !.at = "arrived"] IN
      /\ b \in CallRecord /\ b.op = a.op /\ b.at = "arrived" /\ b.from = a.from
      /\ b.tag = a.tag /\ b.set = a.set /\ b.cookie = a.cookie
  BY <1>1 DEF CallRecord
<1> QED BY <1>1, <1>2 DEF a

\* The probe, while nothing else moves.
LEMMA ProbeCall ==
  ASSUME AppOK, NEW d, CallOK("whoami", d), d.cookie <= srv.issued,
         LET cs == [calls EXCEPT !["whoami"] = d]
         IN ProbeOK(ui, cs) /\ (Steady(ui, calls) => Steady(ui, cs)),
         calls' = [calls EXCEPT !["whoami"] = d], agreed' = agreed,
         UNCHANGED <<app, ui, jar, srv>>
  PROVE  AppOK'
<1>1. /\ calls' = [t \in Slots |-> calls'[t]] /\ calls'["whoami"] = d
      /\ \A t \in Slots \ {"whoami"} : calls'[t] = calls[t]
  BY CallsAreOK, SlotFacts
<1>2. CallsOK(calls')
  BY <1>1, CallsAreOK DEF CallsOK
<1>3. NumbersOK(calls')
  BY <1>1 DEF AppOK, TabOK, NumbersOK
<1>4. ASSUME agreed PROVE AgreeOK(ui, calls')
  <2>1. AgreeOK(ui, calls) /\ \A f \in Forms : calls'[f] = calls[f]
    BY <1>1, <1>4, SlotFacts DEF AppOK, TabOK
  <2>2. Steady(ui, calls) => Steady(ui, calls')
    OBVIOUS
  <2> QED BY <2>1, <2>2 DEF AgreeOK
<1>5. TabOK(ui', calls')
  BY <1>2, <1>3, <1>4 DEF TabOK
<1>6. UngatedPanics'
  BY DEF AppOK, AppTyped, UngatedPanics
<1> QED BY <1>5, <1>6, CallsAreOK, Carry DEF AppOK

\* The restore probe is served.
LEMMA ServeProbeKeeps ==
  ASSUME AppOK, Serve("whoami")
  PROVE  AppOK'
<1> DEFINE c == calls["whoami"]
           r == SessionReply(c)
           d == Answered(c, r.tag, r.set)
<1>1. /\ c.at = "sent" /\ c.op \in SessionOps /\ srv' = r.srv
      /\ calls' = [calls EXCEPT !["whoami"] = d]
      /\ UNCHANGED <<app, ui, jar, agreed>>
  BY DEF Serve
<1>2. /\ c \in CallRecord /\ CallOK("whoami", c) /\ c.cookie <= srv.issued
  BY CallsAreOK, SlotFacts DEF AppOK, TabOK, NumbersOK
<1>3. c.op = "whoami" /\ app \in AppNames \ {"basic"}
  BY <1>1, <1>2, SlotFacts, CallsAreOK DEF CallOK, SessionOps
<1>4. /\ r.srv = srv /\ r.set = Keep /\ r.tag \in {"ok", "none", "err"}
      /\ r.tag = "ok" => c.cookie \in srv.live
      /\ r.tag = "none" => c.cookie \notin srv.live
      /\ r.tag = "err" =>
           \/ app = "sqlx"
           \/ app = "sqlite_demo" /\ c.cookie \notin srv.live \cup {NoCookie}
  BY <1>3, WhoamiReply DEF AppOK, AppTyped
<1> HIDE DEF r
<1>5. r.tag \in Tags /\ r.set \in SetCookie
  BY <1>4 DEF Tags, SetCookie
<1>6. /\ d \in CallRecord /\ d.op = "whoami" /\ d.at = "served" /\ d.from = c.from
      /\ d.tag = r.tag /\ d.set = Keep /\ d.cookie = c.cookie
  <2>1. c \in CallRecord /\ c.op = "whoami" /\ r.set = Keep
    BY <1>2, <1>3, <1>4
  <2> HIDE DEF c
  <2>2. /\ d \in CallRecord /\ d.op = c.op /\ d.at = "served" /\ d.from = c.from
        /\ d.tag = r.tag /\ d.set = r.set
        /\ d.cookie \in {0, c.cookie} /\ (c.op = "whoami" => d.cookie = c.cookie)
    BY ONLY <2>1, <1>5, AnsweredFacts DEF d
  <2> QED BY <2>1, <2>2
<1> HIDE DEF c, d
<1>7. CallOK("whoami", d)
  BY <1>2, <1>3, <1>5, <1>6 DEF CallOK, Changing
<1> DEFINE cs == [calls EXCEPT !["whoami"] = d]
<1>8. cs["whoami"] = d
  BY CallsAreOK, SlotFacts
<1> HIDE DEF cs
<1>9. ProbeOK(ui, cs)
  BY <1>4, <1>6, <1>8 DEF ProbeOK
<1>10. Steady(ui, calls) => Steady(ui, cs)
  BY <1>1, <1>4, <1>6, <1>8 DEF Steady, c
<1>11. UNCHANGED <<app, ui, jar, srv>> /\ agreed' = agreed
       /\ calls' = [calls EXCEPT !["whoami"] = d] /\ d.cookie <= srv.issued
  BY <1>1, <1>2, <1>4, <1>6
<1> QED BY <1>7, <1>9, <1>10, <1>11, ProbeCall DEF cs

\* A slot's new call, and the others as they were.
LEMMA SlotReplaced ==
  ASSUME AppOK, NEW s \in Slots, NEW d, calls' = [calls EXCEPT ![s] = d]
  PROVE  /\ calls' = [t \in Slots |-> calls'[t]] /\ calls'[s] = d
         /\ \A t \in Slots \ {s} : calls'[t] = calls[t]
BY CallsAreOK

\* The metrics are served.
LEMMA ServeMetricsKeeps ==
  ASSUME AppOK, Serve("metrics")
  PROVE  AppOK'
<1> DEFINE c == calls["metrics"]
           r == SessionReply(c)
           d == Answered(c, r.tag, r.set)
<1>1. /\ c.at = "sent" /\ c.op \in SessionOps /\ srv' = r.srv
      /\ calls' = [calls EXCEPT !["metrics"] = d]
      /\ UNCHANGED <<app, ui, jar, agreed>>
  BY DEF Serve
<1>2. c \in CallRecord /\ CallOK("metrics", c) /\ c.cookie <= srv.issued
      /\ srv.issued \in Nat
  BY CallsAreOK, SlotFacts DEF AppOK, TabOK, NumbersOK, ServerRecord
<1>3. c.op = "metrics" /\ app \in {"sqlite_demo", "sqlx", "fullstack"}
  BY <1>1, <1>2, SlotFacts DEF CallOK, SessionOps
<1>4. r.srv = srv /\ r.set = Keep /\ r.tag \in {"ok", "err"}
  BY <1>3, MetricsReply
<1> HIDE DEF r
<1>5. r.tag \in Tags /\ r.set \in SetCookie
  BY <1>4 DEF Tags, SetCookie
<1>6. /\ d \in CallRecord /\ d.op = c.op /\ d.at = "served" /\ d.from = c.from
      /\ d.tag = r.tag /\ d.set = r.set /\ d.cookie \in {0, c.cookie}
  BY ONLY <1>2, <1>5, AnsweredFacts DEF d
<1> HIDE DEF d
<1>7. CallOK("metrics", d) /\ ~ Changing(c) /\ ~ Changing(d) /\ d.cookie <= srv.issued
  BY <1>2, <1>3, <1>4, <1>5, <1>6, SlotFacts DEF CallOK, Changing
<1> QED BY <1>1, <1>4, <1>7, SlotFacts, QuietStep

\* What the server makes of a sign-in or sign-out.
ChangeReplied(c, r) ==
  /\ r.tag \in Tags /\ r.set \in SetCookie
  /\ r.srv \in ServerRecord /\ 0 \notin r.srv.live /\ r.srv.missing = srv.missing
  /\ app = "sqlx" => r.srv.live = {}
  /\ srv.issued <= r.srv.issued /\ r.srv.live \subseteq 1..r.srv.issued
  /\ r.set # Keep => r.set <= r.srv.issued
  /\ \A n \in 0..srv.issued : n \in r.srv.live => n \in srv.live
  /\ c.op = "login" =>
       /\ \A n \in 0..srv.issued : n \in srv.live => n \in r.srv.live
       /\ IF r.tag = "ok" THEN r.set \in r.srv.live ELSE r.set = Keep
  /\ c.op = "log out" => c.cookie \notin r.srv.live /\ r.set \in {Keep, NoCookie}

\* Whatever the application, its server replies like that.
LEMMA ChangeReply ==
  ASSUME ServerTyped, app \in AppNames \ {"basic"}, srv.live \subseteq 1..srv.issued,
         NEW s \in Slots, calls[s].op \in {"login", "log out"}
  PROVE  ChangeReplied(calls[s], SessionReply(calls[s]))
<1> DEFINE c == calls[s]
           r == SessionReply(c)
<1>5. c.op \in {"login", "log out"}
  OBVIOUS
<1> HIDE DEF c
<1>1. /\ srv \in ServerRecord /\ srv.issued \in Nat /\ 0 \notin srv.live
      /\ srv.live \subseteq Nat /\ (app = "sqlx" => srv.live = {})
  BY DEF ServerTyped, ServerRecord
<1>2. ASSUME r.srv = srv, r.set = Keep, r.tag = "err",
             c.op = "log out" => c.cookie \notin srv.live
      PROVE  ChangeReplied(c, r)
  <2> HIDE DEF r
  <2>1. r.set \in SetCookie /\ r.tag \in Tags
    BY <1>2 DEF Tags, SetCookie
  <2>2. \A n \in 0..srv.issued : n \in r.srv.live <=> n \in srv.live
    BY <1>2
  <2>4. srv.live \subseteq 1..srv.issued
    OBVIOUS
  <2>5. srv.issued <= srv.issued
    BY ONLY <1>1
  <2>3. r.srv.live \subseteq 1..r.srv.issued /\ srv.issued <= r.srv.issued
    BY ONLY <1>2, <2>4, <2>5
  <2> QED BY <1>1, <1>2, <2>1, <2>2, <2>3 DEF ChangeReplied
<1>3. CASE c.op = "login"
  <2> DEFINE k == srv.issued + 1
             l == srv.live \cup {k}
  <2>1. \/ r.srv = srv /\ r.set = Keep /\ r.tag = "err"
        \/ /\ r.srv = [srv EXCEPT !.issued = k, !.live = l]
           /\ r.set = k /\ r.tag = "ok" /\ app # "sqlx"
    BY <1>3, LoginReply
  <2> HIDE DEF r, l
  <2>2. k \in Nat /\ srv.issued <= k /\ k \notin 0..srv.issued /\ k # 0
    BY ONLY <1>1
  <2> HIDE DEF k
  <2>3. srv.live \subseteq 1..srv.issued
    OBVIOUS
  <2>4. l \subseteq 1..k /\ l \in SUBSET Nat /\ 0 \notin l /\ k \in l
    BY ONLY <1>1, <2>2, <2>3 DEF l
  <2>5. \A n \in 0..srv.issued : n \in l <=> n \in srv.live
    BY ONLY <2>2 DEF l
  <2>6. ASSUME r.srv = [srv EXCEPT !.issued = k, !.live = l],
               r.set = k, r.tag = "ok", app # "sqlx"
        PROVE  ChangeReplied(c, r)
    <3>1. /\ r.srv \in ServerRecord /\ r.srv.missing = srv.missing
          /\ r.srv.issued = k /\ r.srv.live = l
      BY <1>1, <2>2, <2>4, <2>6 DEF ServerRecord
    <3>2. r.set \in SetCookie /\ r.tag \in Tags
      BY <2>2, <2>6 DEF SetCookie, Tags
    <3>3. r.set <= r.srv.issued
      BY ONLY <2>2, <2>6, <3>1
    <3> QED BY <1>3, <2>2, <2>4, <2>5, <2>6, <3>1, <3>2, <3>3 DEF ChangeReplied
  <2> QED BY <1>2, <1>3, <2>1, <2>6 DEF r, c
<1>4. CASE c.op = "log out"
  <2> DEFINE l == srv.live \ {c.cookie}
  <2>1. /\ r.set \in {Keep, NoCookie} /\ r.tag \in {"ok", "err"}
        /\ \/ r.srv = srv /\ c.cookie \notin srv.live
           \/ r.srv = [srv EXCEPT !.live = l]
    BY <1>4, LogoutReply
  <2> HIDE DEF r
  <2>2. /\ l \subseteq srv.live /\ c.cookie \notin l
        /\ c.cookie \notin srv.live => l = srv.live
    OBVIOUS
  <2> HIDE DEF l
  <2>3. /\ r.srv \in ServerRecord /\ r.srv.missing = srv.missing
        /\ r.srv.issued = srv.issued /\ r.srv.live = l
    BY <1>1, <2>1, <2>2 DEF ServerRecord
  <2>4. r.set \in SetCookie /\ r.tag \in Tags /\ (r.set # Keep => r.set = 0)
    BY ONLY <2>1 DEF SetCookie, Tags, NoCookie
  <2>5. srv.live \subseteq 1..srv.issued
    OBVIOUS
  <2>6. srv.issued <= r.srv.issued /\ r.srv.live \subseteq 1..r.srv.issued
    BY ONLY <1>1, <2>2, <2>3, <2>5
  <2>7. r.set # Keep => r.set <= r.srv.issued
    BY ONLY <1>1, <2>3, <2>4
  <2>8. ChangeReplied(c, r)
    BY <1>1, <1>4, <2>1, <2>2, <2>3, <2>4, <2>6, <2>7 DEF ChangeReplied
  <2> QED BY <2>8 DEF r, c
<1> QED BY <1>3, <1>4, <1>5 DEF c

\* A sign-in or sign-out is served.  A new token is nobody's cookie yet.
LEMMA ServeChangeKeeps ==
  ASSUME AppOK, NEW s \in Forms, Serve(s)
  PROVE  AppOK'
<1> USE SlotFacts
<1> DEFINE c == calls[s]
           r == SessionReply(c)
           d == Answered(c, r.tag, r.set)
<1>1. /\ c.at = "sent" /\ c.op \in SessionOps /\ srv' = r.srv
      /\ calls' = [calls EXCEPT ![s] = d]
      /\ UNCHANGED <<app, ui, jar, agreed>>
  BY DEF Serve
<1>2. /\ c \in CallRecord /\ CallOK(s, c) /\ c.cookie <= srv.issued /\ c.cookie \in Nat
      /\ srv \in ServerRecord /\ srv.issued \in Nat /\ srv.live \subseteq 1..srv.issued
      /\ jar \in Nat /\ jar <= srv.issued
  BY CallsAreOK DEF AppOK, TabOK, NumbersOK, ServerRecord, CallRecord
<1>3. c.op \in {"login", "log out"} /\ app \in AppNames \ {"basic"} /\ ServerTyped
  BY <1>1, <1>2, CallsAreOK DEF CallOK, SessionOps, AppOK, AppTyped
<1>4. ChangeReplied(c, r)
  <2>1. srv.live \subseteq 1..srv.issued
    BY <1>2
  <2> HIDE DEF r, d
  <2>2. ServerTyped /\ app \in AppNames \ {"basic"}
    BY <1>3
  <2>3. c.op \in {"login", "log out"}
    BY <1>3
  <2>4. ChangeReplied(calls[s], SessionReply(calls[s]))
    BY <2>1, <2>2, <2>3, ChangeReply
  <2> QED BY <2>4 DEF r
<1> HIDE DEF r
<1>12. /\ r.srv.issued \in Nat /\ srv.issued \in Nat /\ srv.issued <= r.srv.issued
       /\ r.tag \in Tags /\ r.set \in SetCookie
       /\ \A n \in 0..srv.issued : n \in r.srv.live => n \in srv.live
  BY <1>2, <1>4 DEF ServerRecord, ChangeReplied
<1>5. /\ d \in CallRecord /\ d.op = c.op /\ d.at = "served" /\ d.from = c.from
      /\ d.tag = r.tag /\ d.set = r.set /\ d.cookie \in {0, c.cookie}
  <2>1. c \in CallRecord /\ r.tag \in Tags /\ r.set \in SetCookie
    BY <1>2, <1>12
  <2> QED BY ONLY <2>1, AnsweredFacts DEF d
<1>6. /\ calls' = [t \in Slots |-> calls'[t]] /\ calls'[s] = d
      /\ \A t \in Slots \ {s} : calls'[t] = calls[t]
  BY <1>1, SlotReplaced
<1> HIDE DEF c, d
<1>7. AppTyped'
  <2>1. UngatedPanics'
    BY <1>1 DEF AppOK, AppTyped, UngatedPanics
  <2> QED BY <1>1, <1>4, <2>1 DEF AppOK, AppTyped, ServerTyped, ChangeReplied
<1>8. CallsOK(calls)'
  <2>1. CallOK(s, calls[s])'
    BY <1>1, <1>2, <1>3, <1>4, <1>5, <1>6 DEF CallOK, Changing, ChangeReplied
  <2>2. ASSUME NEW t \in Slots \ {s} PROVE CallOK(t, calls[t])'
    <3> DEFINE e == calls[t]
    <3>1. CallOK(t, e) /\ calls'[t] = e
      BY <1>6, CallsAreOK
    <3>2. e.set \in Nat \/ e.set = Keep
      BY CallsAreOK DEF CallRecord, SetCookie
    <3> HIDE DEF e
    <3>3. e.set # Keep => e.set <= srv.issued
      BY <3>1 DEF CallOK
    <3>4. e.set # Keep => e.set <= r.srv.issued
      BY ONLY <1>12, <3>2, <3>3
    <3> QED BY <1>1, <3>1, <3>4 DEF CallOK, Changing
  <2> QED BY <1>6, <2>1, <2>2 DEF CallsOK
<1>9. NumbersOK(calls)'
  <2>1. \A t \in Slots : calls[t].cookie \in Nat
    BY CallsAreOK DEF CallRecord
  <2>2. \A t \in Slots : calls'[t].cookie \in {0, calls[t].cookie}
    BY <1>5, <1>6 DEF c
  <2>3. \A t \in Slots : calls[t].cookie <= srv.issued
    BY DEF AppOK, TabOK, NumbersOK
  <2>4. \A t \in Slots : calls'[t].cookie <= r.srv.issued
    BY ONLY <1>12, <2>1, <2>2, <2>3
  <2>5. jar \in Nat /\ jar <= srv.issued
    BY <1>2
  <2>6. jar <= r.srv.issued
    BY ONLY <1>12, <2>5
  <2> QED BY <1>1, <1>4, <2>4, <2>6 DEF NumbersOK, ChangeReplied
<1>10. ProbeOK(ui, calls)'
  <2> DEFINE p == calls["whoami"]
  <2>1. calls'["whoami"] = p /\ ProbeOK(ui, calls)
    BY <1>6 DEF AppOK, TabOK
  <2>2. p.cookie \in Nat /\ p.cookie <= srv.issued
    BY CallsAreOK DEF AppOK, TabOK, NumbersOK, CallRecord
  <2>3. p.cookie \in r.srv.live => p.cookie \in srv.live
    <3> HIDE DEF p
    <3> QED BY ONLY <1>12, <2>2
  <2> HIDE DEF p
  <2> QED BY <1>1, <2>1, <2>3 DEF ProbeOK, p
<1>11. ASSUME agreed' PROVE AgreeOK(ui, calls)'
  <2>1. AgreeOK(ui, calls)
    BY <1>1, <1>11 DEF AppOK, TabOK
  <2>2. Changing(c) /\ Changing(d)
    BY <1>3, <1>5 DEF Changing
  <2>3. \A f \in Forms : Changing(calls[f]) => f = s
    BY <2>1, <2>2 DEF AgreeOK, c
  <2>4. \A f \in Forms : Changing(calls'[f]) => f = s
    BY <1>6, <2>3
  <2>5. ChangeOK(c) /\ jar \in 0..srv.issued
    BY <1>2, <1>12, <2>1, <2>2 DEF AgreeOK, c
  <2>6. ChangeOK(calls[s])'
    BY <1>1, <1>3, <1>4, <1>5, <1>6, <2>5 DEF ChangeOK, ChangeReplied
  <2>7. CASE c.op = "log out"
    <3>1. TookEffect(calls'[s])
      BY <1>5, <1>6, <2>7 DEF TookEffect
    <3> QED BY <2>4, <2>6, <3>1 DEF AgreeOK, Changing, TookEffect
  <2>8. CASE c.op = "login"
    <3>1. \A f \in Forms : ~ TookEffect(calls[f])
      BY <1>1, <2>3, <2>8 DEF TookEffect, Changing, c
    <3>2. jar' \in srv'.live <=> jar \in srv.live
      BY <1>1, <1>4, <2>5, <2>8 DEF ChangeReplied
    <3>3. Steady(ui, calls) => Steady(ui, calls)'
      BY <1>1, <1>6, <3>2 DEF Steady
    <3>4. ~ ui.panicked /\ app # "basic" => Steady(ui, calls)'
      BY <2>1, <3>1, <3>3 DEF AgreeOK
    <3> QED BY <1>1, <2>4, <2>6, <3>4 DEF AgreeOK, Changing
  <2> QED BY <1>3, <2>7, <2>8
<1> QED BY <1>7, <1>8, <1>9, <1>10, <1>11 DEF AppOK, TabOK

\* One call has changed, and the cookie perhaps; the server has not.
LEMMA SlotStep ==
  ASSUME AppOK, NEW s \in Slots, NEW d, CallOK(s, d), d.cookie <= srv.issued,
         calls' = [calls EXCEPT ![s] = d], jar' \in Nat, jar' <= srv.issued,
         agreed' \in BOOLEAN, UNCHANGED <<app, ui, srv>>,
         ProbeOK(ui, calls)', agreed' => AgreeOK(ui, calls)'
  PROVE  AppOK'
<1>1. /\ calls' = [t \in Slots |-> calls'[t]] /\ calls'[s] = d
      /\ \A t \in Slots \ {s} : calls'[t] = calls[t]
  BY SlotReplaced
<1>2. AppTyped'
  <2>1. UngatedPanics'
    BY DEF AppOK, AppTyped, UngatedPanics
  <2> QED BY <2>1 DEF AppOK, AppTyped, ServerTyped
<1>3. CallsOK(calls)'
  <2>1. \A t \in Slots : CallOK(t, calls'[t])
    BY <1>1, CallsAreOK
  <2>2. \A t \in Slots : CallOK(t, calls[t])'
    BY <2>1 DEF CallOK, Changing
  <2> QED BY <1>1, <2>2 DEF CallsOK
<1>4. NumbersOK(calls)'
  BY <1>1 DEF AppOK, TabOK, NumbersOK
<1> QED BY <1>2, <1>3, <1>4 DEF AppOK, TabOK

\* While nothing is disturbed, a sign-in or sign-out that moves is the only one.
LEMMA OneChange ==
  ASSUME AppOK, agreed, NEW s \in Forms, NEW d, Changing(calls[s]), Changing(d),
         calls' = [calls EXCEPT ![s] = d], ChangeOK(calls[s])',
         TookEffect(calls[s]) => TookEffect(d),
         ~ TookEffect(d) /\ Steady(ui, calls) => Steady(ui, calls)',
         UNCHANGED <<app, ui>>
  PROVE  AgreeOK(ui, calls)'
<1>1. /\ calls'[s] = d /\ \A t \in Slots \ {s} : calls'[t] = calls[t]
  BY SlotReplaced, SlotFacts
<1>2. AgreeOK(ui, calls)
  BY DEF AppOK, TabOK
<1>3. \A f \in Forms : Changing(calls[f]) => f = s
  BY <1>2 DEF AgreeOK
<1>4. \A f \in Forms : Changing(calls'[f]) => f = s
  BY <1>1, <1>3, SlotFacts
<1>5. ASSUME ~ TookEffect(d), ~ ui.panicked, app # "basic" PROVE Steady(ui, calls)'
  <2>1. \A f \in Forms : ~ TookEffect(calls[f])
    BY <1>3, <1>5 DEF TookEffect, Changing
  <2> QED BY <1>2, <1>5, <2>1 DEF AgreeOK
<1>6. ~ ui.panicked /\ app # "basic" /\ (\A f \in Forms : ~ TookEffect(calls'[f]))
        => Steady(ui, calls)'
  BY <1>1, <1>5
<1> QED BY <1>4, <1>6 DEF AgreeOK, Changing, TookEffect

\* A reply is received: its call keeps nothing but the tag.
LEMMA ArrivedFacts ==
  ASSUME AppOK, NEW s \in Slots, Arrive(s)
  PROVE  LET c == calls[s]   d == calls'[s] IN
         /\ c.at = "served" /\ CallOK(s, c) /\ CallOK(s, d)
         /\ d.op = c.op /\ d.at = "arrived" /\ d.tag = c.tag /\ d.set = Keep
         /\ d.cookie = c.cookie /\ d.from = c.from
         /\ d.cookie <= srv.issued
         /\ calls' = [calls EXCEPT ![s] = d]
         /\ jar' \in Nat /\ jar' <= srv.issued
<1> DEFINE c == calls[s]
           d == [[c EXCEPT !.at = "arrived"] EXCEPT !.set = Keep]
<1>1. /\ c.at = "served" /\ CallOK(s, c) /\ c \in CallRecord /\ c.cookie <= srv.issued
      /\ jar' = IF c.set = Keep THEN jar ELSE c.set
      /\ jar \in Nat /\ jar <= srv.issued
  BY CallsAreOK DEF Arrive, AppOK, TabOK, NumbersOK
<1>2. calls' = [calls EXCEPT ![s] = d] /\ calls'[s] = d
  BY CallsAreOK DEF Arrive
<1> HIDE DEF c
<1>3. /\ d \in CallRecord /\ d.op = c.op /\ d.at = "arrived" /\ d.tag = c.tag
      /\ d.set = Keep /\ d.cookie = c.cookie /\ d.from = c.from
  BY <1>1 DEF CallRecord, SetCookie
<1> HIDE DEF d
<1>4. CallOK(s, d)
  BY <1>1, <1>3 DEF CallOK, Changing
<1>5. jar' \in Nat /\ jar' <= srv.issued
  BY <1>1 DEF CallOK, CallRecord, SetCookie
<1> QED BY <1>1, <1>2, <1>3, <1>4, <1>5 DEF c

\* The cookie of a reply is taken: the jar follows the server.
LEMMA ArriveKeeps ==
  ASSUME AppOK, NEW s \in Slots, Arrive(s)
  PROVE  AppOK'
<1> USE SlotFacts
<1> DEFINE c == calls[s]
           d == calls'[s]
<1>1. /\ c.at = "served" /\ CallOK(s, c) /\ CallOK(s, d)
      /\ d.op = c.op /\ d.at = "arrived" /\ d.tag = c.tag /\ d.set = Keep
      /\ d.cookie = c.cookie /\ d.from = c.from
      /\ d.cookie <= srv.issued
      /\ calls' = [calls EXCEPT ![s] = d]
      /\ jar' \in Nat /\ jar' <= srv.issued
  BY ArrivedFacts
<1>2. /\ jar' = IF c.set = Keep THEN jar ELSE c.set
      /\ UNCHANGED <<app, ui, srv, agreed>>
  BY DEF Arrive
<1>3. \A t \in Slots \ {s} : calls'[t] = calls[t]
  BY <1>1, SlotReplaced
<1> HIDE DEF c, d
<1>4. CASE s = "whoami"
  <2>1. ~ Changing(c) /\ jar' = jar
    BY <1>1, <1>2, <1>4 DEF CallOK, Changing
  <2> DEFINE cs == [calls EXCEPT !["whoami"] = d]
  <2>2. cs["whoami"] = d
    BY CallsAreOK
  <2> HIDE DEF cs
  <2>3. ProbeOK(ui, cs) /\ (Steady(ui, calls) => Steady(ui, cs))
    BY <1>1, <1>4, <2>2 DEF AppOK, TabOK, ProbeOK, Steady, c
  <2> QED BY <1>1, <1>2, <1>4, <2>1, <2>3, ProbeCall DEF cs
<1>5. CASE s # "whoami" /\ ~ Changing(c)
  <2>1. ~ Changing(d) /\ jar' = jar
    BY <1>1, <1>2, <1>5 DEF CallOK, Changing
  <2> QED BY <1>1, <1>2, <1>5, <2>1, QuietStep DEF c
<1>6. CASE Changing(c)
  <2>1. s \in Forms /\ Changing(d)
    BY <1>1, <1>6 DEF CallOK, Changing, Slots
  <2>2. ProbeOK(ui, calls)'
    BY <1>2, <1>3, <2>1 DEF AppOK, TabOK, ProbeOK
  <2>3. ASSUME agreed' PROVE AgreeOK(ui, calls)'
    <3>1. agreed /\ ChangeOK(c)
      BY <1>2, <1>6, <2>1, <2>3 DEF AppOK, TabOK, AgreeOK, c
    <3>2. 0 \notin srv.live /\ srv.live \subseteq Nat /\ Keep \notin srv.live
      BY DEF AppOK, AppTyped, ServerTyped, ServerRecord, Keep
    <3>3. ChangeOK(calls[s])'
      BY <1>1, <1>2, <3>1, <3>2 DEF ChangeOK, NoCookie, d
    <3>4. ~ TookEffect(d) => jar' = jar /\ d.op = "login"
      BY <1>1, <1>2, <1>6, <3>1 DEF TookEffect, ChangeOK, Changing
    <3>5. calls'["whoami"] = calls["whoami"]
      BY <1>3, <2>1
    <3>6. ~ TookEffect(d) /\ Steady(ui, calls) => Steady(ui, calls)'
      BY <1>2, <3>4, <3>5 DEF Steady
    <3>7. TookEffect(c) => TookEffect(d)
      BY <1>1 DEF TookEffect
    <3> QED BY <1>1, <1>2, <1>6, <2>1, <3>1, <3>3, <3>6, <3>7, OneChange DEF c
  <2> QED BY <1>1, <1>2, <2>2, <2>3, CallsAreOK, SlotStep
<1> QED BY <1>4, <1>5, <1>6

\* A call that is lost is over for everybody but its page.
LEMMA LoseKeeps ==
  ASSUME AppOK, NEW s \in Slots, Lose(s)
  PROVE  AppOK'
<1> USE SlotFacts
<1> DEFINE c == calls[s]
           d == [Answered(c, "lost", Keep) EXCEPT !.at = "arrived"]
<1>1. /\ c.at \in {"sent", "halfway", "served"} /\ CallOK(s, c) /\ c \in CallRecord
      /\ c.cookie <= srv.issued /\ srv.issued \in Nat
      /\ calls' = [calls EXCEPT ![s] = d] /\ UNCHANGED <<app, ui, srv, jar>>
      /\ agreed' = (agreed /\ ~ Changing(c))
  BY CallsAreOK DEF Lose, AppOK, TabOK, NumbersOK, ServerRecord
<1>2. /\ d \in CallRecord /\ d.op = c.op /\ d.at = "arrived" /\ d.from = c.from
      /\ d.tag = "lost" /\ d.set = Keep
      /\ d.cookie \in {0, c.cookie} /\ (c.op = "whoami" => d.cookie = c.cookie)
  <2>1. c \in CallRecord
    BY <1>1
  <2> HIDE DEF c
  <2> QED BY ONLY <2>1, LostFacts DEF d
<1>3. /\ calls'[s] = d /\ \A t \in Slots \ {s} : calls'[t] = calls[t]
  BY <1>1, SlotReplaced
<1> HIDE DEF c, d
<1>4. "lost" \in Tags /\ d.cookie <= srv.issued
  <2>1. c.cookie \in Nat /\ "lost" \in Tags
    BY <1>1 DEF CallRecord, Tags
  <2> QED BY ONLY <1>1, <1>2, <2>1
<1>5. CallOK(s, d)
  BY <1>1, <1>2, <1>4 DEF CallOK, Changing
<1>6. CASE s = "whoami"
  <2>1. c.op = "whoami" /\ ~ Changing(c)
    BY <1>1, <1>6 DEF CallOK, Changing
  <2> DEFINE cs == [calls EXCEPT !["whoami"] = d]
  <2>2. cs["whoami"] = d
    BY CallsAreOK
  <2> HIDE DEF cs
  <2>3. ProbeOK(ui, cs) /\ (Steady(ui, calls) => Steady(ui, cs))
    BY <1>2, <2>2 DEF ProbeOK, Steady
  <2>4. agreed' = agreed
    BY <1>1, <2>1, CallsAreOK
  <2> QED BY <1>1, <1>4, <1>5, <1>6, <2>3, <2>4, ProbeCall DEF cs
<1>7. CASE s # "whoami" /\ ~ Changing(c)
  <2>1. ~ Changing(d) /\ agreed' = agreed
    BY <1>1, <1>2, <1>7, CallsAreOK DEF Changing
  <2> QED BY <1>1, <1>4, <1>5, <1>7, <2>1, QuietStep DEF c
<1>8. CASE Changing(c)
  <2>1. s \in Forms /\ agreed' = FALSE
    BY <1>1, <1>8 DEF CallOK, Changing, Slots
  <2>2. ProbeOK(ui, calls)'
    BY <1>1, <1>3, <2>1 DEF AppOK, TabOK, ProbeOK
  <2>3. jar' \in Nat /\ jar' <= srv.issued
    BY <1>1 DEF AppOK, AppTyped, TabOK, NumbersOK
  <2> QED BY <1>1, <1>4, <1>5, <2>1, <2>2, <2>3, SlotStep
<1> QED BY <1>6, <1>7, <1>8

\* A session ends behind the tab's back: nothing is claimed of it until a reload.
LEMMA EndKeeps == ASSUME AppOK, EndSession PROVE AppOK'
<1>1. PICK t \in srv.live : srv' = [srv EXCEPT !.live = @ \ {t}]
  BY DEF EndSession
<1>2. agreed' = FALSE /\ UNCHANGED <<app, ui, calls, jar>>
  BY DEF EndSession
<1> DEFINE l == srv.live \ {t}
<1>3. srv' = [srv EXCEPT !.live = l] /\ l \subseteq srv.live /\ t \notin l
  BY <1>1
<1> HIDE DEF l
<1>4. /\ srv' \in ServerRecord /\ srv'.live = l /\ srv'.issued = srv.issued
      /\ srv'.missing = srv.missing
  BY <1>3, CallsAreOK DEF ServerRecord
<1>5. AppTyped'
  BY <1>2, <1>3, <1>4 DEF AppOK, AppTyped, ServerTyped, UngatedPanics
<1>6. CallsOK(calls)'
  BY <1>2, <1>4 DEF AppOK, TabOK, CallsOK, CallOK, Changing
<1>7. NumbersOK(calls)'
  BY <1>2, <1>3, <1>4 DEF AppOK, TabOK, NumbersOK
<1>8. ProbeOK(ui, calls)'
  BY <1>2, <1>3, <1>4 DEF AppOK, TabOK, ProbeOK
<1> QED BY <1>2, <1>5, <1>6, <1>7, <1>8 DEF AppOK, TabOK

\* A token that gets too old concerns no session.
LEMMA ExpireKeeps == ASSUME AppOK, ExpireToken PROVE AppOK'
<1>1. UNCHANGED <<app, ui, calls, jar, srv, agreed>>
  BY DEF ExpireToken
<1>2. ui \in UiRecord /\ UngatedPanics'
  BY <1>1 DEF AppOK, AppTyped, UngatedPanics
<1> QED BY <1>1, <1>2, Carry DEF AppOK, AppTyped

\* A continuation that has run, or whose component is gone, leaves its slot.
LEMMA DoneFacts ==
  ASSUME AppOK, NEW s \in Slots, Continue(s)
  PROVE  LET c == calls[s]
             e == IF s \in Forms THEN Idle ELSE [c EXCEPT !.at = "done"]
             done == [calls EXCEPT ![s] = e]
         IN /\ c.at = "arrived" /\ CallOK(s, c) /\ c.tag \in Tags /\ app # "basic"
            /\ CallOK(s, e) /\ e.cookie <= srv.issued /\ ~ Changing(e)
            /\ s \notin Forms =>
                 e.at = "done" /\ e.op = s /\ e.tag = c.tag /\ e.cookie = c.cookie
            /\ done[s] = e /\ \A t \in Slots \ {s} : done[t] = calls[t]
            /\ CallsOK(done) /\ NumbersOK(done)
            /\ UNCHANGED <<app, jar, srv>>
            /\ \/ /\ c.from = "gone" \/ ui.panicked
                  /\ calls' = done
                  /\ UNCHANGED <<ui, agreed>>
               \/ /\ c.from # "gone" /\ ~ ui.panicked
                  /\ Render(Continued(c), done, View(ui))
<1> USE SlotFacts
<1> DEFINE c == calls[s]
           d == [c EXCEPT !.at = "done"]
           e == IF s \in Forms THEN Idle ELSE d
           done == [calls EXCEPT ![s] = e]
<1>1. /\ c.at = "arrived" /\ CallOK(s, c) /\ c \in CallRecord
      /\ c.cookie <= srv.issued /\ srv.issued \in Nat
  BY CallsAreOK DEF Continue, AppOK, TabOK, NumbersOK, ServerRecord
<1>2. /\ UNCHANGED <<app, jar, srv>>
      /\ \/ /\ c.from = "gone" \/ ui.panicked
            /\ calls' = done
            /\ UNCHANGED <<ui, agreed>>
         \/ /\ c.from # "gone" /\ ~ ui.panicked
            /\ Render(Continued(c), done, View(ui))
  BY DEF Continue, Alive
<1>3. /\ done = [t \in Slots |-> done[t]] /\ done[s] = e
      /\ \A t \in Slots \ {s} : done[t] = calls[t]
  BY CallsAreOK
<1> HIDE DEF c, done
<1>4. /\ d \in CallRecord /\ d.op = c.op /\ d.at = "done" /\ d.tag = c.tag
      /\ d.set = c.set /\ d.cookie = c.cookie /\ d.from = c.from
  BY <1>1 DEF CallRecord
<1> HIDE DEF d
<1>5. c.tag \in Tags /\ c.op # "none" /\ app # "basic"
  BY <1>1 DEF CallOK
<1>6. CallOK(s, e) /\ ~ Changing(e)
  <2>1. CASE s \in Forms
    BY <2>1, IdleFacts
  <2>2. CASE s \notin Forms
    <3>1. d.op = s /\ d.op \in {"whoami", "metrics"}
      BY <1>1, <1>4, <1>5, <2>2 DEF CallOK, Slots
    <3> QED BY <1>1, <1>4, <1>5, <2>2, <3>1 DEF CallOK, Changing
  <2> QED BY <2>1, <2>2
<1>7. e.cookie <= srv.issued
  <2>1. 0 <= srv.issued
    BY ONLY <1>1
  <2> QED BY <1>1, <1>4, <2>1, IdleFacts
<1>8. s \notin Forms => e.at = "done" /\ e.op = s /\ e.tag = c.tag /\ e.cookie = c.cookie
  BY <1>1, <1>4, <1>5 DEF CallOK
<1> HIDE DEF e
<1>9. CallsOK(done)
  BY <1>3, <1>6, CallsAreOK DEF CallsOK
<1>10. NumbersOK(done)
  BY <1>3, <1>7 DEF AppOK, TabOK, NumbersOK
<1> QED BY <1>1, <1>2, <1>3, <1>5, <1>6, <1>7, <1>8, <1>9, <1>10 DEF c, e, d, done

\* A sign-in or sign-out that has been awaited leaves a status that matches.
LEMMA ChangeDone ==
  ASSUME AppOK, NEW s \in Forms, Changing(calls[s]), calls[s].at = "arrived",
         calls[s].tag \in Tags, app # "basic", ~ ui.panicked,
         NEW cs, \A t \in Slots \ {s} : cs[t] = calls[t], ~ Changing(cs[s]),
         CallsOK(cs), NumbersOK(cs)
  PROVE  TabOK(Continued(calls[s]), cs)
<1> USE SlotFacts
<1> DEFINE c == calls[s]
           u == Continued(c)
<1>1. ui \in UiRecord /\ app \in AppNames \ {"basic"} /\ c.op \in {"login", "log out"}
  BY CallsAreOK DEF Changing
<1>2. /\ u \in UiRecord /\ u.panicked = ui.panicked
      /\ c.op = "login" =>
           u.status = IF c.tag = "ok" THEN "Authenticated" ELSE ui.status
      /\ c.op = "log out" => u.status = "Unauthenticated"
  BY <1>1, ContinuedFacts
<1>3. cs["whoami"] = calls["whoami"]
  OBVIOUS
<1>4. c.at = "arrived" /\ Changing(c) /\ ~ u.panicked
  BY <1>2
<1> HIDE DEF u, c
<1>5. ProbeOK(u, cs)
  BY <1>1, <1>2, <1>3 DEF AppOK, TabOK, ProbeOK
<1>6. ASSUME agreed PROVE AgreeOK(u, cs)
  <2>1. AgreeOK(ui, calls)
    BY <1>6 DEF AppOK, TabOK
  <2>2. \A f \in Forms : Changing(calls[f]) => f = s
    BY <1>4, <2>1 DEF AgreeOK, c
  <2>3. \A f \in Forms : ~ Changing(cs[f])
    BY <2>2
  <2>4. ChangeOK(c)
    BY <1>4, <2>1 DEF AgreeOK, c
  <2>5. CASE TookEffect(c)
    BY <1>1, <1>2, <1>4, <2>3, <2>4, <2>5 DEF TookEffect, ChangeOK, AgreeOK, Steady
  <2>6. CASE ~ TookEffect(c)
    <3>1. \A f \in Forms : ~ TookEffect(calls[f])
      BY <2>2, <2>6 DEF TookEffect, Changing, c
    <3>2. Steady(ui, calls) /\ u.status = ui.status
      BY <1>1, <1>2, <1>4, <2>1, <2>6, <3>1 DEF AgreeOK, TookEffect
    <3>3. Steady(u, cs)
      BY <1>3, <3>2 DEF Steady
    <3> QED BY <2>3, <3>3 DEF AgreeOK
  <2> QED BY <2>5, <2>6
<1> QED BY <1>5, <1>6 DEF TabOK, u, c

\* A continuation runs, or is dropped with its component.
LEMMA ContinueKeeps ==
  ASSUME AppOK, NEW s \in Slots, Continue(s)
  PROVE  AppOK'
<1> USE SlotFacts
<1> DEFINE c == calls[s]
           e == IF s \in Forms THEN Idle ELSE [c EXCEPT !.at = "done"]
           done == [calls EXCEPT ![s] = e]
           u == Continued(c)
<1>1. /\ c.at = "arrived" /\ CallOK(s, c) /\ c.tag \in Tags /\ app # "basic"
      /\ CallOK(s, e) /\ e.cookie <= srv.issued /\ ~ Changing(e)
      /\ s \notin Forms =>
           e.at = "done" /\ e.op = s /\ e.tag = c.tag /\ e.cookie = c.cookie
      /\ done[s] = e /\ \A t \in Slots \ {s} : done[t] = calls[t]
      /\ CallsOK(done) /\ NumbersOK(done)
      /\ UNCHANGED <<app, jar, srv>>
      /\ \/ /\ c.from = "gone" \/ ui.panicked
            /\ calls' = done
            /\ UNCHANGED <<ui, agreed>>
         \/ /\ c.from # "gone" /\ ~ ui.panicked
            /\ Render(u, done, View(ui))
  BY DoneFacts
<1>2. ui \in UiRecord /\ jar \in Nat /\ jar <= srv.issued /\ app \in AppNames \ {"basic"}
  BY <1>1, CallsAreOK DEF AppOK, TabOK, NumbersOK
<1>3. /\ u \in UiRecord /\ u.panicked = ui.panicked
      /\ c.op = "whoami" =>
           u.status = IF ui.status # "Loading" THEN ui.status ELSE
                      CASE c.tag = "ok" -> "Authenticated"
                        [] c.tag = "none" -> "Unauthenticated"
                        [] OTHER -> ui.status
      /\ c.op \notin {"login", "log out", "whoami"} => u.status = ui.status
  BY <1>1, <1>2, ContinuedFacts
<1>4. Changing(c) => s \in Forms
  BY <1>1 DEF CallOK, Changing, Slots
<1>5. s = "whoami" => c.op = "whoami" /\ c.from = "app"
  BY <1>1 DEF CallOK
<1>6. s # "whoami" => c.op # "whoami"
  BY <1>1 DEF CallOK, Slots
<1> HIDE DEF u, e, c
<1>7. CASE c.from = "gone" \/ ui.panicked
  <2>1. calls' = done /\ UNCHANGED <<ui, agreed>>
    BY <1>1, <1>7
  <2>2. CASE s = "whoami"
    <3>1. ui.panicked
      BY <1>5, <1>7, <2>2
    <3>2. done["whoami"] = e /\ e.at = "done" /\ e.tag = c.tag /\ e.cookie = c.cookie
      BY <1>1, <2>2
    <3> HIDE DEF done
    <3>3. ProbeOK(ui, done) /\ (Steady(ui, calls) => Steady(ui, done))
      BY <1>1, <2>2, <3>1, <3>2 DEF AppOK, TabOK, ProbeOK, Steady, c
    <3> QED BY <1>1, <2>1, <2>2, <3>3, ProbeCall DEF done
  <2>3. CASE s # "whoami" /\ ~ Changing(c)
    BY <1>1, <2>1, <2>3, QuietStep DEF c
  <2>4. CASE Changing(c)
    <3>1. ProbeOK(ui, calls)'
      BY <1>1, <1>4, <2>1, <2>4 DEF AppOK, TabOK, ProbeOK
    <3>2. ASSUME agreed' PROVE AgreeOK(ui, calls)'
      <4>1. AgreeOK(ui, calls) /\ ChangeOK(c)
        BY <1>4, <2>1, <2>4, <3>2 DEF AppOK, TabOK, AgreeOK, c
      <4>2. ui'.panicked
        BY <1>7, <2>1, <4>1 DEF ChangeOK
      <4>3. \A f \in Forms : ~ Changing(calls'[f])
        BY <1>1, <1>4, <2>1, <2>4, <4>1 DEF AgreeOK, c
      <4> QED BY <4>2, <4>3 DEF AgreeOK, Changing
    <3> QED BY <1>1, <1>2, <2>1, <3>1, <3>2, CallsAreOK, SlotStep
  <2> QED BY <2>2, <2>3, <2>4
<1>8. CASE c.from # "gone" /\ ~ ui.panicked
  <2>1. Render(u, done, View(ui)) /\ ~ u.panicked
    BY <1>1, <1>3, <1>8
  <2>2. TabOK(u, done)
    <3>1. CASE s = "whoami"
      <4>1. done["whoami"] = e /\ e.at = "done" /\ e.tag = c.tag /\ e.cookie = c.cookie
            /\ \A f \in Forms : done[f] = calls[f]
        BY <1>1, <3>1
      <4> HIDE DEF done
      <4>2. ProbeOK(u, done)
        BY <1>1, <1>3, <1>5, <3>1, <4>1 DEF AppOK, TabOK, ProbeOK, Tags, c
      <4>3. Steady(ui, calls) => Steady(u, done)
        <5>1. c = calls["whoami"] /\ c.at = "arrived" /\ c.op = "whoami"
          BY <1>1, <1>5, <3>1 DEF c
        <5>2. CASE ui.status = "Loading"
          BY <1>3, <4>1, <5>1, <5>2 DEF Steady
        <5>3. CASE ui.status # "Loading"
          BY <1>3, <4>1, <5>1, <5>3 DEF Steady
        <5> QED BY <5>2, <5>3
      <4>4. agreed => AgreeOK(u, done)
        BY <1>3, <4>1, <4>3 DEF AppOK, TabOK, AgreeOK
      <4> QED BY <1>1, <4>2, <4>4 DEF TabOK
    <3>2. CASE s # "whoami" /\ ~ Changing(c)
      <4>1. u.status = ui.status /\ u.panicked = ui.panicked
        BY <1>3, <1>6, <3>2 DEF Changing
      <4> QED BY <1>1, <3>2, <4>1, QuietCall DEF c
    <3>3. CASE Changing(c)
      <4>1. s \in Forms /\ ~ Changing(done[s])
        BY <1>1, <1>4, <3>3
      <4> HIDE DEF done
      <4> QED BY <1>1, <1>8, <3>3, <4>1, ChangeDone DEF c, u
    <3> QED BY <3>1, <3>2, <3>3
  <2>3. AppTyped
    BY DEF AppOK
  <2> HIDE DEF done
  <2> QED BY <1>1, <1>3, <2>1, <2>2, <2>3, RenderKeeps
<1> QED BY <1>7, <1>8

-----------------------------------------------------------------------------
\* The registration demo's tables.

\* A call that is halfway was so before, with the same account.
HalfwayBefore(cs, before) ==
  \A t \in Slots : cs[t].at = "halfway" =>
    before[t].at = "halfway" /\ cs[t].op = before[t].op /\ cs[t].arg = before[t].arg

\* The tables and the calls halfway are what the invariant is about.
LEMMA TablesStay ==
  ASSUME RegOK, reg' = reg, HalfwayBefore(calls', calls)
  PROVE  RegOK'
BY DEF RegOK, HalfwayBefore, VerifiedByOwnToken

\* One verified account, no token, no call under way.
LEMMA RegBegins == reg = Registration!Registry /\ (\A s \in Slots : calls[s].at # "halfway")
                     => RegOK
<1> SUFFICES ASSUME reg = Registration!Registry, \A s \in Slots : calls[s].at # "halfway"
             PROVE  RegOK
  OBVIOUS
<1> DEFINE admin == [id |-> 0, email |-> "admin", verified |-> TRUE]
<1>1. reg = [users |-> {admin}, credentials |-> {}, email_tokens |-> {},
             reset_tokens |-> {}, next |-> 1]
  BY DEF Registration!Registry, Registration!Admin
<1>2. admin \in [id : Nat, email : {"admin", "visitor"}, verified : BOOLEAN] /\ admin.id = 0
  OBVIOUS
<1> HIDE DEF admin
<1>3. reg \in Tables
  BY <1>1, <1>2 DEF Tables
<1>4. reg.users = {admin} /\ reg.email_tokens = {} /\ reg.next = 1
  BY <1>1
<1> QED BY <1>2, <1>3, <1>4 DEF RegOK, VerifiedByOwnToken

\* A token that gets too old is still of its account.
LEMMA ExpireTables ==
  ASSUME RegOK, ExpireToken
  PROVE  RegOK'
<1>1. PICK x \in reg.email_tokens :
        reg' = [reg EXCEPT !.email_tokens = (@ \ {x}) \cup {[x EXCEPT !.expired = TRUE]}]
  BY DEF ExpireToken
<1> DEFINE y == [x EXCEPT !.expired = TRUE]
           ts == (reg.email_tokens \ {x}) \cup {y}
<1>2. reg' = [reg EXCEPT !.email_tokens = ts] /\ calls' = calls
  BY <1>1 DEF ExpireToken
<1>3. reg \in Tables /\ x \in [token : Nat, user : Nat, expired : BOOLEAN]
  BY DEF RegOK, Tables
<1>4. y \in [token : Nat, user : Nat, expired : BOOLEAN] /\ y.token = x.token
      /\ y.user = x.user
  BY <1>3
<1> HIDE DEF y
<1>5. ts \subseteq [token : Nat, user : Nat, expired : BOOLEAN]
  BY <1>3, <1>4 DEF Tables
<1>6. \A z \in ts : \E w \in reg.email_tokens : z.token = w.token /\ z.user = w.user
  BY <1>4
<1>7. \A z, w \in ts : z.token = w.token => z = w
  BY <1>4 DEF RegOK
<1> HIDE DEF ts
<1>8. /\ reg' \in Tables /\ reg'.users = reg.users /\ reg'.next = reg.next
      /\ reg'.email_tokens = ts
  BY <1>2, <1>3, <1>5 DEF Tables
<1> QED BY <1>2, <1>6, <1>7, <1>8 DEF RegOK, VerifiedByOwnToken

\* A user stored under its number replaces the one that was there.
LEMMA InsertedUser ==
  ASSUME reg \in Tables, NEW n \in Nat \ {0},
         NEW u \in [id : Nat, email : {"admin", "visitor"}, verified : BOOLEAN]
  PROVE  LET r == Registration!insert_user([reg EXCEPT !.next = n], u) IN
         /\ r \in Tables /\ r.next = n /\ r.email_tokens = reg.email_tokens
         /\ r.users = {v \in reg.users : v.id # u.id} \cup {u}
<1> DEFINE b == [reg EXCEPT !.next = n]
           us == {v \in reg.users : v.id # u.id} \cup {u}
<1>1. b \in Tables /\ b.next = n /\ b.email_tokens = reg.email_tokens
      /\ b.users = reg.users
  BY DEF Tables
<1>2. us \subseteq [id : Nat, email : {"admin", "visitor"}, verified : BOOLEAN]
  BY DEF Tables
<1>3. Registration!insert_user(b, u) = [b EXCEPT !.users = us]
  BY <1>1 DEF Registration!insert_user
<1> HIDE DEF us, b
<1>4. LET r == [b EXCEPT !.users = us] IN
      r \in Tables /\ r.next = b.next /\ r.email_tokens = b.email_tokens /\ r.users = us
  BY <1>1, <1>2 DEF Tables
<1> QED BY <1>1, <1>3, <1>4 DEF us, b

\* What the first step of a form's call does to the tables.
LEMMA FormReply ==
  ASSUME reg \in Tables, NEW s \in Slots, calls[s].op \in FormOps
  PROVE  LET c == calls[s]   r == RegistrationReply(c) IN
         /\ r.tag \in {"ok", "err"}
         /\ c.op = "register" =>
              /\ r.tag = "ok"
              /\ r.reg = Registration!insert_user([reg EXCEPT !.next = reg.next + 1],
                   [id |-> reg.next, email |-> "visitor", verified |-> FALSE])
         /\ c.op = "verify" =>
              LET hits == Registration!Usable(reg.email_tokens, c.arg) IN
              \/ r.tag = "err" /\ r.reg = reg
              \/ /\ r.tag = "ok" /\ hits # {}
                 /\ r.reg = [reg EXCEPT !.email_tokens = reg.email_tokens \ hits]
         /\ c.op \in {"request reset", "reset"} => r.reg = reg
<1> DEFINE c == calls[s]
           r == RegistrationReply(c)
<1>0. reg.credentials = {} /\ reg.reset_tokens = {} /\ c.op \in FormOps
  BY DEF Tables
<1>1. LET q == Registration!register_server(reg, "visitor") IN
      /\ q.tag = "ok"
      /\ q.reg = Registration!insert_user([reg EXCEPT !.next = reg.next + 1],
                   [id |-> reg.next, email |-> "visitor", verified |-> FALSE])
  BY <1>0 DEF Registration!register_server, Registration!Done
<1>2. LET q == Registration!verify_email_token(reg, c.arg)
          hits == Registration!Usable(reg.email_tokens, c.arg) IN
      \/ q.tag = "err" /\ q.reg = reg
      \/ /\ q.tag = "ok" /\ hits # {}
         /\ q.reg = [reg EXCEPT !.email_tokens = reg.email_tokens \ hits]
  BY DEF Registration!verify_email_token, Registration!Done
<1>3. LET q == Registration!request_password_reset_server(reg, "visitor") IN
      q.tag = "ok" /\ q.reg = reg
  BY <1>0 DEF Registration!request_password_reset_server, Registration!Done
<1>4. LET q == Registration!reset_password_server(reg, c.arg) IN
      q.tag = "err" /\ q.reg = reg
  BY <1>0 DEF Registration!reset_password_server, Registration!Usable,
     Registration!Done
<1>5. /\ c.op = "register" => r = Registration!register_server(reg, "visitor")
      /\ c.op = "verify" => r = Registration!verify_email_token(reg, c.arg)
      /\ c.op = "request reset" =>
           r = Registration!request_password_reset_server(reg, "visitor")
      /\ c.op = "reset" => r = Registration!reset_password_server(reg, c.arg)
  BY DEF RegistrationReply
<1> HIDE DEF c, r
<1> QED BY <1>0, <1>1, <1>2, <1>3, <1>4, <1>5 DEF FormOps, c, r

\* Only the registration demo's forms are answered in two steps.
LEMMA FormCall ==
  ASSUME AppOK, NEW s \in Slots,
         \/ calls[s].at = "sent" /\ calls[s].op \notin SessionOps
         \/ calls[s].at = "halfway"
  PROVE  s \in Forms /\ calls[s].op \in FormOps
<1>1. CallOK(s, calls[s]) /\ calls[s] \in CallRecord
  BY CallsAreOK
<1> QED BY <1>1 DEF CallOK, CallRecord, SessionOps, FormOps, Slots

\* A call that goes on keeps its account's number and no cookie.
LEMMA HalfwayFacts ==
  ASSUME NEW c \in CallRecord, NEW arg \in Nat
  PROVE  LET h == [c EXCEPT !.at = "halfway", !.cookie = NoCookie, !.arg = arg] IN
         /\ h \in CallRecord /\ h.op = c.op /\ h.at = "halfway" /\ h.arg = arg
         /\ h.cookie = 0 /\ h.set = c.set /\ h.from = c.from
BY DEF CallRecord, NoCookie

\* What ServeForm leaves: the call goes on or is answered.
LEMMA FormServed ==
  ASSUME AppOK, RegOK, NEW s \in Slots, ServeForm(s)
  PROVE  LET c == calls[s]   r == RegistrationReply(c)
             arg == IF c.op = "register" THEN reg.next ELSE c.arg
         IN /\ s \in Forms /\ c.op \in FormOps /\ CallOK(s, c) /\ CallOK(s, calls'[s])
            /\ calls' = [calls EXCEPT ![s] = calls'[s]]
            /\ calls'[s].op = c.op /\ calls'[s].cookie <= srv.issued
            /\ reg' = r.reg /\ r.tag \in {"ok", "err"}
            /\ IF c.op \in {"register", "verify"} /\ r.tag = "ok"
               THEN calls'[s].at = "halfway" /\ calls'[s].arg = arg
               ELSE calls'[s].at = "served"
            /\ UNCHANGED <<app, ui, jar, srv, agreed>>
<1> DEFINE c == calls[s]
           r == RegistrationReply(c)
           arg == IF c.op = "register" THEN reg.next ELSE c.arg
           goes == c.op \in {"register", "verify"} /\ r.tag = "ok"
           h == [c EXCEPT !.at = "halfway", !.cookie = NoCookie, !.arg = arg]
           a == Answered(c, r.tag, Keep)
           d == IF goes THEN h ELSE a
<1>1. /\ c.at = "sent" /\ c.op \notin SessionOps /\ reg' = r.reg
      /\ calls' = [calls EXCEPT ![s] = d]
      /\ UNCHANGED <<app, ui, jar, srv, agreed>>
  BY DEF ServeForm
<1>2. s \in Forms /\ c.op \in FormOps /\ CallOK(s, c) /\ c \in CallRecord
      /\ c.cookie <= srv.issued /\ srv.issued \in Nat /\ c.cookie \in Nat
  BY <1>1, FormCall, CallsAreOK DEF AppOK, TabOK, NumbersOK, CallRecord, ServerRecord
<1>3. r.tag \in {"ok", "err"}
  BY <1>2, FormReply DEF RegOK
<1>4. arg \in Nat
  BY <1>2 DEF RegOK, Tables, CallRecord
<1>5. calls'[s] = d
  BY <1>1, CallsAreOK
<1> HIDE DEF c, r, arg
<1>6. /\ h \in CallRecord /\ h.op = c.op /\ h.at = "halfway" /\ h.arg = arg
      /\ h.cookie = 0 /\ h.set = c.set /\ h.from = c.from
  BY <1>2, <1>4, HalfwayFacts
<1>7. r.tag \in Tags /\ Keep \in SetCookie
  BY <1>3 DEF Tags, SetCookie
<1>8. /\ a \in CallRecord /\ a.op = c.op /\ a.at = "served" /\ a.from = c.from
      /\ a.tag = r.tag /\ a.set = Keep /\ a.cookie \in {0, c.cookie}
  BY ONLY <1>2, <1>7, AnsweredFacts DEF a
<1> HIDE DEF h, a
<1>9. h.cookie <= srv.issued /\ a.cookie <= srv.issued
  BY ONLY <1>2, <1>6, <1>8
<1>10. goes => CallOK(s, h)
  BY <1>2, <1>6 DEF CallOK, Changing
<1>11. CallOK(s, a)
  <2>1. c.op # "none"
    BY <1>2 DEF FormOps
  <2> QED BY <1>2, <1>7, <1>8, <2>1 DEF CallOK, Changing
<1> QED BY <1>1, <1>2, <1>3, <1>5, <1>6, <1>8, <1>9, <1>10, <1>11 DEF c, r, arg

\* For sessions and status the first step of a form is of no account.
LEMMA ServeFormKeeps ==
  ASSUME AppOK, RegOK, NEW s \in Slots, ServeForm(s)
  PROVE  AppOK'
<1> DEFINE d == calls'[s]
<1>1. /\ s \in Forms /\ calls[s].op \in FormOps /\ CallOK(s, d)
      /\ calls' = [calls EXCEPT ![s] = d]
      /\ d.op = calls[s].op /\ d.cookie <= srv.issued
      /\ UNCHANGED <<app, ui, jar, srv, agreed>>
  BY FormServed
<1> HIDE DEF d
<1>2. ~ Changing(calls[s]) /\ ~ Changing(d) /\ s \in Slots \ {"whoami"}
  BY <1>1, SlotFacts DEF Changing, FormOps
<1> QED BY <1>1, <1>2, QuietStep

\* What is left of the tables' invariant when a step has been seen to type them,
\* with the calls that are halfway after it.
LEMMA TablesMoved ==
  ASSUME reg' \in Tables,
         \A u \in reg'.users : u.id \in 0..(reg'.next - 1),
         \A x \in reg'.email_tokens : x.token \in 1..(reg'.next - 1) /\ x.user = x.token,
         \A x, y \in reg'.email_tokens : x.token = y.token => x = y,
         \A t \in Slots : calls'[t].at = "halfway" =>
           /\ calls'[t].arg \in 1..(reg'.next - 1)
           /\ \A o \in Slots : calls'[o].at = "halfway" /\ calls'[t].arg = calls'[o].arg
                => t = o
           /\ \A x \in reg'.email_tokens : calls'[t].arg # x.token
           /\ \A u \in reg'.users : calls'[t].op = "register" /\ calls'[t].arg = u.id
                => ~ u.verified,
         VerifiedByOwnToken'
  PROVE  RegOK'
BY DEF RegOK

\* An account is created: its number is new to tokens and calls alike.
LEMMA RegisterTables ==
  ASSUME AppOK, RegOK, NEW s \in Slots, ServeForm(s), calls[s].op = "register"
  PROVE  RegOK'
<1> DEFINE c == calls[s]
           r == RegistrationReply(c)
           k == reg.next
           u == [id |-> k, email |-> "visitor", verified |-> FALSE]
           b == [reg EXCEPT !.next = k + 1]
<1>1. /\ c.op \in FormOps /\ reg' = r.reg /\ calls'[s].op = "register"
      /\ c.op \in {"register", "verify"} /\ r.tag = "ok" =>
           calls'[s].at = "halfway" /\ calls'[s].arg = k
      /\ calls' = [calls EXCEPT ![s] = calls'[s]]
  BY FormServed
<1>2. reg \in Tables /\ k \in Nat \ {0}
  BY DEF RegOK, Tables
<1>3. r.tag = "ok" /\ r.reg = Registration!insert_user(b, u)
  BY <1>1, <1>2, FormReply
<1>4. calls'[s].at = "halfway" /\ calls'[s].arg = k
  BY <1>1, <1>3
<1>5. \A t \in Slots \ {s} : calls'[t] = calls[t]
  BY <1>1, SlotReplaced
<1>6. u \in [id : Nat, email : {"admin", "visitor"}, verified : BOOLEAN]
      /\ u.id = k /\ u.verified = FALSE
  BY <1>2
<1> HIDE DEF u, c, r
<1>7. /\ reg' \in Tables /\ reg'.next = k + 1 /\ reg'.email_tokens = reg.email_tokens
      /\ reg'.users = {v \in reg.users : v.id # u.id} \cup {u}
  <2>1. k + 1 \in Nat \ {0}
    BY <1>2
  <2> QED BY <1>1, <1>2, <1>3, <1>6, <2>1, InsertedUser
<1> HIDE DEF k
<1>20. reg'.next = k + 1 /\ k \in Nat \ {0}
  BY <1>2, <1>7
<1>8. \A n \in 0..(k - 1) : n \in 0..(reg'.next - 1) /\ n # k
  BY ONLY <1>20
<1>9. \A n \in 1..(k - 1) : n \in 1..(reg'.next - 1) /\ n # k
  BY ONLY <1>20
<1>10. k \in 0..(reg'.next - 1) /\ k \in 1..(reg'.next - 1)
  BY ONLY <1>20
<1>11. \A v \in reg.users : v.id \in 0..(k - 1)
  BY DEF RegOK, k
<1>12. \A v \in reg'.users : v = u \/ (v \in reg.users /\ v.id \in 0..(k - 1))
  BY <1>7, <1>11
<1>13. \A x \in reg'.email_tokens : x.token \in 1..(k - 1) /\ x.user = x.token
  BY <1>7 DEF RegOK, k
<1>14. \A t \in Slots \ {s} : calls'[t].at = "halfway" => calls'[t].arg \in 1..(k - 1)
  BY <1>5 DEF RegOK, k
<1>15. \A v \in reg'.users : v.id \in 0..(reg'.next - 1)
  BY <1>6, <1>8, <1>10, <1>12
<1>16. \A x \in reg'.email_tokens : x.token \in 1..(reg'.next - 1) /\ x.user = x.token
  BY <1>9, <1>13
<1>17. \A x, y \in reg'.email_tokens : x.token = y.token => x = y
  BY <1>7 DEF RegOK
<1>18. VerifiedByOwnToken'
  BY <1>6, <1>7, <1>12 DEF VerifiedByOwnToken, RegOK
<1>19. ASSUME NEW t \in Slots, calls'[t].at = "halfway"
       PROVE  /\ calls'[t].arg \in 1..(reg'.next - 1)
              /\ \A o \in Slots : calls'[o].at = "halfway" /\ calls'[t].arg = calls'[o].arg
                   => t = o
              /\ \A x \in reg'.email_tokens : calls'[t].arg # x.token
              /\ \A v \in reg'.users : calls'[t].op = "register" /\ calls'[t].arg = v.id
                   => ~ v.verified
  <2>1. CASE t = s
    <3>1. calls'[t].arg \in 1..(reg'.next - 1)
      BY <1>4, <1>10, <2>1
    <3>2. \A o \in Slots : calls'[o].at = "halfway" /\ calls'[t].arg = calls'[o].arg
            => t = o
      BY <1>4, <1>9, <1>14, <2>1
    <3>3. \A x \in reg'.email_tokens : calls'[t].arg # x.token
      BY <1>4, <1>9, <1>13, <2>1
    <3>4. \A v \in reg'.users : calls'[t].arg = v.id => ~ v.verified
      BY <1>4, <1>6, <1>8, <1>12, <2>1
    <3> QED BY <3>1, <3>2, <3>3, <3>4
  <2>2. CASE t # s
    <3>1. calls'[t] = calls[t] /\ calls'[t].arg \in 1..(k - 1)
      BY <1>5, <1>14, <1>19, <2>2
    <3>2. calls'[t].arg \in 1..(reg'.next - 1)
      BY <1>9, <3>1
    <3>3. \A o \in Slots : calls'[o].at = "halfway" /\ calls'[t].arg = calls'[o].arg
            => t = o
      <4> TAKE o \in Slots
      <4>1. CASE o = s
        BY <1>4, <1>9, <3>1, <4>1
      <4>2. CASE o # s
        BY <1>5, <1>19, <3>1, <4>2 DEF RegOK
      <4> QED BY <4>1, <4>2
    <3>4. \A x \in reg'.email_tokens : calls'[t].arg # x.token
      BY <1>7, <1>19, <3>1 DEF RegOK
    <3>5. \A v \in reg'.users : calls'[t].op = "register" /\ calls'[t].arg = v.id
            => ~ v.verified
      BY <1>6, <1>7, <1>19, <3>1 DEF RegOK
    <3> QED BY <3>2, <3>3, <3>4, <3>5
  <2> QED BY <2>1, <2>2
<1> QED BY <1>7, <1>15, <1>16, <1>17, <1>18, <1>19, TablesMoved

\* A verification takes the token out of the list: its call alone stands for it now.
LEMMA VerifyTables ==
  ASSUME AppOK, RegOK, NEW s \in Slots, ServeForm(s), calls[s].op = "verify"
  PROVE  RegOK'
<1> DEFINE c == calls[s]
           r == RegistrationReply(c)
           hits == Registration!Usable(reg.email_tokens, c.arg)
           left == reg.email_tokens \ hits
<1>1. /\ c.op \in FormOps /\ reg' = r.reg /\ calls'[s].op = "verify"
      /\ r.tag \in {"ok", "err"}
      /\ IF r.tag = "ok" THEN calls'[s].at = "halfway" /\ calls'[s].arg = c.arg
         ELSE calls'[s].at = "served"
      /\ calls' = [calls EXCEPT ![s] = calls'[s]]
  BY FormServed
<1>2. \A t \in Slots \ {s} : calls'[t] = calls[t]
  BY <1>1, SlotReplaced
<1>3. reg \in Tables
  BY DEF RegOK
<1>4. \/ r.tag = "err" /\ r.reg = reg
      \/ /\ r.tag = "ok" /\ hits # {}
         /\ r.reg = [reg EXCEPT !.email_tokens = left]
  BY <1>1, <1>3, FormReply
<1>5. hits = {x \in reg.email_tokens : x.token = c.arg /\ ~ x.expired}
  BY DEF Registration!Usable
<1> HIDE DEF r, hits
<1>6. CASE r.tag = "err"
  <2>1. reg' = reg /\ HalfwayBefore(calls', calls)
    BY <1>1, <1>2, <1>4, <1>6 DEF HalfwayBefore
  <2> QED BY <2>1, TablesStay
<1>7. CASE r.tag = "ok"
  <2> DEFINE a == c.arg
  <2>1. hits # {} /\ reg' = [reg EXCEPT !.email_tokens = left]
        /\ calls'[s].at = "halfway" /\ calls'[s].arg = a
    BY <1>1, <1>4, <1>7
  <2>2. left \subseteq reg.email_tokens
    OBVIOUS
  <2>3. PICK h \in reg.email_tokens : h.token = a
    BY <1>5, <2>1
  <2>4. \A x \in left : x.token # a
    BY <1>5, <2>1 DEF RegOK
  <2> HIDE DEF left, a, c
  <2>5. /\ reg' \in Tables /\ reg'.users = reg.users /\ reg'.next = reg.next
        /\ reg'.email_tokens = left
    BY <1>3, <2>1, <2>2 DEF Tables
  <2>6. VerifiedByOwnToken'
    BY <2>2, <2>5 DEF RegOK, VerifiedByOwnToken
  <2>7. ASSUME NEW t \in Slots, calls'[t].at = "halfway"
        PROVE  /\ calls'[t].arg \in 1..(reg'.next - 1)
               /\ \A o \in Slots : calls'[o].at = "halfway" /\ calls'[t].arg = calls'[o].arg
                    => t = o
               /\ \A x \in reg'.email_tokens : calls'[t].arg # x.token
               /\ \A v \in reg'.users : calls'[t].op = "register" /\ calls'[t].arg = v.id
                    => ~ v.verified
    <3>1. \A o \in Slots \ {s} : calls'[o].at = "halfway" => calls'[o].arg # a
      BY <1>2, <2>3 DEF RegOK
    <3>2. CASE t = s
      BY <1>1, <2>1, <2>3, <2>4, <2>5, <3>1, <3>2 DEF RegOK
    <3>3. CASE t # s
      <4>1. calls'[t] = calls[t]
        BY <1>2, <3>3
      <4>2. \A o \in Slots : calls'[o].at = "halfway" /\ calls'[t].arg = calls'[o].arg
              => t = o
        <5> TAKE o \in Slots
        <5>1. CASE o = s
          BY <2>1, <2>7, <3>1, <3>3, <5>1
        <5>2. CASE o # s
          BY <1>2, <2>7, <4>1, <5>2 DEF RegOK
        <5> QED BY <5>1, <5>2
      <4> QED BY <2>2, <2>5, <2>7, <4>1, <4>2 DEF RegOK
    <3> QED BY <3>2, <3>3
  <2>8. \A u \in reg'.users : u.id \in 0..(reg'.next - 1)
    BY <2>5 DEF RegOK
  <2>9. /\ \A x \in reg'.email_tokens : x.token \in 1..(reg'.next - 1) /\ x.user = x.token
        /\ \A x, y \in reg'.email_tokens : x.token = y.token => x = y
    BY <2>2, <2>5 DEF RegOK
  <2> QED BY <2>5, <2>6, <2>7, <2>8, <2>9, TablesMoved
<1> QED BY <1>1, <1>6, <1>7

\* The first step of every form.
LEMMA ServeFormTables ==
  ASSUME AppOK, RegOK, NEW s \in Slots, ServeForm(s)
  PROVE  RegOK'
<1>1. /\ calls[s].op \in FormOps /\ reg' = RegistrationReply(calls[s]).reg
      /\ calls[s].op \notin {"register", "verify"} => calls'[s].at = "served"
      /\ calls' = [calls EXCEPT ![s] = calls'[s]]
  BY FormServed
<1>2. CASE calls[s].op \in {"request reset", "reset"}
  <2>1. reg' = reg
    BY <1>1, <1>2, FormReply DEF RegOK
  <2>2. \A t \in Slots \ {s} : calls'[t] = calls[t]
    BY <1>1, SlotReplaced
  <2>3. HalfwayBefore(calls', calls)
    BY <1>1, <1>2, <2>2 DEF HalfwayBefore
  <2> QED BY <2>1, <2>3, TablesStay
<1> QED BY <1>1, <1>2, RegisterTables, VerifyTables DEF FormOps

\* The second step of a registration or a verification answers the call.
LEMMA RestServed ==
  ASSUME AppOK, NEW s \in Slots, ServeRest(s)
  PROVE  LET c == calls[s]
             r == IF c.op = "register" THEN Registration!insert_email_token(reg, c.arg)
                  ELSE Registration!VerifyUser(reg, c.arg)
         IN /\ s \in Forms /\ c.op \in {"register", "verify"} /\ c.at = "halfway"
            /\ CallOK(s, calls'[s])
            /\ calls' = [calls EXCEPT ![s] = calls'[s]]
            /\ calls'[s].op = c.op /\ calls'[s].cookie <= srv.issued
            /\ calls'[s].at = "served"
            /\ reg' = r.reg
            /\ UNCHANGED <<app, ui, jar, srv, agreed>>
<1> DEFINE c == calls[s]
           r == IF c.op = "register" THEN Registration!insert_email_token(reg, c.arg)
                ELSE Registration!VerifyUser(reg, c.arg)
           a == Answered(c, r.tag, Keep)
<1>1. /\ c.at = "halfway" /\ reg' = r.reg /\ calls' = [calls EXCEPT ![s] = a]
      /\ UNCHANGED <<app, ui, jar, srv, agreed>>
  BY DEF ServeRest
<1>2. s \in Forms /\ CallOK(s, c) /\ c \in CallRecord
      /\ c.cookie <= srv.issued /\ srv.issued \in Nat /\ c.cookie \in Nat
  BY <1>1, FormCall, CallsAreOK DEF AppOK, TabOK, NumbersOK, CallRecord, ServerRecord
<1>3. c.op \in {"register", "verify"}
  BY <1>1, <1>2 DEF CallOK
<1>4. r.tag \in {"ok", "err"}
  BY DEF Registration!insert_email_token, Registration!VerifyUser, Registration!Done
<1>5. calls'[s] = a
  BY <1>1, CallsAreOK
<1> HIDE DEF c, r
<1>6. r.tag \in Tags /\ Keep \in SetCookie
  BY <1>4 DEF Tags, SetCookie
<1>7. /\ a \in CallRecord /\ a.op = c.op /\ a.at = "served" /\ a.from = c.from
      /\ a.tag = r.tag /\ a.set = Keep /\ a.cookie \in {0, c.cookie}
  BY ONLY <1>2, <1>6, AnsweredFacts DEF a
<1> HIDE DEF a
<1>8. a.cookie <= srv.issued
  BY ONLY <1>2, <1>7
<1>9. CallOK(s, a)
  BY <1>2, <1>3, <1>6, <1>7 DEF CallOK, Changing
<1> QED BY <1>1, <1>2, <1>3, <1>5, <1>7, <1>8, <1>9 DEF c, r

\* Nor is the second.
LEMMA ServeRestKeeps ==
  ASSUME AppOK, NEW s \in Slots, ServeRest(s)
  PROVE  AppOK'
<1> DEFINE d == calls'[s]
<1>1. /\ s \in Forms /\ calls[s].op \in {"register", "verify"} /\ CallOK(s, d)
      /\ calls' = [calls EXCEPT ![s] = d]
      /\ d.op = calls[s].op /\ d.cookie <= srv.issued
      /\ UNCHANGED <<app, ui, jar, srv, agreed>>
  BY RestServed
<1> HIDE DEF d
<1>2. ~ Changing(calls[s]) /\ ~ Changing(d) /\ s \in Slots \ {"whoami"}
  BY <1>1, SlotFacts DEF Changing
<1> QED BY <1>1, <1>2, QuietStep

\* The token that is stored, and the account that is verified, are those of the call
\* that was halfway; nobody else holds their number.
LEMMA RestTables ==
  ASSUME AppOK, RegOK, NEW s \in Slots, ServeRest(s)
  PROVE  RegOK'
<1> DEFINE c == calls[s]
           a == c.arg
           k == reg.next
<1>1. /\ c.op \in {"register", "verify"} /\ c.at = "halfway"
      /\ calls'[s].at = "served"
      /\ calls' = [calls EXCEPT ![s] = calls'[s]]
      /\ c.op = "register" => reg' = Registration!insert_email_token(reg, a).reg
      /\ c.op = "verify" => reg' = Registration!VerifyUser(reg, a).reg
  BY RestServed
<1>2. \A t \in Slots \ {s} : calls'[t] = calls[t]
  BY <1>1, SlotReplaced
<1>3. reg \in Tables /\ k \in Nat \ {0} /\ a \in 1..(k - 1)
  BY <1>1 DEF RegOK, Tables
<1>4. a \in Nat /\ a \in 0..(k - 1)
  BY <1>3
<1>5. /\ \A x \in reg.email_tokens : x.token # a /\ x.user = x.token
      /\ \A t \in Slots \ {s} : calls[t].at = "halfway" => calls[t].arg # a
  BY <1>1 DEF RegOK
<1>6. \A t \in Slots : calls'[t].at = "halfway" =>
        /\ t # s /\ calls'[t] = calls[t] /\ calls[t].at = "halfway"
        /\ calls'[t].arg # a
  BY <1>1, <1>2, <1>5
<1>7. \A t \in Slots : calls'[t].at = "halfway" =>
        /\ calls'[t].arg \in 1..(k - 1)
        /\ \A o \in Slots : calls'[o].at = "halfway" /\ calls'[t].arg = calls'[o].arg
             => t = o
        /\ \A x \in reg.email_tokens : calls'[t].arg # x.token
        /\ \A v \in reg.users : calls'[t].op = "register" /\ calls'[t].arg = v.id
             => ~ v.verified
  BY <1>6 DEF RegOK
<1>8. CASE c.op = "register"
  <2> DEFINE x == [token |-> a, user |-> a, expired |-> FALSE]
             ts == reg.email_tokens \cup {x}
  <2>1. reg' = [reg EXCEPT !.email_tokens = ts]
    BY <1>1, <1>8 DEF Registration!insert_email_token, Registration!Done
  <2>2. x \in [token : Nat, user : Nat, expired : BOOLEAN] /\ x.token = a /\ x.user = a
    BY <1>4
  <2>3. \A v \in reg.users : v.id = a => ~ v.verified
    BY <1>1, <1>8 DEF RegOK
  <2> HIDE DEF x, a, c
  <2>4. ts \subseteq [token : Nat, user : Nat, expired : BOOLEAN]
    BY <1>3, <2>2 DEF Tables
  <2>5. \A y \in ts : y = x \/ y \in reg.email_tokens
    OBVIOUS
  <2> HIDE DEF ts
  <2>6. /\ reg' \in Tables /\ reg'.users = reg.users /\ reg'.next = k
        /\ reg'.email_tokens = ts
    BY <1>3, <2>1, <2>4 DEF Tables
  <2>7. \A u \in reg'.users : u.id \in 0..(reg'.next - 1)
    BY <2>6 DEF RegOK
  <2>8. \A y \in ts : y.token \in 1..(k - 1) /\ y.user = y.token
    BY <1>3, <2>2, <2>5 DEF RegOK
  <2>9. \A y, z \in ts : y.token = z.token => y = z
    BY <1>5, <2>2, <2>5 DEF RegOK
  <2>10. VerifiedByOwnToken'
    BY <2>2, <2>3, <2>5, <2>6 DEF RegOK, VerifiedByOwnToken
  <2>11. \A t \in Slots : calls'[t].at = "halfway" =>
           \A y \in ts : calls'[t].arg # y.token
    BY <1>6, <1>7, <2>2, <2>5
  <2> HIDE DEF k
  <2> QED BY <1>7, <2>6, <2>7, <2>8, <2>9, <2>10, <2>11, TablesMoved
<1>9. CASE c.op = "verify"
  <2> DEFINE found == {v \in reg.users : v.id = a}
             w == CHOOSE v \in found : TRUE
             u == [id |-> a, email |-> w.email, verified |-> TRUE]
  <2>1. CASE found = {}
    <3>1. reg' = reg
      BY <1>1, <1>9, <2>1 DEF Registration!VerifyUser, Registration!Done
    <3>2. HalfwayBefore(calls', calls)
      BY <1>6 DEF HalfwayBefore
    <3> QED BY <3>1, <3>2, TablesStay
  <2>2. CASE found # {}
    <3>1. reg' = Registration!insert_user(reg, u)
      BY <1>1, <1>9, <2>2 DEF Registration!VerifyUser, Registration!Done
    <3>2. w \in reg.users
      BY <2>2
    <3> HIDE DEF w
    <3>3. w.email \in {"admin", "visitor"}
      BY <1>3, <3>2 DEF Tables
    <3>4. u \in [id : Nat, email : {"admin", "visitor"}, verified : BOOLEAN] /\ u.id = a
      BY <1>4, <3>3
    <3>5. reg = [reg EXCEPT !.next = k]
      BY <1>3 DEF Tables
    <3> HIDE DEF u, a, c, k
    <3>6. LET r == Registration!insert_user([reg EXCEPT !.next = k], u) IN
          /\ r \in Tables /\ r.next = k /\ r.email_tokens = reg.email_tokens
          /\ r.users = {v \in reg.users : v.id # u.id} \cup {u}
      BY <1>3, <3>4, InsertedUser
    <3>7. /\ reg' \in Tables /\ reg'.next = k /\ reg'.email_tokens = reg.email_tokens
          /\ reg'.users = {v \in reg.users : v.id # u.id} \cup {u}
      BY <3>1, <3>5, <3>6
    <3>8. \A v \in reg'.users : v = u \/ v \in reg.users
      BY <3>7
    <3>9. \A v \in reg'.users : v.id \in 0..(reg'.next - 1)
      BY <1>4, <3>4, <3>7, <3>8 DEF RegOK, k
    <3>10. /\ \A x \in reg'.email_tokens :
                x.token \in 1..(reg'.next - 1) /\ x.user = x.token
           /\ \A x, y \in reg'.email_tokens : x.token = y.token => x = y
      BY <3>7 DEF RegOK, k
    <3>11. VerifiedByOwnToken'
      BY <1>5, <3>4, <3>7, <3>8 DEF RegOK, VerifiedByOwnToken
    <3>12. \A t \in Slots : calls'[t].at = "halfway" =>
             \A v \in reg'.users : calls'[t].op = "register" /\ calls'[t].arg = v.id
               => ~ v.verified
      BY <1>6, <1>7, <3>4, <3>8
    <3> QED BY <1>7, <3>7, <3>9, <3>10, <3>11, <3>12, TablesMoved
  <2> QED BY <2>1, <2>2
<1> QED BY <1>1, <1>8, <1>9

\* Rendering sends, drops or leaves behind; no call gets halfway by it.
LEMMA RenderHalfway ==
  ASSUME NEW u \in UiRecord, NEW cs, CallsOK(cs), NEW was, Render(u, cs, was)
  PROVE  HalfwayBefore(calls', cs)
<1>1. \A s \in Slots : cs[s] \in CallRecord
  BY DEF CallsOK, CallOK
<1>2. ASSUME NEW s \in Slots \ {"metrics"}
      PROVE  calls'[s].at = cs[s].at /\ calls'[s].op = cs[s].op /\ calls'[s].arg = cs[s].arg
  <2>1. CASE calls'[s] = cs[s]
    BY <2>1
  <2>2. CASE calls'[s] = [cs[s] EXCEPT !.from = "gone"]
    BY <1>1, <2>2, GoneFacts
  <2> QED BY <2>1, <2>2, RenderFacts
<1>3. calls'["metrics"].at = "halfway" => calls'["metrics"] = cs["metrics"]
  <2>1. Sent("metrics", 0, u.page).at = "sent" /\ Idle.at = "idle"
    BY DEF Sent, Idle
  <2> QED BY <2>1, RenderFacts
<1> QED BY <1>2, <1>3 DEF HalfwayBefore

\* A call that is moved elsewhere than halfway.
LEMMA SlotHalfway ==
  ASSUME AppOK, NEW s \in Slots, NEW d, d.at # "halfway",
         calls' = [calls EXCEPT ![s] = d]
  PROVE  HalfwayBefore(calls', calls)
BY SlotReplaced DEF HalfwayBefore

\* An answer ends the wait, whatever it is.
LEMMA AnsweredAt ==
  ASSUME NEW c \in CallRecord, NEW tag, NEW set
  PROVE  /\ Answered(c, tag, set).at = "served"
         /\ [Answered(c, tag, set) EXCEPT !.at = "arrived"].at = "arrived"
BY DEF Answered, CallRecord

\* Whatever else the tab does, no call gets halfway by it.
LEMMA PageHalfway ==
  ASSUME AppOK,
         \/ \E p \in Routes : ReloadPage(p) \/ Follow(p)
         \/ GateRedirects \/ SignInHere \/ SignOutHere
  PROVE  HalfwayBefore(calls', calls)
<1> USE SlotFacts
<1>1. ui \in UiRecord /\ CallsOK(calls) /\ app \in AppNames
      /\ \A s \in Slots : calls[s] \in CallRecord
  BY CallsAreOK DEF AppOK, TabOK
<1>2. ASSUME NEW p \in Routes, ReloadPage(p) PROVE HalfwayBefore(calls', calls)
  <2>1. Sent("metrics", 0, p).at = "sent" /\ Sent("whoami", 0, "app").at = "sent"
        /\ Idle.at = "idle" /\ Probing.at \in {"idle", "sent"}
    BY DEF Sent, Idle, Probing
  <2>2. ASSUME NEW s \in Slots
        PROVE  \/ calls'[s].at # "halfway"
               \/ calls'[s] = [calls[s] EXCEPT !.from = "gone"]
    BY <1>2, <2>1 DEF ReloadPage
  <2> QED BY <1>1, <2>2, GoneFacts DEF HalfwayBefore
<1>3. ASSUME NEW p \in Routes, Follow(p) PROVE HalfwayBefore(calls', calls)
  <2> DEFINE u == GoTo(ui, p)
  <2>1. p \in Pages
    BY <1>1, RoutesAndStatus
  <2>2. u \in UiRecord /\ Render(u, calls, View(ui))
    BY <1>1, <1>3, <2>1 DEF Follow, GoTo, UiRecord
  <2> HIDE DEF u
  <2> QED BY <1>1, <2>2, RenderHalfway
<1>4. CASE GateRedirects
  <2> DEFINE p == IF ui.page = "login" THEN "dashboard" ELSE "login"
             u == GoTo(ui, p)
  <2>1. u \in UiRecord /\ Render(u, calls, View(ui))
    BY <1>1, <1>4 DEF GateRedirects, GoTo, UiRecord, Pages
  <2> HIDE DEF u
  <2> QED BY <1>1, <2>1, RenderHalfway
<1>5. CASE SignInHere
  <2> DEFINE u == Basic!LogIn(ui)
  <2>1. u \in UiRecord /\ Render(u, calls, View(ui))
    BY <1>1, <1>5 DEF SignInHere, Basic!LogIn, Basic!SetUser, UiRecord, Statuses
  <2> HIDE DEF u
  <2> QED BY <1>1, <2>1, RenderHalfway
<1>6. CASE SignOutHere
  <2>1. LoggedOut \in UiRecord /\ Render(LoggedOut, calls, View(ui))
    BY <1>1, <1>6, LoggedOutFacts DEF SignOutHere
  <2> QED BY <1>1, <2>1, RenderHalfway
<1> QED BY <1>2, <1>3, <1>4, <1>5, <1>6

\* A call that was just sent is not halfway.
LEMMA FormHalfway ==
  ASSUME AppOK, NEW f \in Forms, SubmitLogin(f) \/ PressLogOut(f) \/ SubmitForm(f)
  PROVE  HalfwayBefore(calls', calls)
<1>1. \E op, arg, from : Begin(f, op, arg, from)
  BY DEF SubmitLogin, PressLogOut, SubmitForm
<1>2. PICK op, arg, from : Begin(f, op, arg, from)
  BY <1>1
<1>3. Sent(op, arg, from).at = "sent" /\ calls' = [calls EXCEPT ![f] = Sent(op, arg, from)]
  BY <1>2 DEF Begin, Sent, Idle
<1> QED BY <1>3, SlotHalfway, SlotFacts

\* Nor is one of a session, or that is lost, received or awaited.
LEMMA CallHalfway ==
  ASSUME AppOK, NEW s \in Slots, Serve(s) \/ Lose(s) \/ Arrive(s) \/ Continue(s)
  PROVE  HalfwayBefore(calls', calls)
<1> DEFINE c == calls[s]
<1>1. c \in CallRecord
  BY CallsAreOK
<1>2. CASE Serve(s)
  <2>1. \E tag, set : calls' = [calls EXCEPT ![s] = Answered(c, tag, set)]
    BY <1>2 DEF Serve
  <2> HIDE DEF c
  <2> QED BY <1>1, <2>1, AnsweredAt, SlotHalfway
<1>3. CASE Lose(s)
  <2>1. calls' = [calls EXCEPT ![s] = [Answered(c, "lost", Keep) EXCEPT !.at = "arrived"]]
    BY <1>3 DEF Lose
  <2> HIDE DEF c
  <2> QED BY <1>1, <2>1, AnsweredAt, SlotHalfway
<1>4. CASE Arrive(s)
  <2>1. calls'[s].at = "arrived" /\ calls' = [calls EXCEPT ![s] = calls'[s]]
    BY <1>4, ArrivedFacts
  <2> QED BY <2>1, SlotHalfway
<1>5. CASE Continue(s)
  <2> DEFINE e == IF s \in Forms THEN Idle ELSE [c EXCEPT !.at = "done"]
             done == [calls EXCEPT ![s] = e]
  <2>1. /\ c.tag \in Tags /\ app # "basic"
        /\ s \notin Forms => e.at = "done"
        /\ done[s] = e /\ \A t \in Slots \ {s} : done[t] = calls[t]
        /\ CallsOK(done)
        /\ calls' = done \/ Render(Continued(c), done, View(ui))
    BY <1>5, DoneFacts
  <2>2. e.at # "halfway"
    BY <2>1, IdleFacts
  <2>3. ui \in UiRecord /\ app \in AppNames \ {"basic"}
    BY <2>1, CallsAreOK
  <2>4. Continued(c) \in UiRecord
    BY <2>1, <2>3, ContinuedFacts
  <2> HIDE DEF c, e, done
  <2>5. HalfwayBefore(done, calls)
    BY <2>1, <2>2 DEF HalfwayBefore
  <2>6. HalfwayBefore(calls', done)
    <3>1. CASE calls' = done
      BY <3>1 DEF HalfwayBefore
    <3>2. CASE Render(Continued(c), done, View(ui))
      BY <2>1, <2>4, <3>2, RenderHalfway
    <3> QED BY <2>1, <3>1, <3>2
  <2> QED BY <2>5, <2>6 DEF HalfwayBefore
<1> QED BY <1>2, <1>3, <1>4, <1>5

\* Every step of an application keeps both parts of the invariant.
LEMMA AppStep == AppOK /\ RegOK /\ AppNext => AppOK' /\ RegOK'
<1> SUFFICES ASSUME AppOK, RegOK, AppNext PROVE AppOK' /\ RegOK'
  OBVIOUS
<1>0. reg.next \in Nat
  BY DEF RegOK, Tables
<1>1. CASE \E p \in Routes : ReloadPage(p) \/ Follow(p)
  <2>1. reg' = reg
    BY <1>1 DEF ReloadPage, Follow
  <2> QED BY <1>1, <2>1, ReloadKeeps, FollowKeeps, PageHalfway, TablesStay
<1>2. CASE GateRedirects
  <2>1. reg' = reg
    BY <1>2 DEF GateRedirects
  <2> QED BY <1>2, <2>1, GateKeeps, PageHalfway, TablesStay
<1>3. CASE SignInHere \/ SignOutHere
  <2>1. reg' = reg
    BY <1>3 DEF SignInHere, SignOutHere
  <2> QED BY <1>3, <2>1, HereKeeps, PageHalfway, TablesStay
<1>4. CASE EndSession
  <2>1. reg' = reg /\ HalfwayBefore(calls', calls)
    BY <1>4 DEF EndSession, HalfwayBefore
  <2> QED BY <1>4, <2>1, EndKeeps, TablesStay
<1>5. CASE ExpireToken
  BY <1>5, ExpireKeeps, ExpireTables
<1>6. ASSUME NEW f \in Forms, SubmitLogin(f) \/ PressLogOut(f) \/ SubmitForm(f)
      PROVE  AppOK' /\ RegOK'
  <2>1. reg' = reg
    BY <1>6 DEF SubmitLogin, PressLogOut, SubmitForm, Begin
  <2> QED BY <1>0, <1>6, <2>1, FormsKeep, FormHalfway, TablesStay
<1>7. ASSUME NEW s \in Slots, Serve(s) PROVE AppOK' /\ RegOK'
  <2>1. reg' = reg
    BY <1>7 DEF Serve
  <2>2. s = "whoami" \/ s = "metrics" \/ s \in Forms
    BY DEF Slots
  <2>3. AppOK'
    BY <1>7, <2>2, ServeProbeKeeps, ServeMetricsKeeps, ServeChangeKeeps
  <2> QED BY <1>7, <2>1, <2>3, CallHalfway, TablesStay
<1>8. ASSUME NEW s \in Slots, Lose(s) \/ Arrive(s) \/ Continue(s) PROVE AppOK' /\ RegOK'
  <2>1. reg' = reg
    BY <1>8 DEF Lose, Arrive, Continue
  <2>2. AppOK'
    BY <1>8, LoseKeeps, ArriveKeeps, ContinueKeeps
  <2> QED BY <1>8, <2>1, <2>2, CallHalfway, TablesStay
<1>9. ASSUME NEW s \in Slots, ServeForm(s) \/ ServeRest(s) PROVE AppOK' /\ RegOK'
  BY <1>9, ServeFormKeeps, ServeFormTables, ServeRestKeeps, RestTables
<1> QED BY <1>1, <1>2, <1>3, <1>4, <1>5, <1>6, <1>7, <1>8, <1>9 DEF AppNext

-----------------------------------------------------------------------------
\* The three programs together.

\* Only the program that runs moves; of the others their first state is enough.
IInv ==
  /\ FileWhole /\ SecretMode /\ (program = "file" => FileOK)
  /\ IntentOnce /\ DestinationFresh /\ (program = "return_to" => ReturnOK)
  /\ AppOK /\ RegOK

\* The first state of whichever program runs.
LEMMA ProgramBegins == Init => IInv
<1> SUFFICES ASSUME Init PROVE IInv
  OBVIOUS
<1>1. FileWhole /\ SecretMode /\ (program = "file" => FileOK)
  <2>1. CASE program = "file"
    BY <2>1, FileBegins, FileOKMeans DEF Init
  <2>2. CASE program # "file"
    BY <2>2 DEF Init, FileWhole, SecretMode, Load
  <2> QED BY <2>1, <2>2
<1>2. ReturnOK /\ IntentOnce /\ DestinationFresh
  BY ReturnBegins DEF Init, ReturnOK, IntentOnce, DestinationFresh
<1>3. app \in AppNames
  BY AppsAssumption DEF Init, AppNames
<1>4. AppOK
  BY <1>3, AppBegins DEF Init
<1>5. reg = Registration!Registry /\ \A s \in Slots : calls[s].at # "halfway"
  <2>1. reg = Registration!Registry
    BY DEF Init, AppInit
  <2>2. PICK p \in Routes :
          calls = [s \in Slots |->
            IF s = "whoami" THEN Probing
            ELSE IF s = "metrics" /\ View(Fresh(p)) = "metrics"
                 THEN Sent("metrics", 0, p) ELSE Idle]
    BY DEF Init, AppInit
  <2>3. Probing.at # "halfway" /\ Sent("metrics", 0, p).at # "halfway"
        /\ Idle.at # "halfway"
    BY DEF Probing, Sent, Idle
  <2> QED BY <2>1, <2>2, <2>3
<1> QED BY <1>1, <1>2, <1>4, <1>5, RegBegins DEF IInv

\* An application's variables stay as they are.
LEMMA AppStays == AppOK /\ RegOK /\ UNCHANGED appVars => AppOK' /\ RegOK'
<1> SUFFICES ASSUME AppOK, RegOK, UNCHANGED appVars PROVE AppOK' /\ RegOK'
  OBVIOUS
<1>1. UNCHANGED <<app, ui, calls, jar, srv, reg, agreed>>
  BY DEF appVars
<1>2. ui \in UiRecord /\ UngatedPanics'
  BY <1>1 DEF AppOK, AppTyped, UngatedPanics
<1>3. AppOK'
  BY <1>1, <1>2, Carry DEF AppOK, AppTyped
<1>4. HalfwayBefore(calls', calls)
  BY <1>1 DEF HalfwayBefore
<1> QED BY <1>1, <1>3, <1>4, TablesStay

\* Every step of the program that runs keeps the invariant of all three.
LEMMA ProgramStep == IInv /\ [Next]_vars => IInv'
<1> SUFFICES ASSUME IInv, [Next]_vars PROVE IInv'
  OBVIOUS
<1>1. program' = program
  BY DEF Next, vars
<1>2. ASSUME UNCHANGED fileVars PROVE (FileWhole /\ SecretMode)'
  BY <1>2 DEF fileVars, IInv, FileWhole, SecretMode, Load
<1>3. ASSUME UNCHANGED <<misled, twice>> PROVE (IntentOnce /\ DestinationFresh)'
  BY <1>3 DEF IInv, IntentOnce, DestinationFresh
<1>4. CASE program = "file" /\ FileNext /\ UNCHANGED <<returnVars, appVars>>
  <2>1. FileOK'
    BY <1>4, FileStep DEF IInv
  <2>2. (FileWhole /\ SecretMode)'
    <3>1. Load' = committed' \/ overlapped'
      BY <2>1, TokensAssumption DEF FileOK, Alone, Load
    <3> QED BY <2>1, <3>1 DEF FileOK, ModesOK, FileWhole, SecretMode
  <2>3. AppOK' /\ RegOK'
    BY <1>4, AppStays DEF IInv
  <2>4. UNCHANGED <<misled, twice>>
    BY <1>4 DEF returnVars
  <2> QED BY <1>1, <1>3, <1>4, <2>1, <2>2, <2>3, <2>4 DEF IInv
<1>5. CASE program = "return_to" /\ ReturnNext /\ UNCHANGED <<fileVars, appVars>>
  <2>1. ReturnOK'
    BY <1>5, ReturnStep DEF IInv
  <2>2. (IntentOnce /\ DestinationFresh)'
    BY <2>1 DEF ReturnOK, IntentOnce, DestinationFresh
  <2>3. AppOK' /\ RegOK'
    BY <1>5, AppStays DEF IInv
  <2> QED BY <1>1, <1>2, <1>5, <2>1, <2>2, <2>3 DEF IInv
<1>6. CASE /\ program = "app" /\ AppNext
           /\ UNCHANGED <<fileVars, visitor, bounces, consumed, misled, twice>>
  BY <1>1, <1>2, <1>3, <1>6, AppStep DEF IInv
<1>7. CASE UNCHANGED vars
  <2>1. FileOK => FileOK'
    BY <1>7, FileStep DEF vars
  <2>2. ReturnOK => ReturnOK'
    BY <1>7, ReturnStep DEF vars
  <2>3. AppOK' /\ RegOK' /\ UNCHANGED fileVars /\ UNCHANGED <<misled, twice>>
    BY <1>7, AppStays DEF vars, returnVars, IInv
  <2> QED BY <1>1, <1>2, <1>3, <2>1, <2>2, <2>3 DEF IInv
<1> QED BY <1>4, <1>5, <1>6, <1>7 DEF Next

\* The invariant of a tab says what the status promises: a sign-in or sign-out that
\* took effect is still on its way, or status and cookie agree.
LEMMA TabMeans == AppOK => StatusMatchesJar /\ LoadingOnlyUnanswered
<1> SUFFICES ASSUME AppOK PROVE StatusMatchesJar /\ LoadingOnlyUnanswered
  OBVIOUS
<1>1. StatusMatchesJar
  <2> SUFFICES ASSUME ~ ui.panicked, app # "basic", agreed, Settled, ui.status # "Loading"
               PROVE  (ui.status = "Authenticated") = (jar \in srv.live)
    BY DEF StatusMatchesJar, Alive
  <2>1. \A f \in Forms : ~ TookEffect(calls[f])
    BY DEF Settled, TookEffect, Changing
  <2>2. Steady(ui, calls)
    BY <2>1 DEF AppOK, TabOK, AgreeOK
  <2> QED BY <2>2 DEF Steady
<1>2. LoadingOnlyUnanswered
  BY DEF AppOK, TabOK, ProbeOK, LoadingOnlyUnanswered, Alive
<1> QED BY <1>1, <1>2

\* Hence it always holds.
LEMMA ProgramInvariant == Spec => []IInv
BY ProgramBegins, ProgramStep, PTL DEF Spec

\* Unless two saves overlap, load finds the token of the last save that was renamed
\* into place: any number of savers, stopped wherever they are.
THEOREM TokenFileIsWhole == Spec => []FileWhole
BY ProgramInvariant, PTL DEF IInv

\* A token file that a save has put in place is readable by its owner only, however
\* saves overlap and whatever mode an old .tmp was left with.
THEOREM TokenFileIsPrivate == Spec => []SecretMode
BY ProgramInvariant, PTL DEF IInv

\* A parked destination is consumed by one login, unless two read it before either
\* removes it: any number of tabs.
THEOREM DestinationsAreConsumedOnce == Spec => []IntentOnce
BY ProgramInvariant, PTL DEF IInv

\* No login is sent to a destination that is older than its own tab's redirect.
THEOREM DestinationsAreFresh == Spec => []DestinationFresh
BY ProgramInvariant, PTL DEF IInv

\* Undisturbed and with no sign-in or sign-out under way, an example application's
\* status says what the server says of the cookie.
THEOREM StatusIsOfTheCookie == Spec => []StatusMatchesJar
BY ProgramInvariant, TabMeans, PTL DEF IInv

\* After the restore probe a page is Loading only if its answer was lost or was an
\* error of the server.
THEOREM LoadingIsUnanswered == Spec => []LoadingOnlyUnanswered
BY ProgramInvariant, TabMeans, PTL DEF IInv

\* A token of the registration demo verifies at most once and no account but its own.
THEOREM TokensVerifyTheirOwn == Spec => []VerifiedByOwnToken
BY ProgramInvariant, PTL DEF IInv, RegOK

-----------------------------------------------------------------------------
\* The metrics of a dashboard.  They are on their way or on the page only where the
\* dashboard is shown, which no sign-in on its way lets it be; and until a sign-out
\* takes effect they are about the cookie in the jar.

\* A sign-in is of the page, which is then the login page, or of a page that is gone.
LoginsHere(page, cs) ==
  \A f \in Forms : cs[f].op = "login" =>
    cs[f].from = "gone" \/ (cs[f].from = "login" /\ page = "login")

\* A page that shows the metrics, and is one of the three that have them.
OnDashboard(u) ==
  /\ u.page = "dashboard" /\ u.status = "Authenticated"
  /\ app \in {"sqlite_demo", "sqlx", "fullstack"}

\* A sign-out has taken effect that its page has yet to hear of.
SignedOutOf(cs) ==
  \E f \in Forms : cs[f].op = "log out" /\ cs[f].at \in {"served", "arrived"}

\* What is shown, and the call for it.
Told(shown, m) ==
  /\ m.at = "sent" => m.cookie = jar
  /\ m.at \in {"served", "arrived", "done"} => m.tag \in {"ok", "lost"}
  /\ shown = "error" => m.at = "done" /\ m.tag = "lost"

MetricsOK ==
  /\ LoginsHere(ui.page, calls)
  /\ calls["metrics"].at # "idle" \/ ui.metrics # "none" => OnDashboard(ui)
  /\ agreed /\ ~ SignedOutOf(calls) => Told(ui.metrics, calls["metrics"])

\* Only a dashboard with its user asks for metrics.
LEMMA MetricsView ==
  ASSUME app \in AppNames, NEW u \in UiRecord, View(u) = "metrics"
  PROVE  OnDashboard(u)
<1>1. u.page \in Pages /\ u.status \in Statuses
  BY DEF UiRecord
<1>2. CASE u.page = "dashboard"
  BY <1>1, <1>2 DEF AppNames, Statuses, View, OnDashboard,
     SqliteDemo!Dashboard, SqliteDemo!Unwrapped, Sqlx!Dashboard, Sqlx!Unwrapped,
     Fullstack!ProtectedLayout, Fullstack!Dashboard, Fullstack!Unwrapped,
     Fullstack!require_auth, Basic!ProtectedLayout, Basic!Dashboard,
     Basic!Unwrapped, Basic!require_auth, Registration!Dashboard,
     Registration!Unwrapped
<1>3. CASE u.page # "dashboard"
  BY <1>1, <1>3 DEF AppNames, Pages, View, Basic!Login
<1> QED BY <1>2, <1>3

\* They tell a live session.
LEMMA MetricsTell ==
  ASSUME app \in {"sqlite_demo", "fullstack"}, NEW c, c.op = "metrics",
         c.cookie \in srv.live
  PROVE  SessionReply(c).tag = "ok"
BY DEF SessionReply,
   SqliteDemo!get_secret_metrics, SqliteDemo!require_user_from_request,
   SqliteDemo!Reply, Fullstack!get_secret_metrics,
   Fullstack!require_user_from_request, Fullstack!Reply

\* What rendering does to the metrics, and to a sign-in on its way.
LEMMA RenderMetrics ==
  ASSUME NEW u \in UiRecord, NEW cs, \A s \in Slots : cs[s] \in CallRecord, NEW was,
         Render(u, cs, was)
  PROVE  /\ \A f \in Forms :
              /\ calls'[f].op = cs[f].op /\ calls'[f].at = cs[f].at
              /\ \/ calls'[f].from = cs[f].from /\ cs[f].from \in {u.page, "app"}
                 \/ calls'[f].from = "gone"
         /\ ui'.page = u.page /\ ui'.status = u.status /\ (agreed' => agreed)
         /\ \/ View(u) = "metrics" /\ ui'.metrics = "none"
               /\ calls'["metrics"] = Sent("metrics", 0, u.page)
            \/ ui'.metrics = "none" /\ calls'["metrics"] = Idle
            \/ View(u) = "metrics" /\ was = "metrics" /\ ui'.metrics = u.metrics
               /\ calls'["metrics"] = cs["metrics"]
<1> USE SlotFacts
<1> DEFINE view == View(u)
           shown == IF view # "metrics" \/ (view = "metrics" /\ was # "metrics")
                    THEN "none" ELSE u.metrics
           here(c) == IF c.from \in {u.page, "app"} THEN c ELSE [c EXCEPT !.from = "gone"]
           slot(s) ==
             CASE s = "metrics" -> IF view = "metrics" /\ was # "metrics"
                                   THEN Sent("metrics", 0, u.page)
                                   ELSE IF view # "metrics" THEN Idle ELSE cs[s]
               [] OTHER -> here(cs[s])
<1>1. /\ ui' = [u EXCEPT !.panicked = (view = "crash"),
                         !.submitting = u.submitting /\ u.page = "login",
                         !.metrics = shown]
      /\ calls' = [s \in Slots |-> slot(s)]
      /\ agreed' = (agreed /\ \A f \in Forms : Changing(cs[f]) => here(cs[f]) = cs[f])
  BY DEF Render
<1> HIDE DEF shown
<1>2. ui'.page = u.page /\ ui'.status = u.status /\ ui'.metrics = shown
  BY <1>1 DEF UiRecord
<1>3. agreed' => agreed
  BY <1>1
<1>4. \A s \in Slots : calls'[s] = slot(s)
  BY <1>1
<1>5. calls'["metrics"] = IF view = "metrics" /\ was # "metrics"
                          THEN Sent("metrics", 0, u.page)
                          ELSE IF view # "metrics" THEN Idle ELSE cs["metrics"]
  BY <1>4
<1>6. \/ view = "metrics" /\ ui'.metrics = "none"
         /\ calls'["metrics"] = Sent("metrics", 0, u.page)
      \/ ui'.metrics = "none" /\ calls'["metrics"] = Idle
      \/ view = "metrics" /\ was = "metrics" /\ ui'.metrics = u.metrics
         /\ calls'["metrics"] = cs["metrics"]
  BY <1>2, <1>5 DEF shown
<1>7. ASSUME NEW f \in Forms
      PROVE  /\ calls'[f].op = cs[f].op /\ calls'[f].at = cs[f].at
             /\ \/ calls'[f].from = cs[f].from /\ cs[f].from \in {u.page, "app"}
                \/ calls'[f].from = "gone"
  <2> DEFINE c == cs[f]
  <2>1. calls'[f] = here(c) /\ c \in CallRecord
    BY <1>4
  <2> HIDE DEF c
  <2>2. LET g == [c EXCEPT !.from = "gone"]
        IN g.op = c.op /\ g.at = c.at /\ g.from = "gone"
    BY <2>1 DEF CallRecord
  <2>3. CASE c.from \in {u.page, "app"}
    BY <2>1, <2>3 DEF c
  <2>4. CASE c.from \notin {u.page, "app"}
    BY <2>1, <2>2, <2>4 DEF c
  <2> QED BY <2>3, <2>4
<1> HIDE DEF slot, here
<1> QED BY <1>2, <1>3, <1>6, <1>7 DEF view

\* Rendering keeps what holds of the page and the calls it is given.
LEMMA RenderTells ==
  ASSUME app \in AppNames, jar \in Nat, UNCHANGED <<app, jar>>, NEW u \in UiRecord,
         NEW cs, \A s \in Slots : cs[s] \in CallRecord, NEW was, Render(u, cs, was),
         \A f \in Forms : cs[f].op = "login" => cs[f].from \in {"login", "gone"},
         View(u) = "metrics" /\ was = "metrics" /\ agreed /\ ~ SignedOutOf(cs)
           => Told(u.metrics, cs["metrics"])
  PROVE  MetricsOK'
<1>1. /\ \A f \in Forms :
           /\ calls'[f].op = cs[f].op /\ calls'[f].at = cs[f].at
           /\ \/ calls'[f].from = cs[f].from /\ cs[f].from \in {u.page, "app"}
              \/ calls'[f].from = "gone"
      /\ ui'.page = u.page /\ ui'.status = u.status /\ (agreed' => agreed)
      /\ \/ View(u) = "metrics" /\ ui'.metrics = "none"
            /\ calls'["metrics"] = Sent("metrics", 0, u.page)
         \/ ui'.metrics = "none" /\ calls'["metrics"] = Idle
         \/ View(u) = "metrics" /\ was = "metrics" /\ ui'.metrics = u.metrics
            /\ calls'["metrics"] = cs["metrics"]
  BY RenderMetrics
<1>2. LoginsHere(ui.page, calls)'
  BY <1>1 DEF LoginsHere
<1>3. View(u) = "metrics" => OnDashboard(ui)'
  BY <1>1, MetricsView DEF OnDashboard
<1>4. SignedOutOf(calls)' <=> SignedOutOf(cs)
  BY <1>1 DEF SignedOutOf
<1>5. CASE View(u) = "metrics" /\ ui'.metrics = "none"
           /\ calls'["metrics"] = Sent("metrics", 0, u.page)
  <2>1. Sent("metrics", 0, u.page).at = "sent" /\ Sent("metrics", 0, u.page).cookie = jar
    BY DEF Sent, Idle
  <2> QED BY <1>2, <1>3, <1>5, <2>1 DEF MetricsOK, Told
<1>6. CASE ui'.metrics = "none" /\ calls'["metrics"] = Idle
  BY <1>2, <1>6, IdleFacts DEF MetricsOK, Told
<1>7. CASE View(u) = "metrics" /\ was = "metrics" /\ ui'.metrics = u.metrics
           /\ calls'["metrics"] = cs["metrics"]
  BY <1>1, <1>2, <1>3, <1>4, <1>7 DEF MetricsOK, Told
<1> QED BY <1>1, <1>5, <1>6, <1>7

\* While the metrics are there nothing has panicked, and while nothing disturbs the
\* tab no sign-in is on its way.
LEMMA DashboardFacts ==
  ASSUME AppOK, MetricsOK, OnDashboard(ui)
  PROVE  /\ ~ ui.panicked
         /\ agreed => \A f \in Forms : calls[f].op # "login"
<1>1. ~ ui.panicked
  BY DEF AppOK, AppTyped, UngatedPanics, OnDashboard
<1>2. ASSUME agreed, NEW f \in Forms, calls[f].op = "login" PROVE FALSE
  <2>1. ChangeOK(calls[f])
    BY <1>2 DEF AppOK, TabOK, AgreeOK, Changing
  <2> QED BY <1>2, <2>1 DEF MetricsOK, LoginsHere, ChangeOK, OnDashboard
<1> QED BY <1>1, <1>2

\* A slot's call moves on, the page does not.
LEMMA SlotTells ==
  ASSUME AppOK, MetricsOK, NEW s \in Slots, NEW d, calls' = [calls EXCEPT ![s] = d],
         UNCHANGED <<app, ui>>, agreed' => agreed,
         d.op = calls[s].op, d.from = calls[s].from, calls[s].at # "idle",
         agreed' /\ ~ SignedOutOf(calls') =>
           /\ ~ SignedOutOf(calls)
           /\ Told(ui.metrics, calls["metrics"]) =>
                Told(ui.metrics, calls["metrics"])'
  PROVE  MetricsOK'
<1> USE SlotFacts
<1>1. calls'[s] = d /\ \A t \in Slots \ {s} : calls'[t] = calls[t]
  BY SlotReplaced
<1>2. LoginsHere(ui.page, calls)'
  BY <1>1 DEF MetricsOK, LoginsHere
<1>3. calls'["metrics"].at # "idle" \/ ui'.metrics # "none" => OnDashboard(ui)'
  BY <1>1 DEF MetricsOK, OnDashboard
<1>4. agreed' /\ ~ SignedOutOf(calls') => Told(ui.metrics, calls["metrics"])'
  BY DEF MetricsOK
<1> QED BY <1>2, <1>3, <1>4 DEF MetricsOK, SignedOutOf

\* A call is served.
LEMMA ServeTells ==
  ASSUME AppOK, MetricsOK, NEW s \in Slots, Serve(s)
  PROVE  MetricsOK'
<1> USE SlotFacts
<1> DEFINE c == calls[s]
           r == SessionReply(c)
           d == Answered(c, r.tag, r.set)
<1>1. /\ c.at = "sent" /\ UNCHANGED <<app, ui, jar, agreed>>
      /\ calls' = [calls EXCEPT ![s] = d]
  BY DEF Serve
<1>2. c \in CallRecord /\ CallOK(s, c)
  BY CallsAreOK
<1>3. d.op = c.op /\ d.from = c.from /\ d.at = "served" /\ d.tag = r.tag
  <2> HIDE DEF r
  <2>1. c \in CallRecord
    BY <1>2
  <2> QED BY <2>1 DEF Answered, CallRecord
<1>4. calls'[s] = d /\ \A t \in Slots \ {s} : calls'[t] = calls[t]
  BY <1>1, SlotReplaced
<1>5. ~ SignedOutOf(calls') => ~ SignedOutOf(calls)
  <2> HIDE DEF d
  <2> QED BY <1>1, <1>3, <1>4 DEF SignedOutOf
<1>6. CASE s # "metrics"
  <2> HIDE DEF c, d
  <2>1. Told(ui.metrics, calls["metrics"]) => Told(ui.metrics, calls["metrics"])'
    BY <1>1, <1>4, <1>6 DEF Told
  <2> QED BY <1>1, <1>3, <1>5, <2>1, SlotTells DEF c
<1>7. CASE s = "metrics"
  <2>1. c.op = "metrics" /\ OnDashboard(ui) /\ ~ ui.panicked
    BY <1>1, <1>2, <1>7, DashboardFacts DEF CallOK, MetricsOK
  <2>2. ASSUME agreed, ~ SignedOutOf(calls), Told(ui.metrics, c)
        PROVE  r.tag = "ok"
    <3> HIDE DEF r, d
    <3>1. \A f \in Forms : ~ TookEffect(calls[f])
      BY <2>1, <2>2, DashboardFacts DEF TookEffect, SignedOutOf
    <3>2. Steady(ui, calls)
      BY <2>1, <2>2, <3>1 DEF AppOK, TabOK, AgreeOK, OnDashboard
    <3>3. c.cookie = jar /\ jar \in srv.live
      BY <1>1, <2>1, <2>2, <3>2 DEF Steady, OnDashboard, Told
    <3>4. app \in {"sqlite_demo", "fullstack"}
      BY <2>1, <3>3 DEF OnDashboard, AppOK, AppTyped, ServerTyped
    <3>5. SessionReply(calls[s]).tag = "ok"
      BY <2>1, <3>3, <3>4, MetricsTell
    <3> QED BY <3>5 DEF r
  <2> HIDE DEF c, d, r
  <2>3. ASSUME agreed, ~ SignedOutOf(calls), Told(ui.metrics, c)
        PROVE  Told(ui.metrics, calls["metrics"])'
    <3>1. ui.metrics # "error"
      BY <1>1, <2>3 DEF Told
    <3> QED BY <1>1, <1>3, <1>4, <1>7, <2>2, <2>3, <3>1 DEF Told
  <2> QED BY <1>1, <1>3, <1>5, <1>7, <2>3, SlotTells DEF c
<1> QED BY <1>6, <1>7

\* A call arrives, and with it the cookie it sets.
LEMMA ArriveTells ==
  ASSUME AppOK, MetricsOK, NEW s \in Slots, Arrive(s)
  PROVE  MetricsOK'
<1> USE SlotFacts
<1> DEFINE c == calls[s]
           d == [c EXCEPT !.at = "arrived", !.set = Keep]
<1>1. /\ c.at = "served" /\ CallOK(s, c) /\ c \in CallRecord
      /\ calls' = [calls EXCEPT ![s] = d] /\ UNCHANGED <<app, ui, agreed>>
      /\ jar' = IF c.set = Keep THEN jar ELSE c.set
  BY CallsAreOK DEF Arrive
<1>2. d.op = c.op /\ d.from = c.from /\ d.at = "arrived" /\ d.tag = c.tag
  BY <1>1 DEF CallRecord
<1>3. calls'[s] = d /\ \A t \in Slots \ {s} : calls'[t] = calls[t]
  BY <1>1, SlotReplaced
<1> HIDE DEF c, d
<1>4. ~ SignedOutOf(calls') => ~ SignedOutOf(calls)
  BY <1>1, <1>2, <1>3 DEF SignedOutOf, c
<1>5. ASSUME agreed, ~ SignedOutOf(calls'), Told(ui.metrics, calls["metrics"])
      PROVE  Told(ui.metrics, calls["metrics"])'
  <2>1. CASE s = "metrics"
    BY <1>1, <1>2, <1>3, <1>5, <2>1 DEF Told, c
  <2>2. CASE s # "metrics" /\ c.op # "login"
    <3>1. jar' = jar
      <4>1. c.op # "log out"
        <5>1. c.op = "log out" => s \in Forms
          BY <1>1 DEF CallOK, Slots
        <5> QED BY <1>2, <1>3, <1>5, <5>1 DEF SignedOutOf
      <4> QED BY <1>1, <2>2, <4>1 DEF CallOK, Changing
    <3> QED BY <1>1, <1>3, <1>5, <2>2, <3>1 DEF Told
  <2>3. CASE c.op = "login"
    <3>1. s \in Forms
      BY <1>1, <2>3 DEF CallOK, Slots
    <3>2. ~ OnDashboard(ui)
      BY <1>5, <2>3, <3>1, DashboardFacts DEF c
    <3>3. calls["metrics"].at = "idle" /\ ui.metrics = "none"
      BY <3>2 DEF MetricsOK
    <3>4. calls'["metrics"] = calls["metrics"] /\ ui' = ui
      BY <1>1, <1>3, <3>1
    <3> QED BY <3>3, <3>4 DEF Told
  <2> QED BY <2>1, <2>2, <2>3
<1> QED BY <1>1, <1>2, <1>4, <1>5, SlotTells DEF c

\* A call is lost.
LEMMA LoseTells ==
  ASSUME AppOK, MetricsOK, NEW s \in Slots, Lose(s)
  PROVE  MetricsOK'
<1> USE SlotFacts
<1> DEFINE c == calls[s]
           d == [Answered(c, "lost", Keep) EXCEPT !.at = "arrived"]
<1>1. /\ c.at \in {"sent", "halfway", "served"} /\ c \in CallRecord
      /\ calls' = [calls EXCEPT ![s] = d] /\ UNCHANGED <<app, ui, jar>>
      /\ agreed' = (agreed /\ ~ Changing(c))
  BY CallsAreOK DEF Lose
<1>2. d.op = c.op /\ d.from = c.from /\ d.at = "arrived" /\ d.tag = "lost"
  <2>1. c \in CallRecord
    BY <1>1
  <2> HIDE DEF c
  <2> QED BY ONLY <2>1, LostFacts DEF d
<1>3. calls'[s] = d /\ \A t \in Slots \ {s} : calls'[t] = calls[t]
  BY <1>1, SlotReplaced
<1> HIDE DEF c, d
<1>4. agreed' /\ ~ SignedOutOf(calls') => ~ SignedOutOf(calls)
  BY <1>1, <1>3 DEF SignedOutOf, Changing, c
<1>5. ASSUME Told(ui.metrics, calls["metrics"])
      PROVE  Told(ui.metrics, calls["metrics"])'
  BY <1>1, <1>2, <1>3, <1>5 DEF Told, c
<1> QED BY <1>1, <1>2, <1>4, <1>5, SlotTells DEF c

\* A form is served, in one step or two.
LEMMA FormTells ==
  ASSUME AppOK, MetricsOK, NEW s \in Slots, ServeForm(s) \/ ServeRest(s)
  PROVE  MetricsOK'
<1> USE SlotFacts
<1> DEFINE c == calls[s]
<1>1. /\ c.at \in {"sent", "halfway"} /\ CallOK(s, c) /\ c \in CallRecord
      /\ UNCHANGED <<app, ui, jar, agreed>>
  BY CallsAreOK DEF ServeForm, ServeRest
<1>2. c.op \notin SessionOps
  BY <1>1 DEF ServeForm, ServeRest, CallOK, SessionOps
<1>3. PICK d : calls' = [calls EXCEPT ![s] = d] /\ d.op = c.op /\ d.from = c.from
  <2> HIDE DEF c
  <2> DEFINE half(arg) == [c EXCEPT !.at = "halfway", !.cookie = NoCookie, !.arg = arg]
             done(tag) == Answered(c, tag, Keep)
  <2>1. \A tag : done(tag).op = c.op /\ done(tag).from = c.from
    BY <1>1 DEF Answered, CallRecord
  <2>2. \A arg : half(arg).op = c.op /\ half(arg).from = c.from
    BY <1>1 DEF CallRecord
  <2>3. CASE ServeForm(s)
    <3>1. PICK arg, tag : \/ calls' = [calls EXCEPT ![s] = half(arg)]
                          \/ calls' = [calls EXCEPT ![s] = done(tag)]
      BY <2>3 DEF ServeForm, c
    <3> HIDE DEF half, done
    <3> QED BY <2>1, <2>2, <3>1
  <2>4. CASE ServeRest(s)
    <3>1. PICK tag : calls' = [calls EXCEPT ![s] = done(tag)]
      BY <2>4 DEF ServeRest, c
    <3> HIDE DEF done
    <3> QED BY <2>1, <3>1
  <2> QED BY <1>1, <2>3, <2>4
<1>4. calls'[s] = d /\ \A t \in Slots \ {s} : calls'[t] = calls[t]
  BY <1>3, SlotReplaced
<1>5. ~ SignedOutOf(calls') => ~ SignedOutOf(calls)
  BY <1>2, <1>3, <1>4 DEF SignedOutOf, SessionOps
<1>6. s # "metrics"
  BY <1>1, <1>2 DEF CallOK, SessionOps
<1>7. Told(ui.metrics, calls["metrics"]) => Told(ui.metrics, calls["metrics"])'
  BY <1>1, <1>4, <1>6 DEF Told
<1> QED BY <1>1, <1>3, <1>5, <1>7, SlotTells

\* Only the metrics' own continuation shows metrics.
LEMMA ContinuedMetrics ==
  ASSUME app \in AppNames, ui \in UiRecord, NEW c, c.op \notin {"login", "log out"}
  PROVE  Continued(c).metrics =
           IF c.op # "metrics" THEN ui.metrics
           ELSE IF c.tag = "ok" THEN "shown" ELSE "error"
<1>1. CASE c.op = "register"
  BY <1>1 DEF Continued, Registration!Registered, Registration!GoTo, UiRecord
<1>2. CASE c.op # "register"
  BY <1>2 DEF Continued, UiRecord
<1> QED BY <1>1, <1>2

\* A continuation runs, or is dropped with its component.
LEMMA ContinueTells ==
  ASSUME AppOK, MetricsOK, NEW s \in Slots, Continue(s)
  PROVE  MetricsOK'
<1> USE SlotFacts
<1> DEFINE c == calls[s]
           e == IF s \in Forms THEN Idle ELSE [c EXCEPT !.at = "done"]
           done == [calls EXCEPT ![s] = e]
           u == Continued(c)
<1>1. /\ c.at = "arrived" /\ CallOK(s, c) /\ c.tag \in Tags /\ app # "basic"
      /\ s \notin Forms =>
           e.at = "done" /\ e.op = s /\ e.tag = c.tag /\ e.cookie = c.cookie
      /\ done[s] = e /\ \A t \in Slots \ {s} : done[t] = calls[t]
      /\ CallsOK(done)
      /\ UNCHANGED <<app, jar, srv>>
      /\ \/ /\ c.from = "gone" \/ ui.panicked
            /\ calls' = done
            /\ UNCHANGED <<ui, agreed>>
         \/ /\ c.from # "gone" /\ ~ ui.panicked
            /\ Render(u, done, View(ui))
  BY DoneFacts
<1>2. s \in Forms => e.op = "none"
  BY IdleFacts
<1>3. app \in AppNames \ {"basic"} /\ ui \in UiRecord /\ jar \in Nat
  BY <1>1, CallsAreOK
<1>4. u \in UiRecord /\ (c.op = "log out" => u.status = "Unauthenticated")
  BY <1>1, <1>3, ContinuedFacts
<1>5. c.op \notin {"login", "log out"} =>
        u.metrics = IF c.op # "metrics" THEN ui.metrics
                    ELSE IF c.tag = "ok" THEN "shown" ELSE "error"
  BY <1>3, ContinuedMetrics
<1>6. /\ c.op \in {"login", "log out"} => s \in Forms
      /\ s = "metrics" <=> c.op = "metrics"
  BY <1>1 DEF CallOK, Slots
<1> HIDE DEF u, e, done, c
<1>7. /\ \A t \in Slots : done[t] \in CallRecord
      /\ \A f \in Forms : done[f].op = "login" =>
           done[f] = calls[f] /\ calls[f].op = "login"
  BY <1>1, <1>2 DEF CallsOK, CallOK
<1>8. SignedOutOf(calls) => SignedOutOf(done) \/ c.op = "log out"
  BY <1>1, <1>2 DEF SignedOutOf, c
<1>9. ASSUME Told(ui.metrics, calls["metrics"]) PROVE Told(ui.metrics, done["metrics"])
  BY <1>1, <1>9 DEF Told, c
<1>10. CASE c.from = "gone" \/ ui.panicked
  <2>1. calls' = done /\ UNCHANGED <<ui, agreed, app, jar>>
    BY <1>1, <1>10
  <2>2. LoginsHere(ui.page, calls)'
    BY <1>7, <2>1 DEF MetricsOK, LoginsHere
  <2>3. calls'["metrics"].at # "idle" \/ ui'.metrics # "none" => OnDashboard(ui)'
    BY <1>1, <2>1 DEF MetricsOK, OnDashboard, c
  <2>4. ASSUME agreed', ~ SignedOutOf(calls')
        PROVE  Told(ui.metrics, calls["metrics"])'
    <3>1. CASE OnDashboard(ui)
      <4>1. c.op # "log out"
        <5>1. ~ ui.panicked /\ c.from = "gone"
          BY <1>10, <3>1, DashboardFacts
        <5>2. ASSUME c.op = "log out" PROVE FALSE
          BY <1>6, <2>1, <2>4, <5>1, <5>2
             DEF AppOK, TabOK, AgreeOK, ChangeOK, Changing, c
        <5> QED BY <5>2
      <4>2. Told(ui.metrics, calls["metrics"])
        BY <1>8, <2>1, <2>4, <4>1 DEF MetricsOK
      <4> QED BY <1>9, <2>1, <4>2 DEF Told
    <3>2. CASE ~ OnDashboard(ui)
      <4>1. calls["metrics"].at = "idle" /\ ui.metrics = "none"
        BY <3>2 DEF MetricsOK
      <4>2. calls'["metrics"] = calls["metrics"]
        BY <1>1, <2>1, <4>1 DEF c
      <4> QED BY <2>1, <4>1, <4>2 DEF Told
    <3> QED BY <3>1, <3>2
  <2> QED BY <2>2, <2>3, <2>4 DEF MetricsOK, SignedOutOf
<1>11. CASE c.from # "gone" /\ ~ ui.panicked
  <2>1. Render(u, done, View(ui)) /\ UNCHANGED <<app, jar>>
    BY <1>1, <1>11
  <2>2. \A f \in Forms : done[f].op = "login" => done[f].from \in {"login", "gone"}
    BY <1>7 DEF MetricsOK, LoginsHere
  <2>3. ASSUME View(u) = "metrics", View(ui) = "metrics", agreed, ~ SignedOutOf(done)
        PROVE  Told(u.metrics, done["metrics"])
    <3>1. OnDashboard(ui) /\ OnDashboard(u)
      BY <1>3, <1>4, <2>3, MetricsView
    <3>2. c.op \notin {"login", "log out"}
      BY <1>4, <1>6, <2>3, <3>1, DashboardFacts DEF OnDashboard, c
    <3>3. Told(ui.metrics, calls["metrics"])
      BY <1>8, <2>3, <3>2 DEF MetricsOK
    <3>4. CASE s = "metrics"
      BY <1>1, <1>5, <1>6, <3>2, <3>3, <3>4 DEF Told, c
    <3>5. CASE s # "metrics"
      BY <1>5, <1>6, <1>9, <3>2, <3>3, <3>5
    <3> QED BY <3>4, <3>5
  <2> QED BY <1>3, <1>4, <1>7, <2>1, <2>2, <2>3, RenderTells
<1> QED BY <1>10, <1>11

\* Rendering after a step that leaves the metrics of the page alone.
LEMMA PageTells ==
  ASSUME AppOK, MetricsOK, NEW u \in UiRecord, u.metrics = ui.metrics,
         Render(u, calls, View(ui)), UNCHANGED <<app, jar>>
  PROVE  MetricsOK'
<1>1. \A f \in Forms : calls[f].op = "login" => calls[f].from \in {"login", "gone"}
  BY DEF MetricsOK, LoginsHere
<1>2. agreed /\ ~ SignedOutOf(calls) => Told(u.metrics, calls["metrics"])
  BY DEF MetricsOK
<1> QED BY <1>1, <1>2, CallsAreOK, RenderTells

\* A link, the gate's redirect, and the buttons of the demo without a server.
LEMMA LeaveTells ==
  ASSUME AppOK, MetricsOK,
         \/ \E p \in Routes : Follow(p)
         \/ GateRedirects \/ SignInHere \/ SignOutHere
  PROVE  MetricsOK'
<1>1. app \in AppNames /\ ui \in UiRecord
  BY CallsAreOK
<1>2. ASSUME NEW p \in Pages
      PROVE  GoTo(ui, p) \in UiRecord /\ GoTo(ui, p).metrics = ui.metrics
  BY <1>1 DEF GoTo, UiRecord
<1>3. ASSUME NEW p \in Routes, Follow(p) PROVE MetricsOK'
  <2>1. p \in Pages /\ Render(GoTo(ui, p), calls, View(ui)) /\ UNCHANGED <<app, jar>>
    BY <1>1, <1>3, RoutesAndStatus DEF Follow
  <2> QED BY <1>2, <2>1, PageTells
<1>4. CASE GateRedirects
  <2> DEFINE p == IF ui.page = "login" THEN "dashboard" ELSE "login"
  <2>1. p \in Pages /\ Render(GoTo(ui, p), calls, View(ui)) /\ UNCHANGED <<app, jar>>
    BY <1>4 DEF GateRedirects, Pages
  <2> HIDE DEF p
  <2> QED BY <1>2, <2>1, PageTells
<1>5. CASE SignInHere
  <2> DEFINE u == Basic!LogIn(ui)
  <2>1. u \in UiRecord /\ u.metrics = ui.metrics
    BY <1>1 DEF Basic!LogIn, Basic!SetUser, UiRecord, Statuses
  <2>2. Render(u, calls, View(ui)) /\ UNCHANGED <<app, jar>>
    BY <1>5 DEF SignInHere
  <2> HIDE DEF u
  <2> QED BY <2>1, <2>2, PageTells
<1>6. CASE SignOutHere
  <2> DEFINE u == LoggedOut
  <2>1. u \in UiRecord /\ u.metrics = ui.metrics
    BY <1>1, <1>6 DEF SignOutHere, LoggedOut, Basic!LogOut, Basic!SetLoggedOut,
       UiRecord, Statuses
  <2>2. Render(u, calls, View(ui)) /\ UNCHANGED <<app, jar>>
    BY <1>6 DEF SignOutHere
  <2> HIDE DEF u
  <2> QED BY <2>1, <2>2, PageTells
<1> QED BY <1>3, <1>4, <1>5, <1>6

\* A form is sent, or the log-out button pressed.
LEMMA BeginTells ==
  ASSUME AppOK, MetricsOK, NEW f \in Forms,
         SubmitLogin(f) \/ PressLogOut(f) \/ SubmitForm(f)
  PROVE  MetricsOK'
<1> USE SlotFacts
<1>1. PICK op, arg, from :
        /\ Begin(f, op, arg, from)
        /\ op = "login" => from = "login" /\ ui.page = "login"
        /\ ui'.page = ui.page /\ ui'.status = ui.status /\ ui'.metrics = ui.metrics
  <2>1. ui \in UiRecord
    BY CallsAreOK
  <2>2. CASE SubmitLogin(f)
    <3>1. PICK arg \in {0, 1} : Begin(f, "login", arg, "login")
      BY <2>2 DEF SubmitLogin
    <3>2. ui'.page = ui.page /\ ui'.status = ui.status /\ ui'.metrics = ui.metrics
          /\ ui.page = "login"
      BY <2>1, <2>2 DEF SubmitLogin, Submitting, UiRecord
    <3> QED BY <3>1, <3>2
  <2>3. CASE PressLogOut(f)
    BY <2>3 DEF PressLogOut
  <2>4. CASE SubmitForm(f)
    <3>1. PICK form \in {Registration!Register, Registration!Verify,
                         Registration!ForgotPassword, Registration!ResetPassword},
               token \in 1..reg.next : Begin(f, form.op, token, form.page)
      BY <2>4 DEF SubmitForm
    <3>2. form.op # "login"
      <4>1. CASE form = Registration!Register
        BY <4>1 DEF Registration!Register
      <4>2. CASE form = Registration!Verify
        BY <4>2 DEF Registration!Verify
      <4>3. CASE form = Registration!ForgotPassword
        BY <4>3 DEF Registration!ForgotPassword
      <4>4. CASE form = Registration!ResetPassword
        BY <4>4 DEF Registration!ResetPassword
      <4> QED BY <3>1, <4>1, <4>2, <4>3, <4>4
    <3>3. ui' = ui
      BY <2>4 DEF SubmitForm
    <3> QED BY <3>1, <3>2, <3>3
  <2> QED BY <2>2, <2>3, <2>4
<1> DEFINE d == Sent(op, arg, from)
<1>2. /\ calls[f] = Idle /\ calls' = [calls EXCEPT ![f] = d]
      /\ agreed' => agreed
      /\ UNCHANGED <<app, jar>>
  BY <1>1 DEF Begin
<1>3. d.op = op /\ d.at = "sent" /\ d.from = from
  BY DEF Sent, Idle
<1>4. calls'[f] = d /\ \A t \in Slots \ {f} : calls'[t] = calls[t]
  BY <1>2, SlotReplaced
<1> HIDE DEF d
<1>5. LoginsHere(ui.page, calls)'
  BY <1>1, <1>3, <1>4 DEF MetricsOK, LoginsHere
<1>6. calls'["metrics"] = calls["metrics"]
  BY <1>4
<1>7. SignedOutOf(calls) => SignedOutOf(calls')
  BY <1>2, <1>4, IdleFacts DEF SignedOutOf
<1>8. OnDashboard(ui) => OnDashboard(ui)'
  BY <1>1, <1>2 DEF OnDashboard
<1>9. Told(ui.metrics, calls["metrics"]) => Told(ui.metrics, calls["metrics"])'
  BY <1>1, <1>2, <1>6 DEF Told
<1> QED BY <1>1, <1>2, <1>5, <1>6, <1>7, <1>8, <1>9 DEF MetricsOK, SignedOutOf

\* A page that was just loaded shows no dashboard.
LEMMA FreshTells ==
  ASSUME app \in AppNames, NEW p \in Routes
  PROVE  /\ View(Fresh(p)) # "metrics"
         /\ \A x : [Fresh(p) EXCEPT !.panicked = x].metrics = "none"
<1>1. p \in Pages /\ FirstStatus \in Statuses /\ (app # "basic" => FirstStatus = "Loading")
  BY RoutesAndStatus
<1>2. Fresh(p) \in UiRecord /\ Fresh(p).status = FirstStatus
  BY <1>1 DEF Fresh, UiRecord
<1>3. View(Fresh(p)) # "metrics"
  BY <1>1, <1>2, MetricsView DEF OnDashboard
<1>4. \A x : [Fresh(p) EXCEPT !.panicked = x].metrics = "none"
  BY DEF Fresh
<1> QED BY <1>3, <1>4

\* The page is reloaded, or entered by its URL.
LEMMA ReloadTells ==
  ASSUME AppOK, MetricsOK, NEW p \in Routes, ReloadPage(p)
  PROVE  MetricsOK'
<1> USE SlotFacts
<1>1. View(Fresh(p)) # "metrics"
      /\ \A x : [Fresh(p) EXCEPT !.panicked = x].metrics = "none"
  BY CallsAreOK, FreshTells
<1>2. ui'.metrics = "none"
  BY <1>1 DEF ReloadPage
<1> DEFINE slot(s) ==
             CASE s = "whoami" -> Probing
               [] s = "metrics" -> Idle
               [] OTHER -> IF calls[s] = Idle THEN Idle ELSE [calls[s] EXCEPT !.from = "gone"]
<1>3. calls' = [s \in Slots |-> slot(s)]
  BY <1>1 DEF ReloadPage
<1>4. \A s \in Slots : calls'[s] = slot(s)
  BY <1>3
<1>5. calls'["metrics"] = Idle
  BY <1>4
<1>6. ASSUME NEW f \in Forms, calls'[f].op = "login" PROVE calls'[f].from = "gone"
  <2> DEFINE c == calls[f]
  <2>1. c \in CallRecord /\ calls'[f] = IF c = Idle THEN Idle ELSE [c EXCEPT !.from = "gone"]
    BY <1>4, CallsAreOK
  <2> HIDE DEF c
  <2>2. [c EXCEPT !.from = "gone"].from = "gone"
    BY <2>1 DEF CallRecord
  <2> QED BY <1>6, <2>1, <2>2, IdleFacts
<1> HIDE DEF slot
<1> QED BY <1>2, <1>5, <1>6, IdleFacts DEF MetricsOK, LoginsHere, Told

\* So does the first.
LEMMA MetricsBegin ==
  ASSUME app \in AppNames, AppInit
  PROVE  MetricsOK
<1> USE SlotFacts
<1>1. PICK p \in Routes :
        /\ ui = [Fresh(p) EXCEPT !.panicked = (View(Fresh(p)) = "crash")]
        /\ calls = [s \in Slots |->
             IF s = "whoami" THEN Probing
             ELSE IF s = "metrics" /\ View(Fresh(p)) = "metrics"
                  THEN Sent("metrics", 0, p) ELSE Idle]
  BY DEF AppInit
<1>2. View(Fresh(p)) # "metrics" /\ ui.metrics = "none"
  BY <1>1, FreshTells
<1>3. calls["metrics"] = Idle /\ \A f \in Forms : calls[f] = Idle
  BY <1>1, <1>2
<1> QED BY <1>2, <1>3, IdleFacts DEF MetricsOK, LoginsHere, Told

\* Nothing of the tab moves, or a session ends.
LEMMA StillTells ==
  ASSUME AppOK, MetricsOK, UNCHANGED <<app, ui, calls, jar>>, agreed' => agreed
  PROVE  MetricsOK'
BY DEF MetricsOK, LoginsHere, OnDashboard, SignedOutOf, Told

\* Every step of the application keeps it.
LEMMA MetricsStep == AppOK /\ MetricsOK /\ AppNext => MetricsOK'
<1> SUFFICES ASSUME AppOK, MetricsOK, AppNext PROVE MetricsOK'
  OBVIOUS
<1>1. CASE EndSession \/ ExpireToken
  <2>1. UNCHANGED <<app, ui, calls, jar>> /\ (agreed' => agreed)
    BY <1>1 DEF EndSession, ExpireToken
  <2> QED BY <2>1, StillTells
<1> QED BY <1>1, ReloadTells, LeaveTells, BeginTells, ServeTells, FormTells, LoseTells,
           ArriveTells, ContinueTells DEF AppNext

\* Hence the metrics are told of the session of the cookie, or their reply is lost.
LEMMA MetricsInvariant == Spec => []MetricsOK
<1>1. Init => MetricsOK
  <2> SUFFICES ASSUME Init PROVE MetricsOK
    OBVIOUS
  <2>1. app \in AppNames
    BY AppsAssumption DEF Init, AppNames
  <2> QED BY <2>1, MetricsBegin DEF Init
<1>2. IInv /\ MetricsOK /\ [Next]_vars => MetricsOK'
  <2> SUFFICES ASSUME IInv, MetricsOK, [Next]_vars PROVE MetricsOK'
    OBVIOUS
  <2>1. CASE UNCHANGED appVars
    BY <2>1, StillTells DEF IInv, appVars
  <2>2. CASE AppNext
    BY <2>2, MetricsStep DEF IInv
  <2> QED BY <2>1, <2>2 DEF Next, vars
<1> QED BY <1>1, <1>2, ProgramInvariant, PTL DEF Spec

\* Undisturbed and with no sign-in or sign-out under way, a dashboard's metrics fail
\* only if their reply was lost.
THEOREM MetricsFollowTheSession == Spec => []MetricsFollowSession
<1>1. MetricsOK => MetricsFollowSession
  <2>1. Settled => ~ SignedOutOf(calls)
    BY DEF Settled, SignedOutOf, Changing
  <2> QED BY <2>1 DEF MetricsOK, MetricsFollowSession, Told
<1> QED BY <1>1, MetricsInvariant, PTL
=============================================================================
