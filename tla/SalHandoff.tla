------------------------------ MODULE SalHandoff ------------------------------
(***************************************************************************)
(* The SAL file between the two programs: runs of rift-login write one for *)
(* each handoff (login/sal.py) and start a front-end on it                 *)
(* (login/launcher.py, select_character of login/worker.py); each run of   *)
(* rift-client reads its file, deletes it and presents the key to the game *)
(* server (client/sal_reader.py, main of client/app.py).  All of them run  *)
(* at the same time on one directory, and any may be killed between two of *)
(* its steps.  The player may also start rift-client on a file by hand.    *)
(*                                                                         *)
(* A handoff is its key.  Of a file's text only this matters: all of it,   *)
(* a part of it, nothing.                                                  *)
(*                                                                         *)
(* A definition marked "fault" is not part of the model: it is a plausible *)
(* mistake in the definition below it, which some property must notice.    *)
(***************************************************************************)
EXTENDS Naturals

CONSTANTS Launchers,    \* runs of rift-login
          MaxFrontEnds, \* bound: runs of rift-client
          MaxHandoffs   \* bound: characters selected, and so files written

ASSUME HandoffsAssumption == MaxHandoffs \in Nat /\ MaxFrontEnds \in Nat

Keys  == 1..MaxHandoffs
Paths == 1..MaxHandoffs       \* the names mkstemp makes up
FrontEnds == 1..MaxFrontEnds  \* in the order in which they are started
None  == 0

Text == [key : Keys, part : {"none", "some", "all"}]
NoFile == [key |-> None, part |-> "no file"]

VARIABLES dir,         \* the files of sal_dir(), or NoFile
          named,       \* the names mkstemp has made up
          issued,      \* handoffs the EAS server has answered with
          launcher,    \* where write_sal_file and launch are, and their path and handoff
          front,       \* where each front-end is, its --sal, what it has read
          presented    \* history: the keys presented to the game server, and by whom

vars == <<dir, named, issued, launcher, front, presented>>

Goes(l, at) == launcher' = [launcher EXCEPT ![l].at = at]
Proceeds(f, at) == front' = [front EXCEPT ![f].at = at]
Ends(f, at) == front' = [front EXCEPT ![f] = [@ EXCEPT !.at = at, !.by = None, !.text = NoFile]]

-------------------------------------------------------------------------------
(* The launcher.  "idle" is between two calls of select_character: a raised *)
(* exception is reported by a signal and the player may try again.          *)

KeyOfLastReply == issued                                             \* fault
\* What the server answers this call's L with.
KeyOfReply == issued + 1

SelectCharacter(l) ==
  /\ launcher[l].at = "idle" /\ issued < MaxHandoffs
  /\ issued' = issued + 1
  /\ launcher' = [launcher EXCEPT ![l] = [at |-> "create", path |-> None, key |-> KeyOfReply]]
  /\ UNCHANGED <<dir, named, front, presented>>

\* mkstemp() never opens a file that exists and its names are random: each is
\* one that was not used before, whichever.
FixedName(p) == p = 1                                                \* fault
NewName(p) == p \notin named /\ \A q \in 1..p-1 : q \in named

Mkstemp(l) == /\ launcher[l].at = "create"
              /\ \E p \in Paths :
                   /\ NewName(p)
                   /\ named' = named \cup {p}
                   /\ dir' = [dir EXCEPT ![p] = [key |-> launcher[l].key, part |-> "none"]]
                   /\ launcher' = [launcher EXCEPT ![l].at = "write", ![l].path = p]
              /\ UNCHANGED <<issued, front, presented>>

MkstempRaises(l) == /\ launcher[l].at = "create" /\ Goes(l, "idle")
                    /\ UNCHANGED <<dir, named, issued, front, presented>>

\* What is written goes to the file that was opened, also when it has been
\* deleted since.
HoldsByName(l, part) == dir' = [dir EXCEPT ![launcher[l].path].part = part]   \* fault
Holds(l, part) == LET p == launcher[l].path
                  IN dir' = IF dir[p].key = launcher[l].key THEN [dir EXCEPT ![p].part = part]
                            ELSE dir

WriteSome(l) == /\ launcher[l].at = "write" /\ Holds(l, "some")
                /\ UNCHANGED <<named, issued, launcher, front, presented>>

\* Leaving the `with` block flushes and closes the file.
LaunchUnflushed(l) == UNCHANGED dir /\ Goes(l, "popen")              \* fault
Close(l) == Holds(l, "all") /\ Goes(l, "chmod")

WriteAll(l) == /\ launcher[l].at = "write" /\ Close(l)
               /\ UNCHANGED <<named, issued, front, presented>>

ReRaise(l) == Goes(l, "idle")                                        \* fault
CleanUp(l) == Goes(l, "unlink")

WriteRaises(l) == /\ launcher[l].at = "write" /\ CleanUp(l)
                  /\ UNCHANGED <<dir, named, issued, front, presented>>

\* path.unlink(missing_ok=True)
UnlinkPartial(l) == /\ launcher[l].at = "unlink" /\ Goes(l, "idle")
                    /\ dir' = [dir EXCEPT ![launcher[l].path] = NoFile]
                    /\ UNCHANGED <<named, issued, front, presented>>

\* os.chmod() raises if somebody has read and deleted the file by now.
Chmod(l) == /\ launcher[l].at = "chmod"
            /\ Goes(l, IF dir[launcher[l].path] = NoFile THEN "idle" ELSE "popen")
            /\ UNCHANGED <<dir, named, issued, front, presented>>

Starts(f, by, p) == /\ front[f].at = "off" /\ \A g \in 1..f-1 : front[g].at # "off"
                    /\ front' = [front EXCEPT ![f] = [@ EXCEPT !.at = "read", !.by = by, !.path = p]]

\* The front-end is a process of its own; the window of rift-login then closes.
Popen(l) == /\ launcher[l].at = "popen" /\ Goes(l, "launched")
            /\ \E f \in FrontEnds : Starts(f, l, launcher[l].path)
            /\ UNCHANGED <<dir, named, issued, presented>>

\* The command is not found: the file stays.
PopenRaises(l) == /\ launcher[l].at = "popen" /\ Goes(l, "idle")
                  /\ UNCHANGED <<dir, named, issued, front, presented>>

LauncherKilled(l) == /\ launcher[l].at \notin {"launched", "killed"} /\ Goes(l, "killed")
                     /\ UNCHANGED <<dir, named, issued, front, presented>>

Launcher(l) == \/ SelectCharacter(l) \/ Mkstemp(l) \/ MkstempRaises(l)
               \/ WriteSome(l) \/ WriteAll(l) \/ WriteRaises(l) \/ UnlinkPartial(l)
               \/ Chmod(l) \/ Popen(l) \/ PopenRaises(l)

-------------------------------------------------------------------------------
(* The front-end: read_sal_file, then main. *)

\* rift-client --sal <path>, from a shell.
PlayerStarts(f) == /\ \E p \in Paths : dir[p] # NoFile /\ Starts(f, None, p)
                   /\ UNCHANGED <<dir, named, issued, launcher, presented>>

ReadText(f) == /\ front[f].at = "read"
               /\ LET text == dir[front[f].path]
                  IN IF text = NoFile THEN Ends(f, "dead")
                     ELSE front' = [front EXCEPT ![f].at = "unlink", ![f].text = text]
               /\ UNCHANGED <<dir, named, issued, launcher, presented>>

KeepFile(f) == UNCHANGED dir /\ Proceeds(f, "parse")                 \* fault
UnlinkAnyway(f) == /\ dir' = [dir EXCEPT ![front[f].path] = NoFile]  \* fault
                   /\ Proceeds(f, "parse")
\* path.unlink() raises when another front-end has deleted the file first.
Unlink(f) == /\ dir' = [dir EXCEPT ![front[f].path] = NoFile]
             /\ IF dir[front[f].path] = NoFile THEN Ends(f, "dead") ELSE Proceeds(f, "parse")

DeleteAfter(f) == /\ front[f].at = "unlink" /\ Unlink(f)
                  /\ UNCHANGED <<named, issued, launcher, presented>>

\* main looks up three fields; the text of a cut file may have them all, the
\* last one cut.
Connect(f) == /\ front[f].at = "parse" /\ front[f].text.part # "none"
              /\ Proceeds(f, "connected")
              /\ presented' = presented \cup {[front |-> f, text |-> front[f].text]}
              /\ UNCHANGED <<dir, named, issued, launcher>>

FieldMissing(f) == /\ front[f].at = "parse" /\ front[f].text.part # "all"
                   /\ Ends(f, "dead")
                   /\ UNCHANGED <<dir, named, issued, launcher, presented>>

FrontEndKilled(f) == /\ front[f].at \in {"read", "unlink", "parse"} /\ Ends(f, "killed")
                     /\ UNCHANGED <<dir, named, issued, launcher, presented>>

FrontEnd(f) == ReadText(f) \/ DeleteAfter(f) \/ Connect(f) \/ FieldMissing(f)

-------------------------------------------------------------------------------
Stopped == /\ \A l \in Launchers : launcher[l].at \in {"launched", "killed"}
           /\ UNCHANGED vars

Init == /\ dir = [p \in Paths |-> NoFile] /\ named = {} /\ issued = 0
        /\ launcher = [l \in Launchers |-> [at |-> "idle", path |-> None, key |-> None]]
        /\ front = [f \in FrontEnds |-> [at |-> "off", path |-> None, by |-> None, text |-> NoFile]]
        /\ presented = {}

Next == \/ \E l \in Launchers : Launcher(l) \/ LauncherKilled(l)
        \/ \E f \in FrontEnds : FrontEnd(f) \/ PlayerStarts(f) \/ FrontEndKilled(f)
        \/ Stopped

Spec == Init /\ [][Next]_vars

\* The operating system runs a front-end that has been started.
FairSpec == Spec /\ \A f \in FrontEnds : WF_vars(FrontEnd(f))

-------------------------------------------------------------------------------
\* Every variable has its type.
TypeOK ==
  /\ dir \in [Paths -> Text \cup {NoFile}] /\ named \subseteq Paths /\ issued \in 0..MaxHandoffs
  /\ launcher \in [Launchers ->
       [at : {"idle", "create", "write", "unlink", "chmod", "popen", "launched", "killed"},
        path : Paths \cup {None}, key : Keys \cup {None}]]
  /\ front \in [FrontEnds ->
       [at : {"off", "read", "unlink", "parse", "connected", "dead", "killed"},
        path : Paths \cup {None}, by : Launchers \cup {None}, text : Text \cup {NoFile}]]
  /\ presented \subseteq [front : FrontEnds, text : Text]

\* A key is presented to the game server at most once, however many front-ends
\* are started on its file at the same time: read_sal_file deletes the file
\* before main connects, and the front-end that comes second dies on it.
KeyPresentedOnce ==
  \A s, t \in presented : s.text.key = t.text.key => s = t

\* The path of a key from select_character through the file to the game server
\* implements SingleUse: each step issues a new key, or presents one that was
\* issued and that no front-end has presented, or does neither.
Tokens == INSTANCE SingleUse WITH
            Users <- FrontEnds, issued <- 1..issued,
            uses <- {[user |-> s.front, key |-> s.text.key] : s \in presented}
KeysAreSingleUse == Tokens!Spec

\* A front-end that rift-login has started presents the whole key of the
\* character it was started for, whatever other runs do in the directory
\* (write_sal_file closes the file before launch, under a name of its own).
PresentsItsOwn ==
  \A s \in presented : LET l == front[s.front].by
                       IN l # None => s.text = [key |-> launcher[l].key, part |-> "all"]

\* A file that is not whole is one a run of rift-login is writing, is about to
\* delete after a failed write, or was killed over (write_sal_file).
NoCutFileLeft ==
  \A p \in Paths : dir[p] # NoFile /\ dir[p].part # "all" =>
    \E l \in Launchers : launcher[l].path = p /\ launcher[l].at \in {"write", "unlink", "killed"}

\* The live key of a launched front-end does not stay on disk: its file is
\* deleted, or its front-end was killed before that (read_sal_file).
KeyGoesAway ==
  \A f \in FrontEnds : front[f].at = "read" ~>
    front[f].at = "killed" \/ \A p \in Paths : p = front[f].path => dir[p] = NoFile
===============================================================================
