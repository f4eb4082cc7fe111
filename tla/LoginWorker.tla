----------------------------- MODULE LoginWorker ------------------------------
(***************************************************************************)
(* LoginWorker (login/worker.py) on its own thread, with the EASClient     *)
(* (login/eas_client.py, login/eas_wire.py) it drives: one call at a time  *)
(* is taken from the thread's queue and run to its end.  login() walks     *)
(* K A M and, for each game, N F G P C; select_character() walks F G P C L *)
(* for the chosen game, writes the SAL file and starts the front-end.      *)
(*                                                                         *)
(* A definition marked "fault" is not part of the model: it is a plausible *)
(* mistake in the definition below it, which some property must notice.    *)
(***************************************************************************)
EXTENDS EasSession

VARIABLES pc,           \* where the worker's thread is
          task,         \* the call it runs, or the last one it ran
          calls,        \* calls queued for it by the window's signals
          step,         \* the line it is at: "K", "A", "M", "N", "F", "G", "P", "C", "L"
          game,         \* the game whose lines it sends
          todo,         \* games enumerate_all has not come to
          listings,     \* `listings` of enumerate_all
          handoff,      \* `handoff` of select_character
          signals,      \* emitted to the window and not yet delivered
          frontEnds,    \* history: front-ends started, as asked and as handed off
          startedHere   \* history: those started since the last connect()

walkVars  == <<step, game, todo, listings>>
startVars == <<handoff, frontEnds, startedHere>>
workerVars == <<pc, task, calls, walkVars, signals, startVars>>

LoginCall(cred) == [kind |-> "login", arg |-> cred]
SelectCall(char) == [kind |-> "select", arg |-> char]
NoCall == [kind |-> "none", arg |-> None]

Signal(kind, list, code) == [kind |-> kind, list |-> list, code |-> code]
Emits(kind) == signals' = Append(signals, Signal(kind, {}, "none"))

Fails(kind, code) == /\ pc' = "idle"
                     /\ signals' = Append(signals, Signal(kind, {}, code))
                     /\ UNCHANGED <<task, calls, walkVars>>
FailsHere(kind, code) == Fails(kind, code) /\ UNCHANGED startVars

-------------------------------------------------------------------------------
\* select_character first walks to the game again.
FirstStepL(call) == "L"                                              \* fault
FirstStep(call) == "F"

ServeCall ==
  /\ pc = "idle" /\ calls # << >>
  /\ task' = Head(calls) /\ calls' = Tail(calls)
  /\ IF task'.kind = "login"
     THEN pc' = "connect" /\ UNCHANGED walkVars
     ELSE /\ pc' = "ask" /\ step' = FirstStep(task') /\ game' = task'.arg[1]
          /\ UNCHANGED <<todo, listings>>
  /\ UNCHANGED <<easVars, signals, startVars>>

Connect == /\ pc = "connect" /\ NewSocket
           /\ pc' = "ask" /\ step' = "K" /\ startedHere' = 0
           /\ UNCHANGED <<task, calls, game, todo, listings, signals, handoff, frontEnds>>

\* The host refuses, or its certificate is not the bundled one.
ConnectRaises == /\ pc = "connect"
                 /\ \/ UNCHANGED <<easVars, startedHere>>
                    \/ NewSocket /\ startedHere' = 0
                 /\ Fails("error", "none") /\ UNCHANGED <<handoff, frontEnds>>

-------------------------------------------------------------------------------
(* One line and its reply. *)
Arg == CASE step = "A" -> task.arg
         [] step \in {"N", "F", "G", "P"} -> game
         [] step = "L" -> task.arg[2]
         [] OTHER -> None

AfterStep == [K |-> "A", F |-> "G", G |-> "P", P |-> "C"]

AwaitUnlessDiscarded ==                                              \* fault
  IF step \in {"G", "P"} THEN pc' = "ask" /\ step' = AfterStep[step]
                         ELSE pc' = "listen" /\ UNCHANGED step
AwaitReply == pc' = "listen" /\ UNCHANGED step

Ask == /\ pc = "ask" /\ CanSend /\ SendLine(Line(step, Arg))
       /\ AwaitReply
       /\ UNCHANGED <<task, calls, game, todo, listings, signals, startVars>>

AskRaises == /\ pc = "ask" /\ SendRaises
             /\ FailsHere("error", "none") /\ UNCHANGED easVars

Listen == /\ pc = "listen" /\ RecvStarts /\ pc' = "blocked"
          /\ UNCHANGED <<easVars, task, calls, walkVars, signals, startVars>>

ListenRaises == /\ \/ pc = "listen" /\ ~RecvStarts
                   \/ pc = "blocked" /\ conn = "reset" /\ replies = << >>
                /\ FailsHere("error", "none") /\ UNCHANGED easVars

\* What the parser of each step accepts: the replies to G and P are not
\* looked at, F takes any, K any that is not empty.
Fits(r) == \/ step \in {"F", "G", "P"}
           \/ step = "K" /\ r.verb # "eof"
           \/ r.verb = step /\ r.ok

\* The list goes to the window also when it is empty.
ShowsIfAny(found) == signals' = IF found = {} THEN signals           \* fault
                                ELSE Append(signals, Signal("characters", found, "none"))
Shows(found) == signals' = Append(signals, Signal("characters", found, "none"))

\* The next game of enumerate_all, or its end.
NextGame(games, found) ==
  \/ /\ games = {} /\ pc' = "idle" /\ Shows(found)
     /\ listings' = {} /\ todo' = {} /\ UNCHANGED <<step, game>>
  \/ \E g \in games : /\ game' = g /\ todo' = games \ {g} /\ step' = "N"
                      /\ listings' = found
                      /\ pc' = "ask" /\ UNCHANGED signals

ToStep(next) == /\ pc' = "ask" /\ step' = next
                /\ UNCHANGED <<game, todo, listings, handoff>>

AfterC(r) == IF task.kind = "select"
             THEN ToStep("L") /\ UNCHANGED signals
             ELSE NextGame(todo, listings \cup {<<game, c>> : c \in r.body}) /\ UNCHANGED handoff

SkipTheRest == NextGame({}, listings)                                \* fault
SkipGame == NextGame(todo, listings)

Parse(r) ==
  \/ /\ Fits(r)
     /\ \/ step \in DOMAIN AfterStep /\ ToStep(AfterStep[step]) /\ UNCHANGED signals
        \/ step = "A" /\ ToStep("M") /\ Emits("authenticated")
        \/ step = "M" /\ NextGame(r.body, {}) /\ UNCHANGED handoff
        \/ step = "N" /\ ToStep("F") /\ UNCHANGED signals
        \/ step = "C" /\ AfterC(r)
        \/ /\ step = "L" /\ pc' = "write" /\ Emits("handoff")
           /\ \E h \in r.body : handoff' = h
           /\ UNCHANGED walkVars
     /\ UNCHANGED <<task, calls, frontEnds, startedHere>>
  \/ /\ ~Fits(r) /\ step = "N" /\ SkipGame
     /\ UNCHANGED <<task, calls, startVars>>
  \/ /\ ~Fits(r) /\ step # "N"
     /\ IF step = "A" THEN FailsHere("auth_failed", r.verb) ELSE FailsHere("error", "none")

Hear == /\ pc = "blocked" /\ RecvPacket /\ Parse(Head(replies))
HearEof == /\ pc = "blocked" /\ AtEof /\ Parse(EofReply) /\ UNCHANGED easVars

-------------------------------------------------------------------------------
(* The end of select_character. *)
WriteSal == /\ pc = "write"
            /\ pc' = "launch"
            /\ UNCHANGED <<easVars, task, calls, walkVars, signals, startVars>>

WriteSalFails == pc = "write" /\ FailsHere("error", "none") /\ UNCHANGED easVars

ReturnFrontEnd == pc' = "idle"                                       \* fault
CloseFrontEnd == pc' = "close"

\* The front-end is handed the file just written, under a name of its own.
Launch == /\ pc = "launch"
          /\ frontEnds' = frontEnds \cup {[asked |-> task.arg, got |-> handoff]}
          /\ startedHere' = startedHere + 1
          /\ Emits("launched") /\ CloseFrontEnd
          /\ UNCHANGED <<easVars, task, calls, walkVars, handoff>>

LaunchFails == pc = "launch" /\ FailsHere("error", "none") /\ UNCHANGED easVars

\* What close() raises here escapes the slot: it is past the handlers.
Close == /\ \/ pc = "close" /\ CloseChecks("idle", pc')
            \/ pc = "closeUse" /\ CloseUses /\ pc' = "closeSet"
            \/ pc = "closeUse" /\ CloseRaises /\ pc' = "idle"
            \/ pc = "closeSet" /\ CloseSets /\ pc' = "idle"
         /\ UNCHANGED <<task, calls, walkVars, signals, startVars>>

Worker == \/ ServeCall \/ Connect \/ ConnectRaises
          \/ Ask \/ AskRaises \/ Listen \/ ListenRaises \/ Hear \/ HearEof
          \/ WriteSal \/ WriteSalFails \/ Launch \/ LaunchFails \/ Close

WorkerInit == /\ pc = "idle" /\ task = NoCall /\ calls = << >>
              /\ step = "K" /\ game = None /\ todo = {} /\ listings = {}
              /\ handoff = None /\ signals = << >>
              /\ frontEnds = {} /\ startedHere = 0
===============================================================================
