----------------------------- MODULE ClientWindow -----------------------------
(***************************************************************************)
(* ClientWindow (client/window.py) on the GUI thread, composed with the    *)
(* worker on its QThread and the game server: one run of rift-client, from *)
(* the window's construction to the end of the process.                    *)
(***************************************************************************)
EXTENDS StreamWorker, SequencesExt

CONSTANTS MaxTyped,     \* bound: commands the player types
          JoinTimeout   \* QThread.wait(2000), in ticks

ASSUME WindowAssumption == MaxTyped \in Nat /\ JoinTimeout \in Nat

VARIABLES window,         \* "open", "closing" (inside closeEvent), "closed", "exited"
          shown,          \* game text in the output pane
          notices,        \* "[error]" and "[connection closed]" lines in the pane
          typed,          \* commands echoed in the pane
          quitRequested,  \* QThread.quit() was called
          joinLeft,       \* ticks before QThread.wait gives up
          backlog         \* history: commands not yet sent when a live session
                          \* was closed; Unknown before, or if it was not live

joinVars   == <<quitRequested, joinLeft, backlog>>
windowVars == <<window, shown, notices, typed, joinVars>>
vars == <<linkVars, workerVars, windowVars>>

Unknown == MaxTyped + 1

-------------------------------------------------------------------------------
OnReturnPressed == /\ window = "open" /\ Len(typed) < MaxTyped
                   /\ LET cmd == Cmd(Len(typed) + 1)
                      IN typed' = Append(typed, cmd) /\ QueueLine(cmd)
                   /\ UNCHANGED <<linkVars, pc, timer, signals, flagVars, textVars, inHand, sent,
                                  sinceSend, wireGap, window, shown, notices, joinVars>>

CloseEvent == /\ window' = "closing"
              /\ Stop /\ quitRequested' = TRUE /\ joinLeft' = JoinTimeout
              /\ backlog' = IF connected THEN Len(inHand) + Len(outgoing) ELSE Unknown
              /\ UNCHANGED <<linkVars, pc, timer, connected, textVars, queueVars, typed>>

UserCloses == /\ window = "open"
              /\ CloseEvent /\ UNCHANGED <<signals, shown, notices>>

\* Signals are delivered while the event loop runs, not inside closeEvent.
Delivers(kind) == /\ window \in {"open", "closed"}
                  /\ signals # << >> /\ Head(signals).kind = kind
                  /\ signals' = Tail(signals)

OnData == /\ Delivers("data")
          /\ shown' = shown \o Head(signals).text
          /\ UNCHANGED <<linkVars, pc, timer, flagVars, textVars, queueVars,
                         window, notices, typed, joinVars>>

OnError == /\ Delivers("error")
           /\ notices' = Append(notices, "error")
           /\ UNCHANGED <<linkVars, pc, timer, flagVars, textVars, queueVars,
                          window, shown, typed, joinVars>>

OnConnectionClosed == /\ Delivers("closed")
                      /\ notices' = Append(notices, "closed")
                      /\ CloseEvent /\ UNCHANGED shown

\* closeEvent returns when wait() does: the thread has finished, or 2 s went by.
WaitForever == pc = "finished"                                       \* fault
WaitIsOver == pc = "finished" \/ joinLeft = 0

CloseEventReturns == /\ window = "closing" /\ WaitIsOver
                     /\ window' = "closed"
                     /\ UNCHANGED <<linkVars, workerVars, shown, notices, typed, joinVars>>

\* The last window is closed: app.exec() returns and the process ends, with
\* the worker's thread and the socket if they are still there.
AppExits == /\ window = "closed" /\ window' = "exited"
            /\ pc' = IF pc = "finished" THEN pc ELSE "killed"
            /\ Closed
            /\ UNCHANGED <<timer, signals, flagVars, textVars, queueVars,
                           shown, notices, typed, joinVars>>

Gui == OnData \/ OnError \/ OnConnectionClosed \/ CloseEventReturns \/ AppExits

\* start() has returned to the thread's event loop, which quit() ends.
ThreadFinishes == /\ pc = "returned" /\ quitRequested
                  /\ Goto("finished") /\ UNCHANGED <<linkVars, textVars, queueVars, windowVars>>

-------------------------------------------------------------------------------
(* Time passes only while both threads wait. *)
Minus1(n) == IF n = 0 THEN 0 ELSE n - 1
Capped(n) == IF n < MinInterval THEN n + 1 ELSE n

Joining == window = "closing" /\ joinLeft > 0
Tick == /\ Waiting /\ ~(pc = "returned" /\ quitRequested)
        /\ window = "closing" => Joining
        /\ timer' = IF pc \in {"recv", "send"} THEN Minus1(timer) ELSE timer
        /\ sinceSend' = Capped(sinceSend) /\ wireGap' = Capped(wireGap)
        /\ joinLeft' = IF Joining THEN joinLeft - 1 ELSE joinLeft
        /\ UNCHANGED <<linkVars, pc, signals, flagVars, textVars, outgoing, inHand, sent,
                       window, shown, notices, typed, quitRequested, backlog>>

Thread == (Start /\ UNCHANGED windowVars) \/ ThreadFinishes
Environment == Server /\ UNCHANGED <<workerVars, windowVars>>
User == OnReturnPressed \/ UserCloses

Exited == window = "exited" /\ UNCHANGED vars

Next == Thread \/ Gui \/ Environment \/ User \/ Tick \/ Exited

Init == /\ LinkInit
        /\ WorkerInit
        /\ window = "open"
        /\ shown = << >>
        /\ notices = << >>
        /\ typed = << >>
        /\ quitRequested = FALSE
        /\ joinLeft = 0
        /\ backlog = Unknown

Spec == Init /\ [][Next]_vars

\* Both threads are scheduled and time passes; the server and the player
\* promise nothing.
Fairness == /\ WF_vars(Thread)
            /\ WF_vars(Gui)
            /\ WF_vars(Tick)
FairSpec == Spec /\ Fairness

-------------------------------------------------------------------------------
WindowTypeOK == /\ window \in {"open", "closing", "closed", "exited"}
                /\ shown \in Seq(Atom) /\ typed \in Seq(Atom)
                /\ notices \in Seq({"error", "closed"})
                /\ quitRequested \in BOOLEAN
                /\ joinLeft \in 0..JoinTimeout /\ backlog \in Nat

\* Every variable has its type: in particular the worker never waits longer in
\* one call than the poll timeout (set_timeout).
TypeOK == LinkTypeOK /\ WorkerTypeOK /\ WindowTypeOK

\* The commands the player typed are the ones sent, then the one the worker
\* holds, then the queue: between the input box and the socket no command is
\* lost, repeated or overtaken, also when a send fails or the session ends
\* (_on_return_pressed, send_line and _drain_outgoing on two threads).
CommandsKept == typed = sent \o inHand \o outgoing

\* While a session is live, what the server sent is what was emitted to the
\* window, then what the display filter holds back, then what is unread: the
\* handshake's text is not lost and nothing is read twice or out of order
\* (perform_handshake's buffer, start's feed and emit).
TextKept == connected /\ sock /\ peer # "reset" => served = emitted \o held \o inbound

\* When the window says the connection is closed, it has shown all text that
\* was read, whatever ended the session: flush() and its emit come before
\* connection_closed in start's finally block.
ClosedNoticeIsLast == "closed" \in Range(notices) /\ peer # "reset" => served = shown \o inbound

\* While it has not closed, the server never finds a line it does not expect at
\* that point of the handshake: the first <c> follows settingsInfo, the second
\* follows the second mode tag, and no command precedes it (perform_handshake).
\* After EOF a <c> goes out without its marker (OnlyLiveSessionsClose).
HandshakeInStep ==
  sock /\ peer = "open" /\ outbound # << >> =>
    \/ phase = "game" /\ Head(outbound)[1] = "cmd"
    \/ phase \in DOMAIN Expects /\ Head(outbound) = Expects[phase]

\* Two commands are never sent within the pacing interval of each other,
\* however long a send blocks and however the queue fills (_drain_outgoing).
Pacing == [][sent' # sent => wireGap = MinInterval]_vars

\* Once the window has been told of the end of the session it is told nothing
\* more: no later text, no second notice (start's emit order and the queue of
\* signals).
NothingAfterClosed == [][ "closed" \in Range(notices) => UNCHANGED <<shown, notices>>]_vars

\* Closing the window on a live session joins the worker within wait(2000) when
\* the commands still to send fit in it, each with its pacing and the longest
\* send the timeout allows: the read loop notices stop() within one poll.
FitsInJoin(n) == PollTimeout + n * (MinInterval + PollTimeout) < JoinTimeout
JoinInTime == /\ backlog # Unknown
              /\ FitsInJoin(backlog)
              /\ window \in {"closed", "exited"}
              => pc = "finished"

\* A live session that loses its server ends in the window closing and the
\* process exiting, whatever is queued or held back (start, _on_connection_closed).
DisconnectEndsProcess == connected /\ peer # "open" ~> window = "exited"

\* Closing the window ends the process, also while the worker is blocked in
\* connect() or in the handshake (closeEvent's bounded wait).
CloseEndsProcess == window = "closing" ~> window = "exited"

\* A command typed in a live session is sent, or the session ends: the worker,
\* blocked in a read, wakes up to drain the queue also when no text arrives.
CommandIsSent == \A i \in 1..MaxTyped :
                   connected /\ Len(typed) >= i
                     ~> Len(sent) >= i \/ pc = "returned" \/ window = "exited"

\* Each direction is a FIFO link: commands from the input box to the socket, and
\* text from the server to the pane.
Commands   == INSTANCE FifoLink WITH sent <- typed, received <- sent
Transcript == INSTANCE FifoLink WITH sent <- served, received <- shown
CommandsAreFifo == Commands!Spec
TranscriptIsFifo == Transcript!Spec

\* What the source says and the code does not do.
\* stream_worker.py 57-66: a handshake that fails is no session, and does not
\* close the window.
OnlyLiveSessionsClose == "closed" \in Range(notices) => phase \in {"ready2", "game"}

\* window.py 75-76: the trigger is the actual disconnect.
OnlyDisconnectsEndSessions == connected /\ ~sock /\ ~stopRequested => peer # "open"
===============================================================================
