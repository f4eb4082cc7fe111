------------------------------ MODULE LoginWindow -----------------------------
(***************************************************************************)
(* LoginWindow (login/ui.py) on the GUI thread, composed with the worker   *)
(* and the authentication server: one run of rift-login, from the window's *)
(* construction to the end of the process.                                 *)
(***************************************************************************)
EXTENDS LoginWorker, FiniteSets, SequencesExt

CONSTANT MaxClicks      \* bound: clicks on Log In and on Launch

ASSUME ClicksAssumption == MaxClicks \in Nat

VARIABLES window,         \* "open", where closeEvent is, "closed", "exited"
          entered,        \* the account and password in the input fields
          remember,       \* _remember_checkbox
          loginEnabled,   \* the login controls are enabled
          offered,        \* the characters in _character_list
          selected,       \* the selected one, or None
          launchEnabled,  \* _launch_button is enabled
          keyring,        \* the credentials in the OS keyring
          lastChar,       \* last_game_code and last_char_code of the config
          status,         \* what _status_label says
          quitRequested,  \* QThread.quit() was called
          clicks          \* history: clicks so far

fieldVars  == <<entered, remember>>
listVars   == <<offered, selected, launchEnabled>>
savedVars  == <<keyring, lastChar>>
windowVars == <<window, fieldVars, loginEnabled, listVars, savedVars, status, quitRequested, clicks>>
vars == <<easVars, workerVars, windowVars>>

QueueCall(call) == /\ calls' = Append(calls, call) /\ clicks' = clicks + 1
                   /\ UNCHANGED <<easVars, pc, task, walkVars, signals, startVars,
                                  window, fieldVars, savedVars, quitRequested>>

-------------------------------------------------------------------------------
(* What the player does. *)
EditsFields == /\ window = "open" /\ loginEnabled
               /\ entered' \in Credentials /\ remember' \in BOOLEAN
               /\ fieldVars' # fieldVars
               /\ UNCHANGED <<easVars, workerVars, window, loginEnabled, listVars, savedVars,
                              status, quitRequested, clicks>>

\* QListWidget.clear() also clears the selection, which disables Launch.
ClearListOnly == offered' = {} /\ launchEnabled' = FALSE /\ UNCHANGED selected   \* fault
ClearList == offered' = {} /\ selected' = None /\ launchEnabled' = FALSE

OnLoginClicked == /\ window = "open" /\ loginEnabled /\ clicks < MaxClicks
                  /\ loginEnabled' = FALSE /\ ClearList /\ status' = "connecting"
                  /\ QueueCall(LoginCall(entered))

OnSelectionChanged == /\ window = "open"
                      /\ selected' \in (offered \cup {None}) \ {selected}
                      /\ launchEnabled' = (selected' # None)
                      /\ UNCHANGED <<easVars, workerVars, window, fieldVars, loginEnabled, offered,
                                     savedVars, status, quitRequested, clicks>>

OnLaunchClicked == /\ window = "open" /\ launchEnabled /\ clicks < MaxClicks
                   /\ selected # None
                   /\ launchEnabled' = FALSE /\ status' = "selecting"
                   /\ QueueCall(SelectCall(selected))
                   /\ UNCHANGED <<loginEnabled, offered, selected>>

\* closeEvent
StartsClosing == window' = "close" /\ UNCHANGED <<fieldVars, loginEnabled, listVars, savedVars,
                                                  quitRequested, clicks>>

UserCloses == window = "open" /\ StartsClosing /\ UNCHANGED <<easVars, workerVars, status>>

User == EditsFields \/ OnLoginClicked \/ OnSelectionChanged \/ OnLaunchClicked \/ UserCloses

-------------------------------------------------------------------------------
(* The signals of the worker, delivered while the event loop runs. *)
Delivers(kind) == /\ window \in {"open", "closed"}
                  /\ signals # << >> /\ Head(signals).kind = kind
                  /\ signals' = Tail(signals)
                  /\ UNCHANGED <<easVars, pc, task, calls, walkVars, startVars>>

Keyring(cred) == {k \in keyring : k[1] # cred[1]}

OnAuthenticated == /\ Delivers("authenticated")
                   /\ keyring' = IF remember THEN Keyring(entered) \cup {entered} ELSE Keyring(entered)
                   /\ status' = "loading"
                   /\ UNCHANGED <<window, fieldVars, loginEnabled, listVars, lastChar, quitRequested, clicks>>

OnAuthFailed == /\ Delivers("auth_failed") /\ loginEnabled' = TRUE /\ status' = "failed"
                /\ UNCHANGED <<window, fieldVars, listVars, savedVars, quitRequested, clicks>>

OnCharactersReady == /\ Delivers("characters")
                     /\ offered' = Head(signals).list /\ selected' = None /\ launchEnabled' = FALSE
                     /\ status' = IF offered' = {} THEN "none found" ELSE "choose"
                     /\ UNCHANGED <<window, fieldVars, loginEnabled, savedVars, quitRequested, clicks>>

OnHandoffReady == /\ Delivers("handoff")
                  /\ lastChar' = IF selected # None THEN selected ELSE lastChar
                  /\ status' = "launching"
                  /\ UNCHANGED <<window, fieldVars, loginEnabled, listVars, keyring, quitRequested, clicks>>

OnLaunched == Delivers("launched") /\ StartsClosing /\ status' = "launched"

KeepControls == UNCHANGED <<loginEnabled, launchEnabled>>            \* fault
EnableControls == loginEnabled' = TRUE /\ launchEnabled' = (selected # None)

OnError == /\ Delivers("error") /\ EnableControls /\ status' = "failed"
           /\ UNCHANGED <<window, fieldVars, offered, selected, savedVars, quitRequested, clicks>>

-------------------------------------------------------------------------------
(* closeEvent: the worker's close() on this thread, quit(), wait(2000).  What  *)
(* close() raises skips the other two, and the window closes all the same.     *)
Closing(next) == /\ window' = next
                 /\ UNCHANGED <<workerVars, fieldVars, loginEnabled, listVars, savedVars, status, clicks>>

WorkerClose == /\ \/ window = "close" /\ CloseChecks("quit", window')
                  \/ window = "closeUse" /\ CloseUses /\ window' = "closeSet"
                  \/ window = "closeUse" /\ CloseRaises /\ window' = "closed"
                  \/ window = "closeSet" /\ CloseSets /\ window' = "quit"
               /\ UNCHANGED <<workerVars, fieldVars, loginEnabled, listVars, savedVars, status,
                              clicks, quitRequested>>

Quit == window = "quit" /\ quitRequested' = TRUE /\ Closing("join") /\ UNCHANGED easVars

\* The thread has finished, or two seconds went by.
WaitReturns == /\ window = "join"
               /\ Closing("closed") /\ UNCHANGED <<easVars, quitRequested>>

\* The process ends, with the worker's thread if it is still there.
AppExits == /\ window = "closed" /\ window' = "exited"
            /\ pc' = IF pc = "finished" THEN pc ELSE "killed"
            /\ UNCHANGED <<easVars, task, calls, walkVars, signals, startVars, fieldVars,
                           loginEnabled, listVars, savedVars, status, quitRequested, clicks>>

Gui == \/ OnAuthenticated \/ OnAuthFailed \/ OnCharactersReady \/ OnHandoffReady
       \/ OnLaunched \/ OnError \/ WorkerClose \/ Quit \/ WaitReturns \/ AppExits

\* Calls already queued may still be served after quit().
ThreadFinishes == /\ pc = "idle" /\ quitRequested /\ pc' = "finished"
                  /\ UNCHANGED <<easVars, task, calls, walkVars, signals, startVars, windowVars>>

Thread == (Worker /\ UNCHANGED windowVars) \/ ThreadFinishes
Environment == EasServer /\ UNCHANGED <<workerVars, windowVars>>

Exited == window = "exited" /\ UNCHANGED vars

Next == Thread \/ Gui \/ User \/ Environment \/ Exited

\* The fields are filled in from the config and the keyring, or by the player.
Init == /\ EasInit /\ WorkerInit
        /\ window = "open" /\ entered \in Credentials
        /\ keyring \in {{}, {entered}} /\ remember = (keyring # {})
        /\ loginEnabled = TRUE
        /\ offered = {} /\ selected = None /\ launchEnabled = FALSE
        /\ lastChar = None /\ status = "empty"
        /\ quitRequested = FALSE /\ clicks = 0

Spec == Init /\ [][Next]_vars

\* Both threads are scheduled.  The server, the network and the player promise
\* nothing, and so neither does connect(), which has no timeout.
FairSpec == Spec /\ WF_vars(Thread /\ pc # "connect") /\ WF_vars(Gui)

-------------------------------------------------------------------------------
CharactersOf(games) == UNION {{<<g, c>> : c \in Roster[g]} : g \in games}
Chosen == CharactersOf(Games)
Supported == CharactersOf(Storm)

EasTypeOK == /\ sock \in {"none", "open", "closed"} /\ conn \in {"up", "eof", "reset"}
             /\ Len(requests) <= 1 /\ Len(replies) <= 1
             /\ serverGame \in Games \cup {None}

WorkerTypeOK ==
  /\ pc \in {"idle", "connect", "ask", "listen", "blocked", "write", "launch", "close", "closeUse",
             "closeSet", "finished", "killed"}
  /\ task.kind \in {"none", "login", "select"}
  /\ step \in {"K", "A", "M", "N", "F", "G", "P", "C", "L"}
  /\ game \in Games \cup {None} /\ todo \subseteq Games /\ listings \subseteq Supported
  /\ handoff \in Chosen \cup {None}

\* Every variable has its type: in particular the selection is always one of
\* the characters in the list, and at most one line or reply is on its way.
TypeOK == /\ EasTypeOK /\ WorkerTypeOK
          /\ window \in {"open", "close", "closeUse", "closeSet", "quit", "join", "closed", "exited"}
          /\ entered \in Credentials /\ keyring \subseteq Credentials
          /\ remember \in BOOLEAN /\ loginEnabled \in BOOLEAN /\ launchEnabled \in BOOLEAN
          /\ offered \subseteq Supported /\ selected \in offered \cup {None}
          /\ lastChar \in Chosen \cup {None}

\* A reply is read only as the answer to the line just sent, and the next line
\* is sent on a connection with nothing left on its way: recv_packet() reads
\* one message, also where the reply is then discarded (_characters_for_game).
RepliesInStep ==
  sock = "open" /\ conn = "up" =>
    /\ pc = "blocked" => \A r \in Range(replies) : r.verb = step
    /\ pc \in {"idle", "ask"} => requests = << >> /\ replies = << >>

\* The front-end is started for the character and game the player chose, not for
\* the game enumerate_all walked last (EASClient.select_character).
LaunchedAsAsked == \A f \in frontEnds : f.got = f.asked

\* One session of the server starts at most one front-end, however often Launch
\* is clicked: the connection is closed before another call is served.
OneFrontEndPerSession == startedHere <= 1

\* The list a login ends in is made of supported games, each with all of its
\* characters or with none of them, and it has every one of these games while
\* the connection is up (enumerate_all).  After a hang-up games may be missing.
ListIsWhole ==
  [][ Len(signals') > Len(signals) /\ Last(signals').kind = "characters"
      => \E games \in SUBSET Storm : /\ Last(signals').list = CharactersOf(games)
                                     /\ conn = "up" => games = Storm ]_vars

\* When all calls are answered and all signals delivered the player can go on:
\* log in again or choose a character.  An empty list is the exception, be it of
\* an account without a character, of games that are all refused, or of a server
\* that hung up at N: its player can only close the window (_on_characters_ready).
Settled == window = "open" /\ pc = "idle" /\ calls = << >> /\ signals = << >>
             => loginEnabled \/ offered # {} \/ status = "none found"

\* What a server owes whose player is to get an answer: no connect() takes for
\* ever, and a line that was sent is answered or the connection ends.
ServerKeepsUp == /\ []<>(pc # "connect")
                 /\ WF_vars(ServerAnswers /\ UNCHANGED <<workerVars, windowVars>>)

\* Every login, and every launch under way with it, comes to an end the player
\* sees: over all its round trips, refusals, hang-ups and calls queued before it
\* there is no path without a signal that enables the controls again, offers
\* characters or says that there are none (worker.py 44-55, ui.py 127-140).
LoginIsAnswered ==
  ServerKeepsUp => (~loginEnabled ~> \/ loginEnabled \/ offered # {} \/ status = "none found"
                                     \/ window # "open")

\* What the source says and the code does not do.
\* worker.py 40-43: every character on the account is enumerated, or error.
ListIsWholeOrError == \A s \in Range(signals) : s.kind = "characters" => s.list = Supported

\* ui.py 3-11: the window leaves the connection to the worker and calls nothing
\* across threads.  So closeEvent comes to its quit() before the window is gone.
QuitBeforeClosed == window \in {"closed", "exited"} => quitRequested
===============================================================================
