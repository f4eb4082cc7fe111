-------------------------- MODULE LoginWindowProofs ---------------------------
(***************************************************************************)
(* Theorems about LoginWindow for every value of its constants: any        *)
(* accounts, games and characters and any number of clicks.                *)
(***************************************************************************)
EXTENDS LoginWindow, SequenceTheorems, TLAPS

USE AccountAssumption, GamesAssumption, ClicksAssumption

-------------------------------------------------------------------------------
(* What the queues hold.                                                    *)

Verbs == {"K", "A", "M", "N", "F", "G", "P", "C", "L"}
Calls == [kind : {"login"}, arg : Credentials] \cup [kind : {"select"}, arg : Supported]
Endings == {"auth_failed", "error", "characters", "launched"}
SignalKinds == Endings \cup {"authenticated", "handoff"}
Signals == [kind : SignalKinds, list : SUBSET Supported, code : Verbs \cup {"eof", "none"}]

\* There is at most one line or reply on its way, and a line that names a game
\* names one of the games.
OneLine == /\ requests # << >> => requests = <<Head(requests)>> /\ Head(requests).verb \in Verbs
           /\ requests # << >> /\ Head(requests).verb \in {"N", "F", "G", "P"}
                => Head(requests).arg \in Games
           /\ replies # << >> => replies = <<Head(replies)>> /\ Head(replies).verb \in Verbs
           /\ (conn = "up" => requests = << >> \/ replies = << >>)

-------------------------------------------------------------------------------
(* The exchange with the server. *)

\* A call has yet to emit the signal it ends in.
Busy == pc \in {"connect", "ask", "listen", "blocked", "write", "launch"}

\* A line or its reply may still get through.
Live == pc = "blocked" \/ (sock = "open" /\ pc \in {"ask", "listen"})
Waiting == pc \in {"listen", "blocked"}

\* The call at work, and the part of the exchange that is its own.
AtWork == /\ task \in Calls \cup {NoCall}
          /\ Busy => task # NoCall
          /\ pc = "connect" => task.kind = "login"
          /\ pc \in {"write", "launch"} => task.kind = "select" /\ handoff = task.arg
          /\ pc \in {"ask", "listen", "blocked"} =>
               /\ task.kind = "login" => /\ step # "L"
                                         /\ step \in {"N", "F", "G", "P", "C"} => game \in Games
               /\ task.kind = "select" => step \in {"F", "G", "P", "C", "L"} /\ game = task.arg[1]

\* Between two exchanges nothing is on its way on an open connection; in one,
\* only the line of this step or its answer.
Synced == /\ sock = "open" /\ ~Waiting /\ pc # "killed" =>
               replies = << >> /\ (conn = "up" => requests = << >>)
          /\ Live /\ Waiting /\ conn = "up" /\ requests # << >> => Head(requests) = Line(step, Arg)

\* What an answer says: a game that was granted at N is supported, the list of
\* C is that of the game, and the handoff of L is the one asked for.
Answered == Live /\ Waiting /\ replies # << >> =>
  LET r == Head(replies)
  IN /\ r.verb = step
     /\ step = "M" /\ r.ok => r.body = Games
     /\ step = "N" => r.ok <=> game \in Storm
     /\ step = "F" /\ conn = "up" => serverGame = game
     /\ step = "C" /\ r.ok => r.body = Roster[game]
     /\ step = "L" /\ r.ok => r.body = {task.arg}

\* Past F the session of the server is at the game.
AtGame == Live /\ conn = "up" /\ step \in {"G", "P", "C", "L"} => serverGame = game

\* Past N a login is at a supported game.
Walked == pc \in {"ask", "listen", "blocked"} /\ task.kind = "login" /\ step \in {"F", "G", "P", "C"}
            => game \in Storm

\* What was found is made of whole games, and on a connection that stayed up it
\* is all there is in the games the walk has passed.
WholeGames(list) == \E games \in SUBSET Storm : list = CharactersOf(games)
Found(games) == CharactersOf(games \cap Storm)
Whole ==
  /\ WholeGames(listings)
  /\ Live /\ conn = "up" /\ task.kind = "login" /\ step \in {"N", "F", "G", "P", "C"} =>
       game \notin todo /\ listings = Found(Games \ (todo \cup {game}))

\* A session that has started its front-end has no open connection any more.
Spent == startedHere # 0 => /\ startedHere = 1
                            /\ \/ pc \in {"close", "closeUse", "killed"}
                               \/ sock # "open" /\ ~Waiting /\ pc \notin {"write", "launch"}

\* All of it is about these variables.
exchangeVars == <<easVars, pc, task, walkVars, startVars>>
Exchange == /\ EasTypeOK /\ WorkerTypeOK /\ OneLine
            /\ AtWork /\ Synced /\ Answered /\ AtGame /\ Walked /\ Whole /\ Spent
            /\ LaunchedAsAsked

-------------------------------------------------------------------------------
(* The window. *)

\* A call that is over has emitted the signal it ends in, after its others.
Ended == signals # << >> /\ ~Busy /\ pc # "killed" => Last(signals).kind \in Endings

\* The player waits only for something that is still to come.
Hope == window = "open" =>
          loginEnabled \/ offered # {} \/ status = "none found" \/ calls # << >> \/ Busy \/ signals # << >>

KilledAtExit == pc = "killed" => window = "exited"

\* What the window holds, with the two queues between the threads.
WindowTypeOK ==
  /\ window \in {"open", "close", "closeUse", "closeSet", "quit", "join", "closed", "exited"}
  /\ entered \in Credentials /\ keyring \subseteq Credentials
  /\ remember \in BOOLEAN /\ loginEnabled \in BOOLEAN /\ launchEnabled \in BOOLEAN
  /\ offered \subseteq Supported /\ selected \in offered \cup {None}
  /\ lastChar \in Chosen \cup {None}
  /\ calls \in Seq(Calls) /\ signals \in Seq(Signals)

Inv == /\ Exchange /\ WindowTypeOK
       /\ Ended /\ Hope /\ KilledAtExit

-------------------------------------------------------------------------------
(* Lemmas about the operators. *)
LEMMA Single == \A x : /\ Append(<< >>, x) = <<x>> /\ Head(<<x>>) = x /\ Tail(<<x>>) = << >>
                       /\ Len(<<x>>) = 1 /\ <<x>> # << >>
<1> TAKE x
<1> DEFINE S == {x}
<1>1. << >> \in Seq(S) /\ <<x>> \in Seq(S) /\ x \in S
  OBVIOUS
<1> QED
  BY <1>1

LEMMA Roles == /\ Supported \subseteq Chosen
               /\ \A c \in Supported : /\ c[1] \in Storm /\ c[1] \in Games
                                       /\ c = <<c[1], c[2]>>
  BY DEF Supported, Chosen, CharactersOf

\* A call is what its kind says.
LEMMA CallKinds == \A call \in Calls \cup {NoCall} :
  /\ call.kind \in {"none", "login", "select"}
  /\ call.kind = "login" => call.arg \in Credentials
  /\ call.kind = "select" => call.arg \in Supported
  /\ call.kind = "none" => call = NoCall
  BY DEF Calls, NoCall

LEMMA FoundNone == Found({}) = {}
<1>1. {} \cap Storm = {}
  OBVIOUS
<1> QED
  BY <1>1 DEF Found, CharactersOf

LEMMA FoundAll == Found(Games) = Supported
<1>1. Games \cap Storm = Storm
  OBVIOUS
<1> QED
  BY <1>1 DEF Found, Supported

\* No game, or one more game, is made of whole games too.
LEMMA WholeGamesNone == WholeGames({})
<1>1. {} = CharactersOf({}) /\ {} \in SUBSET Storm
  BY DEF CharactersOf
<1> QED
  BY <1>1 DEF WholeGames

LEMMA WholeGamesNext ==
  ASSUME NEW list, WholeGames(list), NEW g \in Storm
  PROVE  WholeGames(list \cup {<<g, c>> : c \in Roster[g]})
<1> PICK games \in SUBSET Storm : list = CharactersOf(games)
  BY DEF WholeGames
<1>1. list \cup {<<g, c>> : c \in Roster[g]} = CharactersOf(games \cup {g})
  BY DEF CharactersOf
<1>2. games \cup {g} \in SUBSET Storm
  OBVIOUS
<1> QED
  BY <1>1, <1>2 DEF WholeGames

\* A game that is passed adds its characters, or nothing where it is not supported.
LEMMA FoundNext ==
  ASSUME NEW left \in SUBSET Games, NEW g \in Games, g \notin left
  PROVE  /\ g \in Storm => Found(Games \ (left \cup {g})) \cup {<<g, c>> : c \in Roster[g]}
                             = Found(Games \ left)
         /\ g \notin Storm => Found(Games \ (left \cup {g})) = Found(Games \ left)
<1>1. (Games \ left) \cap Storm = ((Games \ (left \cup {g})) \cap Storm) \cup ({g} \cap Storm)
  OBVIOUS
<1>2. ASSUME g \notin Storm PROVE Found(Games \ (left \cup {g})) = Found(Games \ left)
  <2>1. (Games \ left) \cap Storm = (Games \ (left \cup {g})) \cap Storm
    BY <1>1, <1>2
  <2> QED
    BY <2>1 DEF Found, CharactersOf
<1>3. ASSUME g \in Storm
      PROVE Found(Games \ (left \cup {g})) \cup {<<g, c>> : c \in Roster[g]} = Found(Games \ left)
  <2>1. (Games \ left) \cap Storm = ((Games \ (left \cup {g})) \cap Storm) \cup {g}
    BY <1>1, <1>3
  <2> QED
    BY <2>1 DEF Found, CharactersOf
<1> QED
  BY <1>2, <1>3

\* What Arg stands for at each line.
LEMMA ArgIs == /\ step \in {"N", "F", "G", "P"} => Arg = game
               /\ step = "L" => Arg = task.arg[2]
  BY DEF Arg

LEMMA LineIs == \A verb, arg : Line(verb, arg).verb = verb /\ Line(verb, arg).arg = arg
  BY DEF Line
LEMMA ReplyIs == \A verb, ok, body : LET r == Reply(verb, ok, body)
                                     IN r.verb = verb /\ r.ok = ok /\ r.body = body
  BY DEF Reply

-------------------------------------------------------------------------------
(* The exchange is kept by every step: first those that do not concern it. *)
LEMMA ExchangeUnchanged == ASSUME Exchange, UNCHANGED exchangeVars PROVE Exchange'
<1> USE DEF exchangeVars, easVars, walkVars, startVars
<1>1. EasTypeOK' /\ WorkerTypeOK'
  BY DEF Exchange, EasTypeOK, WorkerTypeOK
<1>2. OneLine' /\ AtWork' /\ AtGame' /\ Walked' /\ Whole' /\ Spent' /\ LaunchedAsAsked'
  BY DEF Exchange, OneLine, AtWork, AtGame, Walked, Whole, Spent, LaunchedAsAsked, Busy, Live, Waiting
<1>3. Synced'
  BY DEF Exchange, Synced, Live, Waiting, Arg
<1>4. Answered'
  BY DEF Exchange, Answered, Live, Waiting
<1> QED
  BY <1>1, <1>2, <1>3, <1>4 DEF Exchange

\* close(), from either thread, takes the socket away.
LEMMA Sinks ==
  ASSUME Exchange, sock' \in {sock, "closed", "none"},
         UNCHANGED <<conn, requests, replies, serverGame, pc, task, walkVars, startVars>>
  PROVE  Exchange'
<1> USE DEF walkVars, startVars
<1>1. EasTypeOK' /\ WorkerTypeOK'
  BY DEF Exchange, EasTypeOK, WorkerTypeOK
<1>2. OneLine' /\ AtWork' /\ AtGame' /\ Walked' /\ Whole' /\ Spent' /\ LaunchedAsAsked'
  BY DEF Exchange, OneLine, AtWork, AtGame, Walked, Whole, Spent, LaunchedAsAsked, Busy, Live, Waiting
<1>3. Synced'
  BY DEF Exchange, Synced, Live, Waiting, Arg
<1>4. Answered'
  BY DEF Exchange, Answered, Live, Waiting
<1> QED
  BY <1>1, <1>2, <1>3, <1>4 DEF Exchange

\* The thread leaves the exchange where it is.
LEMMA ThreadEnds ==
  ASSUME Exchange, pc' = "killed" \/ (pc = "idle" /\ pc' = "finished"),
         UNCHANGED <<easVars, task, walkVars, startVars>>
  PROVE  Exchange'
<1> USE DEF easVars, walkVars, startVars
<1>1. EasTypeOK' /\ WorkerTypeOK'
  BY DEF Exchange, EasTypeOK, WorkerTypeOK
<1>2. OneLine' /\ AtWork' /\ AtGame' /\ Walked' /\ Whole' /\ Spent' /\ LaunchedAsAsked'
  BY DEF Exchange, OneLine, AtWork, AtGame, Walked, Whole, Spent, LaunchedAsAsked, Busy, Live, Waiting
<1>3. Synced' /\ Answered'
  BY DEF Exchange, Synced, Answered, Live, Waiting
<1> QED
  BY <1>1, <1>2, <1>3 DEF Exchange

-------------------------------------------------------------------------------
(* The server. *)

\* What the server says to a line.
Answers(line, r) == /\ r.verb = line.verb
                    /\ r.ok => Grants(line) /\ r.body = Bodies(line)
                    /\ ~r.ok => Refuses(line)

LEMMA ServerAnswersOne ==
  ASSUME Exchange, ServerAnswers
  PROVE  \E line, r : /\ requests = <<line>> /\ replies = << >> /\ requests' = << >>
                      /\ replies' = <<r>> /\ Answers(line, r)
                      /\ line = Head(requests) /\ r = Head(replies')
                      /\ serverGame' = GameAfter(line)
<1> DEFINE line == Head(requests)
<1>1. requests = <<line>> /\ replies = << >> /\ conn = "up"
  BY DEF Exchange, OneLine, ServerAnswers
<1>2. PICK r : Answers(line, r) /\ replies' = Append(replies, r)
  <2>1. CASE Grants(line) /\ replies' = Append(replies, Reply(line.verb, TRUE, Bodies(line)))
    <3> DEFINE a == Reply(line.verb, TRUE, Bodies(line))
    <3>1. a.verb = line.verb /\ a.ok /\ a.body = Bodies(line)
      BY DEF Reply
    <3> QED
      BY <2>1, <3>1 DEF Answers
  <2>2. CASE Refuses(line) /\ replies' = Append(replies, Reply(line.verb, FALSE, {}))
    BY <2>2, ReplyIs DEF Answers
  <2> QED
    BY <2>1, <2>2 DEF ServerAnswers
<1>3. replies' = <<r>> /\ Head(replies') = r
  BY <1>1, <1>2, Single
<1>4. requests' = << >> /\ serverGame' = GameAfter(line)
  BY <1>1, Single DEF ServerAnswers
<1> QED
  BY <1>1, <1>2, <1>3, <1>4

LEMMA ServerAnswersExchange ==
  ASSUME Exchange, ServerAnswers, UNCHANGED <<workerVars>> PROVE Exchange'
<1> USE DEF workerVars, walkVars, startVars
<1> PICK line, r : /\ requests = <<line>> /\ replies = << >> /\ requests' = << >>
                   /\ replies' = <<r>> /\ Answers(line, r)
                   /\ line = Head(requests) /\ r = Head(replies')
                   /\ serverGame' = GameAfter(line)
  BY ServerAnswersOne
<1>0. /\ conn = "up" /\ UNCHANGED <<sock, conn>> /\ requests # << >> /\ replies' # << >>
      /\ Len(requests') = 0 /\ Len(replies') = 1
      /\ line.verb \in Verbs /\ (line.verb \in {"N", "F", "G", "P"} => line.arg \in Games)
  BY Single DEF ServerAnswers, Exchange, OneLine
<1>1. EasTypeOK'
  BY <1>0 DEF Exchange, EasTypeOK, GameAfter
<1>2. WorkerTypeOK' /\ AtWork' /\ Walked' /\ Whole' /\ Spent' /\ LaunchedAsAsked'
  BY <1>0 DEF Exchange, WorkerTypeOK, AtWork, Walked, Whole, Spent, LaunchedAsAsked, Busy, Live, Waiting
<1>3. OneLine'
  BY <1>0 DEF OneLine, Answers
<1>4. sock = "open" /\ pc # "killed" => Waiting
  BY <1>0 DEF Exchange, Synced
<1>5. Synced'
  BY <1>0, <1>4 DEF Exchange, Synced, Live, Waiting
<1>6. Live => Waiting /\ line.verb = step /\ line.arg = Arg
  BY <1>0, <1>4, LineIs DEF Exchange, Synced, Live, Waiting
<1>7. AtGame'
  <2>1. Live /\ step \in {"G", "P"} => serverGame' = game
    BY <1>6, ArgIs DEF GameAfter
  <2>2. Live /\ step \in {"C", "L"} => serverGame' = game
    BY <1>0, <1>6 DEF GameAfter, Exchange, AtGame
  <2> QED
    BY <1>0, <2>1, <2>2 DEF AtGame, Live
<1>8. Answered'
  <2> SUFFICES ASSUME Live, Waiting
               PROVE  /\ r.verb = step
                      /\ step = "M" /\ r.ok => r.body = Games
                      /\ step = "N" => (r.ok <=> game \in Storm)
                      /\ step = "F" => serverGame' = game
                      /\ step = "C" /\ r.ok => r.body = Roster[game]
                      /\ step = "L" /\ r.ok => r.body = {task.arg}
    BY <1>0 DEF Answered, Live, Waiting
  <2>1. r.verb = step /\ line.verb = step
    BY <1>6 DEF Answers
  <2>2. step = "M" /\ r.ok => r.body = Games
    BY <2>1 DEF Answers, Bodies
  <2>3. step = "N" => (r.ok <=> game \in Storm)
    BY <2>1, <1>6, ArgIs DEF Answers, Grants, Refuses
  <2>4. step = "F" => serverGame' = game
    BY <2>1, <1>6, ArgIs DEF GameAfter
  <2>5. step \in {"C", "L"} => serverGame = game
    BY <1>0 DEF Exchange, AtGame
  <2>6. step = "C" /\ r.ok => r.body = Roster[game]
    <3>1. step = "C" => game \in Games
      BY Roles, CallKinds DEF Exchange, AtWork, Waiting, Busy
    <3> QED
      BY <2>1, <2>5, <3>1 DEF Answers, Bodies
  <2>7. step = "L" /\ r.ok => r.body = {task.arg}
    <3> HAVE step = "L" /\ r.ok
    <3>1. task.kind = "select" /\ game = task.arg[1] /\ task.arg \in Supported
      BY CallKinds DEF Exchange, AtWork, Waiting, Busy
    <3>2. r.body = {<<game, task.arg[2]>>}
      BY <2>1, <2>5, <1>6, ArgIs DEF Answers, Bodies
    <3> QED
      BY <3>1, <3>2, Roles
  <2> QED
    BY <2>1, <2>2, <2>3, <2>4, <2>6, <2>7
<1> QED
  BY <1>1, <1>2, <1>3, <1>5, <1>7, <1>8 DEF Exchange

\* When the connection ends nothing more is sent, and what was sent may be lost.
LEMMA ServerHangsUpExchange ==
  ASSUME Exchange, ServerCloses \/ ConnectionResets, UNCHANGED <<workerVars>> PROVE Exchange'
<1> USE DEF workerVars, walkVars, startVars
<1>0. /\ UNCHANGED <<sock, requests, serverGame>> /\ conn' \in {"eof", "reset"}
      /\ replies' = replies \/ replies' = << >>
  BY DEF ServerCloses, ConnectionResets
<1>1. EasTypeOK'
  BY <1>0 DEF Exchange, EasTypeOK
<1>2. /\ WorkerTypeOK' /\ OneLine' /\ AtWork' /\ AtGame' /\ Walked' /\ Whole' /\ Spent'
      /\ LaunchedAsAsked'
  BY <1>0 DEF Exchange, WorkerTypeOK, OneLine, AtWork, AtGame, Walked, Whole, Spent,
              LaunchedAsAsked, Busy, Live, Waiting
<1>3. Synced'
  BY <1>0 DEF Exchange, Synced, Live, Waiting
<1>4. Answered'
  BY <1>0 DEF Exchange, Answered, Live, Waiting
<1> QED
  BY <1>1, <1>2, <1>3, <1>4 DEF Exchange

-------------------------------------------------------------------------------
(* The worker's own steps. *)
LEMMA CallAtWork ==
  ASSUME Exchange, Busy
  PROVE  \/ task.kind = "login" /\ task.arg \in Credentials
         \/ task.kind = "select" /\ task.arg \in Supported
<1>1. task \in Calls \cup {NoCall} /\ task # NoCall
  BY DEF Exchange, AtWork
<1> QED
  BY <1>1, CallKinds

LEMMA ServeCallExchange ==
  ASSUME Exchange, calls \in Seq(Calls), ServeCall PROVE Exchange'
<1> USE DEF easVars, startVars, walkVars
<1>1. task' \in Calls /\ task'.kind \in {"login", "select"} /\ task' # NoCall
  <2>1. task' \in Calls
    BY DEF ServeCall
  <2> QED
    BY <2>1 DEF Calls, NoCall
<1>2. task'.kind = "select" => task'.arg \in Supported /\ task'.arg[1] \in Games
  BY <1>1, CallKinds, Roles
<1>3. /\ pc = "idle" /\ UNCHANGED <<easVars, startVars, todo, listings>>
      /\ \/ task'.kind = "login" /\ pc' = "connect" /\ UNCHANGED <<step, game>>
         \/ task'.kind = "select" /\ pc' = "ask" /\ step' = "F" /\ game' = task'.arg[1]
  BY <1>1 DEF ServeCall, FirstStep
<1>4. EasTypeOK' /\ OneLine'
  BY <1>3 DEF Exchange, EasTypeOK, OneLine
<1>5. WorkerTypeOK'
  BY <1>1, <1>2, <1>3 DEF Exchange, WorkerTypeOK
<1>6. AtWork' /\ AtGame' /\ Walked' /\ Whole' /\ Spent' /\ LaunchedAsAsked'
  BY <1>1, <1>3 DEF Exchange, AtWork, AtGame, Walked, Whole, Spent, LaunchedAsAsked, Busy, Live, Waiting
<1>7. Synced' /\ Answered'
  BY <1>3 DEF Exchange, Synced, Answered, Waiting
<1> QED
  BY <1>4, <1>5, <1>6, <1>7 DEF Exchange

LEMMA ConnectExchange == ASSUME Exchange, Connect PROVE Exchange'
<1>1. /\ pc = "connect" /\ task.kind = "login"
      /\ sock' = "open" /\ conn' = "up" /\ requests' = << >> /\ replies' = << >> /\ serverGame' = None
      /\ pc' = "ask" /\ step' = "K" /\ startedHere' = 0
      /\ UNCHANGED <<task, game, todo, listings, handoff, frontEnds>>
  BY DEF Connect, NewSocket, Exchange, AtWork
<1>2. EasTypeOK'
  BY <1>1 DEF EasTypeOK
<1>3. WorkerTypeOK'
  BY <1>1 DEF Exchange, WorkerTypeOK
<1>4. OneLine' /\ AtWork' /\ AtGame' /\ Walked' /\ Whole' /\ Spent' /\ LaunchedAsAsked'
  BY <1>1 DEF Exchange, OneLine, AtWork, AtGame, Walked, Whole, Spent, LaunchedAsAsked, Busy, Live, Waiting
<1>5. Synced' /\ Answered'
  BY <1>1 DEF Synced, Answered, Waiting
<1> QED
  BY <1>2, <1>3, <1>4, <1>5 DEF Exchange

\* A call that fails may leave the connection open, with nothing on its way.
LEMMA GivesUp ==
  ASSUME Exchange, Busy, pc' = "idle",
         UNCHANGED <<easVars, task, walkVars, startVars>>,
         sock = "open" /\ Waiting => replies = << >> /\ conn # "up"
  PROVE  Exchange'
<1> USE DEF easVars, walkVars, startVars
<1>1. EasTypeOK' /\ WorkerTypeOK'
  BY DEF Exchange, EasTypeOK, WorkerTypeOK
<1>2. OneLine' /\ AtWork' /\ AtGame' /\ Walked' /\ Whole' /\ Spent' /\ LaunchedAsAsked'
  BY DEF Exchange, OneLine, AtWork, AtGame, Walked, Whole, Spent, LaunchedAsAsked, Busy, Live, Waiting
<1>3. Synced' /\ Answered'
  BY DEF Exchange, Synced, Answered, Live, Waiting, Busy
<1> QED
  BY <1>1, <1>2, <1>3 DEF Exchange

LEMMA ConnectRaisesExchange == ASSUME Exchange, ConnectRaises PROVE Exchange'
<1>1. CASE UNCHANGED <<easVars, startedHere>>
  BY <1>1, GivesUp DEF ConnectRaises, Fails, Busy, Waiting, startVars
<1>2. CASE NewSocket /\ startedHere' = 0
  <2>1. /\ pc' = "idle"
        /\ sock' = "open" /\ conn' = "up" /\ requests' = << >> /\ replies' = << >> /\ serverGame' = None
        /\ startedHere' = 0 /\ UNCHANGED <<task, step, game, todo, listings, handoff, frontEnds>>
    BY <1>2 DEF ConnectRaises, NewSocket, Fails, walkVars
  <2>2. EasTypeOK'
    BY <2>1 DEF EasTypeOK
  <2>3. WorkerTypeOK'
    BY <2>1 DEF Exchange, WorkerTypeOK
  <2>4. OneLine' /\ AtWork' /\ AtGame' /\ Walked' /\ Whole' /\ Spent' /\ LaunchedAsAsked'
    BY <2>1 DEF Exchange, OneLine, AtWork, AtGame, Walked, Whole, Spent, LaunchedAsAsked, Busy, Live, Waiting
  <2>5. Synced' /\ Answered'
    BY <2>1 DEF Synced, Answered, Waiting
  <2> QED
    BY <2>2, <2>3, <2>4, <2>5 DEF Exchange
<1> QED
  BY <1>1, <1>2 DEF ConnectRaises

LEMMA AskExchange == ASSUME Exchange, Ask PROVE Exchange'
<1>0. /\ pc = "ask" /\ pc' = "listen" /\ sock = "open" /\ conn # "reset"
      /\ UNCHANGED <<sock, conn, replies, serverGame, task, step, game, todo, listings, startVars>>
      /\ requests' = IF conn = "up" THEN Append(requests, Line(step, Arg)) ELSE requests
  BY DEF Ask, CanSend, SendLine, AwaitReply
<1>1. replies = << >> /\ (conn = "up" => requests = << >>)
  BY <1>0 DEF Exchange, Synced, Waiting
<1>2. conn = "up" => requests' = <<Line(step, Arg)>> /\ Head(requests') = Line(step, Arg)
  BY <1>0, <1>1, Single
<1>3. conn # "up" => requests' = requests
  BY <1>0
<1>4. step \in Verbs /\ (step \in {"N", "F", "G", "P"} => Arg \in Games)
  <2>1. step \in Verbs
    BY DEF Exchange, WorkerTypeOK, Verbs
  <2>2. step \in {"N", "F", "G", "P"} => game \in Games
    BY <1>0, CallAtWork, Roles DEF Exchange, AtWork, Busy
  <2> QED
    BY <2>1, <2>2, ArgIs
<1>5. OneLine'
  <2>1. CASE conn = "up"
    BY <2>1, <1>0, <1>1, <1>2, <1>4, LineIs DEF OneLine
  <2>2. CASE conn # "up"
    BY <2>2, <1>0, <1>1, <1>3 DEF OneLine, Exchange
  <2> QED
    BY <2>1, <2>2
<1>6. EasTypeOK'
  <2>1. Len(requests') <= 1
    BY <1>2, <1>3, Single DEF Exchange, EasTypeOK
  <2> QED
    BY <2>1, <1>0 DEF Exchange, EasTypeOK
<1>7. WorkerTypeOK' /\ AtWork' /\ AtGame' /\ Walked' /\ Whole' /\ Spent' /\ LaunchedAsAsked'
  BY <1>0 DEF Exchange, WorkerTypeOK, AtWork, AtGame, Walked, Whole, Spent, LaunchedAsAsked,
              Busy, Live, Waiting, startVars
<1>8. Arg' = Arg
  BY <1>0 DEF Arg
<1>9. Synced'
  BY <1>0, <1>2, <1>8 DEF Synced, Waiting
<1>10. Answered'
  BY <1>0, <1>1 DEF Answered
<1> QED
  BY <1>5, <1>6, <1>7, <1>9, <1>10 DEF Exchange

LEMMA ListenExchange == ASSUME Exchange, Listen PROVE Exchange'
<1>0. /\ pc = "listen" /\ pc' = "blocked" /\ sock = "open"
      /\ UNCHANGED <<easVars, task, walkVars, startVars>>
  BY DEF Listen, RecvStarts
<1> USE DEF easVars, walkVars, startVars
<1>1. EasTypeOK' /\ WorkerTypeOK'
  BY <1>0 DEF Exchange, EasTypeOK, WorkerTypeOK
<1>2. OneLine' /\ AtWork' /\ AtGame' /\ Walked' /\ Whole' /\ Spent' /\ LaunchedAsAsked'
  BY <1>0 DEF Exchange, OneLine, AtWork, AtGame, Walked, Whole, Spent, LaunchedAsAsked, Busy, Live, Waiting
<1>3. Synced'
  BY <1>0 DEF Exchange, Synced, Live, Waiting, Arg
<1>4. Answered'
  BY <1>0 DEF Exchange, Answered, Live, Waiting
<1> QED
  BY <1>1, <1>2, <1>3, <1>4 DEF Exchange

LEMMA RaisesExchange ==
  ASSUME Exchange, AskRaises \/ ListenRaises \/ WriteSalFails \/ LaunchFails PROVE Exchange'
<1>1. pc' = "idle" /\ UNCHANGED <<easVars, task, walkVars, startVars>> /\ Busy
  BY DEF AskRaises, ListenRaises, WriteSalFails, LaunchFails, FailsHere, Fails, Busy
<1>2. sock = "open" /\ Waiting => replies = << >> /\ conn # "up"
  BY DEF AskRaises, ListenRaises, WriteSalFails, LaunchFails, RecvStarts, Waiting
<1> QED
  BY <1>1, <1>2, GivesUp

LEMMA WriteSalExchange == ASSUME Exchange, WriteSal PROVE Exchange'
<1>0. /\ pc = "write" /\ pc' = "launch" /\ UNCHANGED <<easVars, task, walkVars, startVars>>
  BY DEF WriteSal
<1> USE DEF easVars, walkVars, startVars
<1>1. EasTypeOK' /\ WorkerTypeOK'
  BY <1>0 DEF Exchange, EasTypeOK, WorkerTypeOK
<1>2. OneLine' /\ AtWork' /\ AtGame' /\ Walked' /\ Whole' /\ Spent' /\ LaunchedAsAsked'
  BY <1>0 DEF Exchange, OneLine, AtWork, AtGame, Walked, Whole, Spent, LaunchedAsAsked, Busy, Live, Waiting
<1>3. Synced' /\ Answered'
  BY <1>0 DEF Exchange, Synced, Answered, Live, Waiting
<1> QED
  BY <1>1, <1>2, <1>3 DEF Exchange

\* The front-end is started for the call that is at work, once.
LEMMA LaunchExchange == ASSUME Exchange, Launch PROVE Exchange'
<1>0. /\ pc = "launch" /\ pc' = "close"
      /\ UNCHANGED <<easVars, task, walkVars, handoff>>
      /\ frontEnds' = frontEnds \cup {[asked |-> task.arg, got |-> handoff]}
      /\ startedHere' = startedHere + 1
  BY DEF Launch, CloseFrontEnd
<1> USE DEF easVars, walkVars
<1>1. EasTypeOK' /\ WorkerTypeOK'
  BY <1>0 DEF Exchange, EasTypeOK, WorkerTypeOK
<1>2. OneLine' /\ AtWork' /\ AtGame' /\ Walked' /\ Whole'
  BY <1>0 DEF Exchange, OneLine, AtWork, AtGame, Walked, Whole, Busy, Live, Waiting
<1>3. startedHere = 0
  BY <1>0 DEF Exchange, Spent
<1>4. Spent'
  BY <1>0, <1>3 DEF Spent
<1>5. LaunchedAsAsked'
  <2>1. handoff = task.arg
    BY <1>0 DEF Exchange, AtWork
  <2> QED
    BY <1>0, <2>1 DEF Exchange, LaunchedAsAsked
<1>6. Synced' /\ Answered'
  BY <1>0 DEF Exchange, Synced, Answered, Live, Waiting
<1> QED
  BY <1>1, <1>2, <1>4, <1>5, <1>6 DEF Exchange

LEMMA CloseExchange == ASSUME Exchange, Close PROVE Exchange'
<1>0. /\ pc \in {"close", "closeUse", "closeSet"}
      /\ \/ pc' = "closeUse" /\ sock' = sock /\ pc # "closeSet"
         \/ pc' = "idle" /\ sock = "none" /\ sock' = "none"
         \/ pc' \in {"idle", "closeSet"} /\ sock' \in {"closed", "none"}
      /\ UNCHANGED <<conn, requests, replies, serverGame, task, walkVars, startVars>>
  BY DEF Close, CloseChecks, CloseUses, CloseRaises, CloseSets, easVars
<1> USE DEF walkVars, startVars
<1>1. EasTypeOK' /\ WorkerTypeOK'
  BY <1>0 DEF Exchange, EasTypeOK, WorkerTypeOK
<1>2. OneLine' /\ AtWork' /\ AtGame' /\ Walked' /\ Whole' /\ Spent' /\ LaunchedAsAsked'
  BY <1>0 DEF Exchange, OneLine, AtWork, AtGame, Walked, Whole, Spent, LaunchedAsAsked, Busy, Live, Waiting
<1>3. Synced' /\ Answered'
  BY <1>0 DEF Exchange, Synced, Answered, Live, Waiting
<1> QED
  BY <1>1, <1>2, <1>3 DEF Exchange

-------------------------------------------------------------------------------
(* A reply is read, or the end of the connection, and parsed. *)

\* What the worker may take from what it reads.
Says(r) == /\ r.verb \in Verbs \cup {"eof"}
           /\ step = "M" /\ Fits(r) => r.body = Games
           /\ step = "N" => /\ Fits(r) => game \in Storm
                            /\ conn = "up" /\ ~Fits(r) => game \notin Storm
           /\ step = "F" /\ conn = "up" => serverGame = game
           /\ step = "C" /\ Fits(r) => r.body = Roster[game]
           /\ step = "L" /\ Fits(r) => r.body = {task.arg}

Heard(r) == /\ pc = "blocked" /\ replies' = << >>
            /\ UNCHANGED <<sock, conn, requests, serverGame>>
            /\ conn = "up" => requests = << >>
            /\ Says(r) /\ Parse(r)

LEMMA HearSays == ASSUME Exchange, Hear \/ HearEof PROVE \E r : Heard(r)
<1>1. CASE Hear
  <2> DEFINE r == Head(replies)
  <2>1. /\ pc = "blocked" /\ replies # << >> /\ replies = <<r>>
        /\ UNCHANGED <<sock, conn, requests, serverGame>>
        /\ conn = "up" => requests = << >>
    BY <1>1 DEF Hear, RecvPacket, Exchange, OneLine
  <2>2. replies' = << >>
    BY <1>1, <2>1, Single DEF Hear, RecvPacket
  <2>3. Answered /\ Live /\ Waiting
    BY <2>1 DEF Exchange, Live, Waiting
  <2>4. Says(r)
    <3>1. r.verb \in Verbs
      BY <2>1 DEF Exchange, OneLine
    <3> QED
      BY <2>1, <2>3, <3>1 DEF Answered, Says, Fits
  <2> QED
    BY <1>1, <2>1, <2>2, <2>4 DEF Heard, Hear
<1>2. CASE HearEof
  <2> DEFINE r == EofReply
  <2>1. r.verb = "eof" /\ ~r.ok
    BY DEF EofReply, Reply
  <2>2. Says(r)
    BY <1>2, <2>1 DEF Says, Fits, HearEof, AtEof
  <2> QED
    BY <1>2, <2>2 DEF Heard, HearEof, AtEof, easVars
<1> QED
  BY <1>1, <1>2

\* What parsing has to keep; the rest is settled by the reply being gone.
Parsed == WorkerTypeOK /\ AtWork /\ AtGame /\ Walked /\ Whole

LEMMA HeardExchange ==
  ASSUME Exchange, NEW r, Heard(r), Parsed', UNCHANGED <<frontEnds, startedHere>>
  PROVE  Exchange'
<1> USE DEF Heard
<1>1. EasTypeOK'
  <2>1. Len(replies') = 0
    OBVIOUS
  <2> QED
    BY <2>1 DEF Exchange, EasTypeOK
<1>2. OneLine'
  BY DEF Exchange, OneLine
<1>3. Synced' /\ Answered'
  BY DEF Synced, Answered
<1>4. Spent' /\ LaunchedAsAsked'
  BY DEF Exchange, Spent, Waiting, LaunchedAsAsked
<1> QED
  BY <1>1, <1>2, <1>3, <1>4 DEF Exchange, Parsed

\* The walk of enumerate_all goes on with all the characters of the games behind it.
LEMMA NextGameParsed ==
  ASSUME Exchange, pc = "blocked", task.kind = "login", UNCHANGED <<sock, conn, serverGame, task, handoff>>,
         NEW games \in SUBSET Games, NEW found \in SUBSET Supported, WholeGames(found),
         conn = "up" => found = Found(Games \ games), NextGame(games, found)
  PROVE  Parsed'
<1>1. CASE games = {} /\ pc' = "idle" /\ listings' = {} /\ todo' = {} /\ UNCHANGED <<step, game>>
  <2>1. WorkerTypeOK'
    BY <1>1 DEF Exchange, WorkerTypeOK
  <2> QED
    BY <1>1, <2>1, WholeGamesNone DEF Exchange, Parsed, AtWork, AtGame, Walked, Whole, Live, Busy
<1>2. ASSUME NEW g \in games, game' = g, todo' = games \ {g}, step' = "N",
             listings' = found, pc' = "ask"
      PROVE  Parsed'
  <2>1. WorkerTypeOK'
    BY <1>2 DEF Exchange, WorkerTypeOK
  <2>2. AtWork' /\ AtGame' /\ Walked'
    BY <1>2 DEF Exchange, AtWork, AtGame, Walked, Busy
  <2>3. todo' \cup {game'} = games /\ game' \notin todo'
    BY <1>2
  <2>4. Whole'
    <3>0. WholeGames(listings')
      BY <1>2
    <3> SUFFICES ASSUME conn = "up" PROVE Whole'
      BY <3>0 DEF Whole
    <3>1. listings' = Found(Games \ games)
      BY <1>2
    <3>2. Found(Games \ (todo' \cup {game'})) = Found(Games \ games)
      BY <2>3
    <3>3. game' \notin todo' /\ listings' = Found(Games \ (todo' \cup {game'}))
      BY <2>3, <3>1, <3>2
    <3> QED
      BY <3>0, <3>3 DEF Whole, Found
  <2> QED
    BY <2>1, <2>2, <2>4 DEF Parsed
<1> QED
  BY <1>1, <1>2 DEF NextGame

LEMMA ToStepParsed ==
  ASSUME Exchange, pc = "blocked", UNCHANGED <<sock, conn, serverGame, task>>,
         NEW next, ToStep(next),
         \/ step \in {"K", "A"} /\ next \in {"A", "M"}
         \/ step = "N" /\ next = "F" /\ game \in Storm
         \/ step = "F" /\ next = "G" /\ (conn = "up" => serverGame = game)
         \/ step = "G" /\ next = "P"
         \/ step = "P" /\ next = "C"
         \/ step = "C" /\ next = "L" /\ task.kind = "select"
  PROVE  Parsed'
<1>0. pc' = "ask" /\ step' = next /\ UNCHANGED <<sock, conn, serverGame, task, game, todo, listings, handoff>>
  BY DEF ToStep
<1>1. WorkerTypeOK'
  BY <1>0 DEF Exchange, WorkerTypeOK
<1>2. AtWork'
  BY <1>0, CallAtWork DEF Exchange, AtWork, Busy
<1>3. AtGame'
  BY <1>0 DEF Exchange, AtGame, Live
<1>4. Walked'
  BY <1>0 DEF Exchange, Walked
<1>5. Whole'
  BY <1>0 DEF Exchange, Whole, Live, Found
<1> QED
  BY <1>1, <1>2, <1>3, <1>4, <1>5 DEF Parsed

LEMMA ParseParsed ==
  ASSUME Exchange, NEW r, Heard(r)
  PROVE  Parsed' /\ UNCHANGED <<frontEnds, startedHere>>
<1>0. /\ pc = "blocked" /\ Busy /\ Live
      /\ UNCHANGED <<sock, conn, serverGame>> /\ Says(r) /\ Parse(r)
  BY DEF Heard, Busy, Live
<1>1. /\ UNCHANGED <<task, calls, frontEnds, startedHere>>
  BY <1>0 DEF Parse, FailsHere, Fails, startVars
<1>2. task.kind \in {"login", "select"} /\ (task.kind = "select" => task.arg \in Supported)
  BY <1>0, CallAtWork
<1>3. step \in Verbs /\ todo \in SUBSET Games /\ listings \in SUBSET Supported
  BY DEF Exchange, WorkerTypeOK, Verbs
<1>4. AtWork /\ AtGame /\ Walked /\ Whole
  BY DEF Exchange
<1>5. CASE pc' = "idle" /\ UNCHANGED <<walkVars, handoff>>
  <2>1. WorkerTypeOK'
    BY <1>1, <1>5 DEF Exchange, WorkerTypeOK, walkVars
  <2>2. WholeGames(listings')
    BY <1>4, <1>5 DEF Whole, walkVars
  <2>3. Whole'
    BY <1>5, <2>2 DEF Whole, Live
  <2> QED
    BY <1>1, <1>4, <1>5, <2>1, <2>3 DEF Parsed, AtWork, AtGame, Walked, Live, Busy
<1>6. CASE Fits(r) /\ step \in DOMAIN AfterStep /\ ToStep(AfterStep[step])
  <2>1. \/ step = "K" /\ AfterStep[step] = "A"
        \/ step = "F" /\ AfterStep[step] = "G"
        \/ step = "G" /\ AfterStep[step] = "P"
        \/ step = "P" /\ AfterStep[step] = "C"
    BY <1>6 DEF AfterStep
  <2>2. step = "F" /\ conn = "up" => serverGame = game
    BY <1>0 DEF Says
  <2> QED
    BY <1>0, <1>1, <1>6, <2>1, <2>2, ToStepParsed
<1>7. CASE Fits(r) /\ step = "A" /\ ToStep("M")
  BY <1>0, <1>1, <1>7, ToStepParsed
<1>8. CASE Fits(r) /\ step = "M" /\ NextGame(r.body, {}) /\ UNCHANGED handoff
  <2>1. task.kind = "login"
    BY <1>0, <1>2, <1>4, <1>8 DEF AtWork
  <2>2. r.body = Games
    BY <1>0, <1>8 DEF Says
  <2>3. {} = Found(Games \ Games)
    BY FoundNone
  <2> QED
    BY <1>0, <1>1, <1>8, <2>1, <2>2, <2>3, WholeGamesNone, NextGameParsed
<1>9. CASE Fits(r) /\ step = "N" /\ ToStep("F")
  <2>1. game \in Storm
    BY <1>0, <1>9 DEF Says
  <2> QED
    BY <1>0, <1>1, <1>9, <2>1, ToStepParsed
<1>10. CASE Fits(r) /\ step = "C" /\ AfterC(r)
  <2>1. CASE task.kind = "select"
    BY <1>0, <1>1, <1>10, <2>1, ToStepParsed DEF AfterC
  <2>2. CASE task.kind # "select"
    <3> DEFINE found == listings \cup {<<game, c>> : c \in r.body}
    <3>1. task.kind = "login" /\ game \in Games
      BY <1>0, <1>2, <1>4, <1>10, <2>2 DEF AtWork
    <3>2. game \in Storm
      BY <1>0, <1>4, <1>10, <3>1 DEF Walked
    <3>3. r.body = Roster[game]
      BY <1>0, <1>10 DEF Says
    <3>4. found \in SUBSET Supported
      BY <1>3, <3>2, <3>3 DEF Supported, CharactersOf
    <3>7. WholeGames(found)
      BY <1>4, <3>2, <3>3, WholeGamesNext DEF Whole
    <3>5. conn = "up" => found = Found(Games \ todo)
      <4> HAVE conn = "up"
      <4>1. game \notin todo /\ listings = Found(Games \ (todo \cup {game}))
        BY <1>0, <1>4, <1>10, <3>1 DEF Whole
      <4> QED
        BY <1>3, <3>1, <3>2, <3>3, <4>1, FoundNext
    <3>6. NextGame(todo, found) /\ UNCHANGED handoff
      BY <1>10, <2>2 DEF AfterC
    <3> HIDE DEF found
    <3> QED
      BY <1>0, <1>1, <1>3, <3>1, <3>4, <3>5, <3>6, <3>7, NextGameParsed
  <2> QED
    BY <2>1, <2>2
<1>11. ASSUME Fits(r), step = "L", pc' = "write", \E h \in r.body : handoff' = h, UNCHANGED walkVars
       PROVE  Parsed'
  <2>1. task.kind = "select"
    BY <1>0, <1>2, <1>4, <1>11 DEF AtWork
  <2>2. handoff' = task.arg /\ task.arg \in Chosen
    BY <1>0, <1>2, <1>11, <2>1, Roles DEF Says
  <2>3. WorkerTypeOK'
    BY <1>1, <1>11, <2>2 DEF Exchange, WorkerTypeOK, walkVars
  <2>4. WholeGames(listings')
    BY <1>4, <1>11 DEF Whole, walkVars
  <2>5. Whole'
    BY <1>11, <2>4 DEF Whole, Live
  <2> QED
    BY <1>1, <1>4, <1>0, <1>11, <2>1, <2>2, <2>3, <2>5 DEF Parsed, AtWork, AtGame, Walked, Live, Busy
<1>12. CASE ~Fits(r) /\ step = "N" /\ SkipGame /\ UNCHANGED handoff
  <2>1. task.kind = "login" /\ game \in Games
    BY <1>0, <1>2, <1>4, <1>12 DEF AtWork
  <2>2. conn = "up" => listings = Found(Games \ todo)
    <3> HAVE conn = "up"
    <3>1. game \notin Storm
      BY <1>0, <1>12 DEF Says
    <3>2. game \notin todo /\ listings = Found(Games \ (todo \cup {game}))
      BY <1>0, <1>4, <1>12, <2>1 DEF Whole
    <3> QED
      BY <1>3, <2>1, <3>1, <3>2, FoundNext
  <2>3. NextGame(todo, listings)
    BY <1>12 DEF SkipGame
  <2> QED
    BY <1>0, <1>1, <1>3, <1>4, <1>12, <2>1, <2>2, <2>3, NextGameParsed DEF Whole
<1>13. \/ pc' = "idle" /\ UNCHANGED <<walkVars, handoff>>
       \/ Fits(r) /\ step \in DOMAIN AfterStep /\ ToStep(AfterStep[step])
       \/ Fits(r) /\ step = "A" /\ ToStep("M")
       \/ Fits(r) /\ step = "M" /\ NextGame(r.body, {}) /\ UNCHANGED handoff
       \/ Fits(r) /\ step = "N" /\ ToStep("F")
       \/ Fits(r) /\ step = "C" /\ AfterC(r)
       \/ Fits(r) /\ step = "L" /\ pc' = "write" /\ (\E h \in r.body : handoff' = h) /\ UNCHANGED walkVars
       \/ ~Fits(r) /\ step = "N" /\ SkipGame /\ UNCHANGED handoff
  BY <1>0 DEF Parse, FailsHere, Fails, startVars
<1> QED
  BY <1>1, <1>5, <1>6, <1>7, <1>8, <1>9, <1>10, <1>11, <1>12, <1>13

LEMMA HearExchange == ASSUME Exchange, Hear \/ HearEof PROVE Exchange'
  BY HearSays, ParseParsed, HeardExchange

-------------------------------------------------------------------------------
(* The two queues between the threads. *)
LEMMA Queued ==
  ASSUME NEW S, NEW q \in Seq(S), NEW x \in S
  PROVE  /\ Append(q, x) \in Seq(S) /\ Append(q, x) # << >>
         /\ Last(Append(q, x)) = x /\ Len(Append(q, x)) = Len(q) + 1
  BY DEF Last

LEMMA Appends == \A S : \A q \in Seq(S) : \A x : Append(q, x) # << >>
<1> SUFFICES ASSUME NEW S, NEW q \in Seq(S), NEW x PROVE Append(q, x) # << >>
  OBVIOUS
<1>1. q \in Seq(S \cup {x}) /\ x \in S \cup {x}
  OBVIOUS
<1> QED
  BY <1>1, Queued

LEMMA Served ==
  ASSUME NEW S, NEW q \in Seq(S), q # << >>
  PROVE  /\ Head(q) \in S /\ Tail(q) \in Seq(S) /\ Len(Tail(q)) < Len(q)
         /\ Tail(q) # << >> => Last(Tail(q)) = Last(q)
         /\ Tail(q) = << >> => Last(q) = Head(q)
<1>1. /\ Len(q) \in Nat \ {0} /\ Len(Tail(q)) = Len(q) - 1
      /\ Head(q) = q[1] /\ Head(q) \in S /\ Tail(q) \in Seq(S)
      /\ \A i \in 1..Len(q) - 1 : Tail(q)[i] = q[i + 1]
  BY HeadTailProperties
<1>2. Tail(q) # << >> => Len(Tail(q)) # 0
  <2>1. Tail(q) # << >> => Len(Tail(q)) \in Nat \ {0}
    BY <1>1, EmptySeq
  <2> QED
    BY <2>1
<1>3. Tail(q) # << >> => Tail(q)[Len(q) - 1] = q[Len(q)]
  BY <1>1, <1>2
<1>4. Tail(q) = << >> => Len(q) = 1
  <2>1. Len(<< >>) = 0
    BY EmptySeq
  <2>2. Tail(q) = << >> => Len(Tail(q)) = 0
    BY <2>1
  <2> QED
    BY <1>1, <2>2
<1> QED
  BY <1>1, <1>3, <1>4 DEF Last

LEMMA SignalIs ==
  ASSUME NEW kind \in SignalKinds, NEW list \in SUBSET Supported, NEW code \in Verbs \cup {"eof", "none"}
  PROVE  /\ Signal(kind, list, code) \in Signals
         /\ Signal(kind, list, code).kind = kind /\ Signal(kind, list, code).list = list
  BY DEF Signal, Signals

\* What a step of the worker puts in the queue of signals: at most one signal,
\* which is the last of its call unless the call goes on.
EmitsOne == \E s \in Signals :
  /\ signals' = Append(signals, s)
  /\ s.kind \in Endings \/ Busy'
  /\ s.kind = "characters" => WholeGames(s.list) /\ (conn = "up" => s.list = Supported)
EmitsNone == UNCHANGED signals /\ (Busy => Busy')

LEMMA EmitsPlain ==
  ASSUME NEW kind \in SignalKinds, NEW code \in Verbs \cup {"eof", "none"},
         signals' = Append(signals, Signal(kind, {}, code)),
         kind \in Endings \/ Busy', kind # "characters"
  PROVE  EmitsOne
<1>1. Signal(kind, {}, code) \in Signals /\ Signal(kind, {}, code).kind = kind
  BY SignalIs
<1> QED
  BY <1>1 DEF EmitsOne

\* The list that ends the walk is made of whole games, and of all of them where
\* the connection stayed up.
LEMMA NextGameEmits ==
  ASSUME NEW games \in SUBSET Games, NEW found \in SUBSET Supported, WholeGames(found),
         conn = "up" => found = Found(Games \ games), NextGame(games, found)
  PROVE  EmitsOne \/ EmitsNone
<1>1. CASE games = {} /\ signals' = Append(signals, Signal("characters", found, "none"))
  <2> DEFINE s == Signal("characters", found, "none")
  <2>1. s \in Signals /\ s.kind = "characters" /\ s.list = found
    BY SignalIs DEF SignalKinds, Endings
  <2>2. conn = "up" => found = Supported
    <3>1. Games \ {} = Games
      OBVIOUS
    <3> QED
      BY <1>1, <3>1, FoundAll
  <2> HIDE DEF s
  <2>3. signals' = Append(signals, s)
    BY <1>1 DEF s
  <2> QED
    BY <2>1, <2>2, <2>3 DEF EmitsOne, Endings
<1>2. CASE pc' = "ask" /\ UNCHANGED signals
  BY <1>2 DEF EmitsNone, Busy
<1> QED
  BY <1>1, <1>2 DEF NextGame, Shows

LEMMA KindsAre == /\ {"authenticated", "handoff", "launched", "error", "auth_failed"} \subseteq SignalKinds
                  /\ {"launched", "error", "auth_failed"} \subseteq Endings
  BY DEF SignalKinds, Endings

LEMMA HeardEmits ==
  ASSUME Exchange, NEW r, Heard(r)
  PROVE  EmitsOne \/ EmitsNone
<1>0. /\ pc = "blocked" /\ Live /\ Says(r) /\ Parse(r) /\ r.verb \in Verbs \cup {"eof"}
  BY DEF Heard, Live, Says
<1>1. task.kind \in {"login", "select"}
  BY <1>0, CallAtWork DEF Busy
<1>2. todo \in SUBSET Games /\ listings \in SUBSET Supported
  BY DEF Exchange, WorkerTypeOK
<1>3. ASSUME NEW next, ToStep(next), UNCHANGED signals PROVE EmitsNone
  BY <1>3 DEF ToStep, EmitsNone, Busy
<1>4. CASE step = "A" /\ ToStep("M") /\ Emits("authenticated")
  BY <1>4, EmitsPlain, KindsAre DEF ToStep, Emits, Busy
<1>5. CASE Fits(r) /\ step = "M" /\ NextGame(r.body, {})
  <2>1. r.body = Games
    BY <1>0, <1>5 DEF Says
  <2>2. {} = Found(Games \ Games)
    BY FoundNone
  <2> QED
    BY <1>5, <2>1, <2>2, WholeGamesNone, NextGameEmits
<1>6. CASE Fits(r) /\ step = "C" /\ AfterC(r)
  <2>1. CASE task.kind = "select"
    BY <1>3, <1>6, <2>1 DEF AfterC
  <2>2. CASE task.kind # "select"
    <3> DEFINE found == listings \cup {<<game, c>> : c \in r.body}
    <3>1. task.kind = "login" /\ game \in Games
      BY <1>0, <1>1, <1>6, <2>2 DEF Exchange, AtWork
    <3>2. game \in Storm
      BY <1>0, <1>6, <3>1 DEF Exchange, Walked
    <3>3. r.body = Roster[game]
      BY <1>0, <1>6 DEF Says
    <3>4. found \in SUBSET Supported
      BY <1>2, <3>2, <3>3 DEF Supported, CharactersOf
    <3>7. WholeGames(found)
      BY <3>2, <3>3, WholeGamesNext DEF Exchange, Whole
    <3>5. conn = "up" => found = Found(Games \ todo)
      <4> HAVE conn = "up"
      <4>1. game \notin todo /\ listings = Found(Games \ (todo \cup {game}))
        BY <1>0, <1>6, <3>1 DEF Exchange, Whole
      <4> QED
        BY <1>2, <3>1, <3>2, <3>3, <4>1, FoundNext
    <3>6. NextGame(todo, found)
      BY <1>6, <2>2 DEF AfterC
    <3> HIDE DEF found
    <3> QED
      BY <1>2, <3>4, <3>5, <3>6, <3>7, NextGameEmits
  <2> QED
    BY <2>1, <2>2
<1>7. CASE step = "L" /\ pc' = "write" /\ Emits("handoff")
  BY <1>7, EmitsPlain, KindsAre DEF Emits, Busy
<1>8. CASE ~Fits(r) /\ step = "N" /\ SkipGame
  <2>1. task.kind = "login" /\ game \in Games
    BY <1>0, <1>1, <1>8 DEF Exchange, AtWork
  <2>2. conn = "up" => listings = Found(Games \ todo)
    <3> HAVE conn = "up"
    <3>1. game \notin Storm
      BY <1>0, <1>8 DEF Says
    <3>2. game \notin todo /\ listings = Found(Games \ (todo \cup {game}))
      BY <1>0, <1>8, <2>1 DEF Exchange, Whole
    <3> QED
      BY <1>2, <2>1, <3>1, <3>2, FoundNext
  <2> QED
    BY <1>2, <1>8, <2>2, NextGameEmits DEF SkipGame, Exchange, Whole
<1>9. CASE FailsHere("auth_failed", r.verb)
  <2>1. signals' = Append(signals, Signal("auth_failed", {}, r.verb))
    BY <1>9 DEF FailsHere, Fails
  <2> QED
    BY <1>0, <2>1, EmitsPlain, KindsAre
<1>10. CASE FailsHere("error", "none")
  <2>1. signals' = Append(signals, Signal("error", {}, "none"))
    BY <1>10 DEF FailsHere, Fails
  <2> QED
    BY <2>1, EmitsPlain, KindsAre
<1> QED
  BY <1>0, <1>3, <1>4, <1>5, <1>6, <1>7, <1>8, <1>9, <1>10 DEF Parse

LEMMA WorkerEmits ==
  ASSUME Exchange, Worker PROVE EmitsOne \/ EmitsNone
<1>1. CASE ServeCall
  <2>1. pc' \in {"connect", "ask"} /\ UNCHANGED signals
    BY <1>1 DEF ServeCall
  <2> QED
    BY <2>1 DEF EmitsNone, Busy
<1>2. CASE Connect \/ Ask \/ Listen \/ WriteSal
  <2>1. pc' \in {"ask", "listen", "blocked", "launch"} /\ UNCHANGED signals
    BY <1>2 DEF Connect, Ask, AwaitReply, Listen, WriteSal
  <2> QED
    BY <2>1 DEF EmitsNone, Busy
<1>3. CASE ConnectRaises \/ AskRaises \/ ListenRaises \/ WriteSalFails \/ LaunchFails
  <2>1. signals' = Append(signals, Signal("error", {}, "none"))
    BY <1>3 DEF ConnectRaises, AskRaises, ListenRaises, WriteSalFails, LaunchFails, FailsHere, Fails
  <2> QED
    BY <2>1, EmitsPlain, KindsAre
<1>4. CASE Hear \/ HearEof
  BY <1>4, HearSays, HeardEmits
<1>5. CASE Launch
  <2>1. signals' = Append(signals, Signal("launched", {}, "none"))
    BY <1>5 DEF Launch, Emits
  <2> QED
    BY <2>1, EmitsPlain, KindsAre
<1>6. CASE Close
  BY <1>6 DEF Close, EmitsNone, Busy
<1> QED
  BY <1>1, <1>2, <1>3, <1>4, <1>5, <1>6 DEF Worker

-------------------------------------------------------------------------------
(* The whole invariant, actor by actor. *)
LEMMA InitInv == ASSUME Init PROVE Inv
<1> USE DEF Init, EasInit, WorkerInit
<1>1. /\ Len(<< >>) = 0 /\ << >> \in Seq(Calls) /\ << >> \in Seq(Signals)
  BY EmptySeq
<1>2. loginEnabled \in BOOLEAN /\ launchEnabled \in BOOLEAN /\ remember \in BOOLEAN
  BY Zenon
<1>3. EasTypeOK /\ WorkerTypeOK
  BY <1>1 DEF EasTypeOK, WorkerTypeOK, NoCall
<1>4. OneLine /\ AtWork /\ AtGame /\ Walked /\ Whole /\ Spent /\ LaunchedAsAsked
  BY WholeGamesNone DEF OneLine, AtWork, AtGame, Walked, Whole, Spent, LaunchedAsAsked, Busy, Live, NoCall
<1>5. Synced /\ Answered
  BY DEF Synced, Answered, Live, Waiting
<1>6. WindowTypeOK
  BY <1>1, <1>2 DEF WindowTypeOK
<1>7. Ended /\ Hope /\ KilledAtExit
  <2>1. loginEnabled
    BY Zenon
  <2> QED
    BY <2>1 DEF Ended, Hope, KilledAtExit
<1> QED
  BY <1>3, <1>4, <1>5, <1>6, <1>7 DEF Inv, Exchange

LEMMA WorkerExchange ==
  ASSUME Exchange, calls \in Seq(Calls), Worker PROVE Exchange'
  BY ServeCallExchange, ConnectExchange, ConnectRaisesExchange, AskExchange, ListenExchange,
     RaisesExchange, HearExchange, WriteSalExchange, LaunchExchange, CloseExchange DEF Worker

\* The worker takes calls from its queue and ends nowhere but in its loop.
LEMMA WorkerStays ==
  ASSUME Worker
  PROVE  /\ pc # "killed" /\ pc' # "killed"
         /\ calls' = calls \/ (calls # << >> /\ calls' = Tail(calls) /\ Busy')
<1>1. CASE ServeCall
  BY <1>1 DEF ServeCall, Busy
<1>2. CASE Hear \/ HearEof
  <2>1. pc = "blocked"
    BY <1>2 DEF Hear, HearEof
  <2>2. PICK r : Parse(r)
    BY <1>2 DEF Hear, HearEof
  <2>3. UNCHANGED calls
    BY <2>2 DEF Parse, FailsHere, Fails
  <2>4. pc' \in {"idle", "ask", "write"}
    BY <2>2 DEF Parse, ToStep, AfterC, NextGame, SkipGame, FailsHere, Fails
  <2> QED
    BY <2>1, <2>3, <2>4
<1>3. CASE Close
  BY <1>3 DEF Close, CloseChecks
<1>4. CASE ~(ServeCall \/ Hear \/ HearEof \/ Close)
  BY <1>4 DEF Worker, Connect, ConnectRaises, Ask, AskRaises, Listen, ListenRaises, WriteSal,
              WriteSalFails, Launch, LaunchFails, CloseFrontEnd, AwaitReply, FailsHere, Fails
<1> QED
  BY <1>1, <1>2, <1>3, <1>4

LEMMA WorkerInv == ASSUME Inv, Worker, UNCHANGED windowVars PROVE Inv'
<1> USE DEF windowVars, fieldVars, listVars, savedVars
<1>0. calls \in Seq(Calls) /\ signals \in Seq(Signals)
  BY DEF Inv, WindowTypeOK
<1>1. Exchange'
  BY <1>0, WorkerExchange DEF Inv
<1>2. EmitsOne \/ EmitsNone
  BY WorkerEmits DEF Inv
<1>3. signals' \in Seq(Signals) /\ (EmitsOne => signals' # << >>)
  BY <1>0, <1>2, Queued DEF EmitsOne, EmitsNone
<1>4. calls' \in Seq(Calls)
  BY <1>0, WorkerStays, Served
<1>5. WindowTypeOK'
  BY <1>3, <1>4 DEF Inv, WindowTypeOK
<1>6. Ended'
  <2>1. CASE EmitsOne
    <3> PICK s \in Signals : signals' = Append(signals, s) /\ (s.kind \in Endings \/ Busy')
      BY <2>1 DEF EmitsOne
    <3>1. Last(signals') = s
      BY <1>0, Queued
    <3> QED
      BY <3>1 DEF Ended
  <2>2. CASE EmitsNone
    BY <2>2, WorkerStays DEF Inv, Ended, EmitsNone
  <2> QED
    BY <1>2, <2>1, <2>2
<1>7. Hope'
  <2>1. Busy' \/ signals' # << >> \/ (UNCHANGED signals /\ ~Busy)
    BY <1>2, <1>3 DEF EmitsNone
  <2>2. calls' # << >> \/ calls = << >> \/ Busy'
    BY WorkerStays
  <2> QED
    BY <2>1, <2>2 DEF Inv, Hope
<1>8. KilledAtExit'
  BY WorkerStays DEF KilledAtExit
<1> QED
  BY <1>1, <1>5, <1>6, <1>7, <1>8 DEF Inv

LEMMA ThreadFinishesInv == ASSUME Inv, ThreadFinishes PROVE Inv'
<1> USE DEF windowVars, fieldVars, listVars, savedVars
<1>0. /\ pc = "idle" /\ pc' = "finished"
      /\ UNCHANGED <<easVars, task, calls, walkVars, signals, startVars, windowVars>>
  BY DEF ThreadFinishes
<1>1. Exchange'
  BY <1>0, ThreadEnds DEF Inv
<1>2. WindowTypeOK'
  BY <1>0 DEF Inv, WindowTypeOK
<1>3. Ended' /\ Hope' /\ KilledAtExit'
  BY <1>0 DEF Inv, Ended, Hope, KilledAtExit, Busy
<1> QED
  BY <1>1, <1>2, <1>3 DEF Inv

LEMMA EnvironmentInv == ASSUME Inv, Environment PROVE Inv'
<1> USE DEF windowVars, fieldVars, listVars, savedVars
<1>1. Exchange'
  BY ServerAnswersExchange, ServerHangsUpExchange DEF Inv, Environment, EasServer
<1>2. WindowTypeOK' /\ Ended' /\ Hope' /\ KilledAtExit'
  BY DEF Inv, Environment, workerVars, WindowTypeOK, Ended, Hope, KilledAtExit, Busy
<1> QED
  BY <1>1, <1>2 DEF Inv

-------------------------------------------------------------------------------
(* The player. *)
LEMMA UserInv == ASSUME Inv, User PROVE Inv'
<1> USE DEF windowVars, fieldVars, listVars, savedVars
<1>0. /\ UNCHANGED <<exchangeVars, signals>>
      /\ calls' \in Seq(Calls) /\ (calls' = calls \/ calls' # << >>)
  <2>1. CASE EditsFields \/ OnSelectionChanged \/ UserCloses
    BY <2>1 DEF EditsFields, OnSelectionChanged, UserCloses, StartsClosing, workerVars, exchangeVars,
                Inv, WindowTypeOK
  <2>2. CASE OnLoginClicked
    <3>1. LoginCall(entered) \in Calls
      BY DEF Inv, WindowTypeOK, LoginCall, Calls
    <3> QED
      BY <2>2, <3>1, Queued DEF OnLoginClicked, QueueCall, exchangeVars, Inv, WindowTypeOK
  <2>3. CASE OnLaunchClicked
    <3>1. selected \in Supported
      BY <2>3 DEF OnLaunchClicked, Inv, WindowTypeOK
    <3>2. SelectCall(selected) \in Calls
      BY <3>1 DEF SelectCall, Calls
    <3> QED
      BY <2>3, <3>2, Queued DEF OnLaunchClicked, QueueCall, exchangeVars, Inv, WindowTypeOK
  <2> QED
    BY <2>1, <2>2, <2>3 DEF User
<1>1. Exchange'
  BY <1>0, ExchangeUnchanged DEF Inv
<1>2. WindowTypeOK'
  <2>0. signals' \in Seq(Signals)
    BY <1>0 DEF Inv, WindowTypeOK
  <2>1. CASE EditsFields
    BY <2>1, <1>0, <2>0 DEF EditsFields, Inv, WindowTypeOK
  <2>2. CASE OnLoginClicked
    <3>1. loginEnabled' \in BOOLEAN /\ launchEnabled' \in BOOLEAN
      BY <2>2, Zenon DEF OnLoginClicked, ClearList
    <3> QED
      BY <2>2, <1>0, <2>0, <3>1 DEF OnLoginClicked, ClearList, QueueCall, Inv, WindowTypeOK
  <2>3. CASE OnSelectionChanged
    <3>1. launchEnabled' \in BOOLEAN
      BY <2>3, Zenon DEF OnSelectionChanged
    <3> QED
      BY <2>3, <1>0, <2>0, <3>1 DEF OnSelectionChanged, Inv, WindowTypeOK
  <2>4. CASE OnLaunchClicked
    <3>1. launchEnabled' \in BOOLEAN
      BY <2>4, Zenon DEF OnLaunchClicked
    <3> QED
      BY <2>4, <1>0, <2>0, <3>1 DEF OnLaunchClicked, QueueCall, Inv, WindowTypeOK
  <2>5. CASE UserCloses
    BY <2>5, <1>0, <2>0 DEF UserCloses, StartsClosing, Inv, WindowTypeOK
  <2> QED
    BY <2>1, <2>2, <2>3, <2>4, <2>5 DEF User
<1>3. pc' = pc /\ window = "open" /\ window' \in {"open", "close"}
  BY <1>0 DEF exchangeVars, User, EditsFields, OnLoginClicked, OnSelectionChanged, OnLaunchClicked,
              UserCloses, StartsClosing, QueueCall
<1>4. Ended' /\ KilledAtExit'
  BY <1>0, <1>3 DEF Inv, Ended, KilledAtExit, Busy
<1>5. Hope'
  <2>1. CASE calls' # << >>
    BY <2>1 DEF Hope
  <2>2. CASE calls' = calls /\ (EditsFields \/ OnSelectionChanged \/ UserCloses)
    BY <2>2, <1>0, <1>3 DEF EditsFields, OnSelectionChanged, UserCloses, StartsClosing, Inv, Hope, Busy
  <2>3. CASE OnLoginClicked \/ OnLaunchClicked
    <3>1. calls' # << >>
      BY <2>3, Appends DEF OnLoginClicked, OnLaunchClicked, QueueCall, Inv, WindowTypeOK
    <3> QED
      BY <3>1 DEF Hope
  <2> QED
    BY <1>0, <2>1, <2>2, <2>3 DEF User
<1> QED
  BY <1>1, <1>2, <1>4, <1>5 DEF Inv

-------------------------------------------------------------------------------
(* The GUI thread. *)

\* A delivered signal that ends no call leaves the call at work, or the signal
\* it ends in behind it.
LEMMA DeliveredInv ==
  ASSUME Inv, NEW kind, Delivers(kind)
  PROVE  /\ Exchange' /\ Ended' /\ signals' \in Seq(Signals) /\ Len(signals') < Len(signals)
         /\ Head(signals) \in Signals
         /\ UNCHANGED <<pc, calls>> /\ pc # "killed" /\ (Busy <=> Busy')
         /\ kind \notin Endings => Busy' \/ signals' # << >>
<1>0. /\ window \in {"open", "closed"} /\ signals # << >> /\ Head(signals).kind = kind
      /\ signals' = Tail(signals) /\ UNCHANGED <<easVars, pc, task, calls, walkVars, startVars>>
  BY DEF Delivers
<1>1. signals \in Seq(Signals)
  BY DEF Inv, WindowTypeOK
<1>2. /\ signals' \in Seq(Signals) /\ Head(signals) \in Signals /\ Len(signals') < Len(signals)
      /\ signals' # << >> => Last(signals') = Last(signals)
      /\ signals' = << >> => Last(signals) = Head(signals)
  BY <1>0, <1>1, Served
<1>3. Exchange'
  BY <1>0, ExchangeUnchanged DEF Inv, exchangeVars
<1>4. pc # "killed"
  BY <1>0 DEF Inv, KilledAtExit
<1>5. UNCHANGED <<pc, calls>> /\ (Busy <=> Busy')
  BY <1>0 DEF Busy
<1>6. Ended'
  BY <1>0, <1>2, <1>5 DEF Inv, Ended
<1>7. kind \notin Endings => Busy' \/ signals' # << >>
  BY <1>0, <1>2, <1>4, <1>5 DEF Inv, Ended
<1> QED
  BY <1>2, <1>3, <1>4, <1>5, <1>6, <1>7

Slots == OnAuthenticated \/ OnAuthFailed \/ OnCharactersReady \/ OnHandoffReady \/ OnLaunched \/ OnError

LEMMA SlotsInv == ASSUME Inv, Slots PROVE Inv' /\ Len(signals') < Len(signals)
<1> USE DEF fieldVars, listVars, savedVars
<1>0. PICK kind : /\ Delivers(kind)
                  /\ OnAuthenticated => kind = "authenticated"
                  /\ OnHandoffReady => kind = "handoff"
  BY DEF Slots, OnAuthenticated, OnAuthFailed, OnCharactersReady, OnHandoffReady, OnLaunched,
         OnError, Delivers
<1>1. /\ Exchange' /\ Ended' /\ signals' \in Seq(Signals) /\ Len(signals') < Len(signals)
      /\ Head(signals) \in Signals
      /\ UNCHANGED <<pc, calls>> /\ pc # "killed"
      /\ kind \notin Endings => Busy' \/ signals' # << >>
  BY <1>0, DeliveredInv
<1>2. calls' \in Seq(Calls)
  BY <1>1 DEF Inv, WindowTypeOK
<1>3. WindowTypeOK'
  <2>1. CASE OnAuthenticated
    <3>1. keyring' \subseteq Credentials
      BY <2>1 DEF OnAuthenticated, Keyring, Inv, WindowTypeOK
    <3> QED
      BY <1>1, <1>2, <2>1, <3>1 DEF OnAuthenticated, Inv, WindowTypeOK
  <2>2. CASE OnAuthFailed
    <3>1. loginEnabled' \in BOOLEAN
      BY <2>2, Zenon DEF OnAuthFailed
    <3> QED
      BY <1>1, <1>2, <2>2, <3>1 DEF OnAuthFailed, Inv, WindowTypeOK
  <2>3. CASE OnCharactersReady
    <3>1. launchEnabled' \in BOOLEAN
      BY <2>3, Zenon DEF OnCharactersReady
    <3>2. offered' \subseteq Supported
      BY <1>1, <2>3 DEF OnCharactersReady, Signals
    <3> QED
      BY <1>1, <1>2, <2>3, <3>1, <3>2 DEF OnCharactersReady, Inv, WindowTypeOK
  <2>4. CASE OnHandoffReady
    <3>1. lastChar' \in Chosen \cup {None}
      BY <2>4, Roles DEF OnHandoffReady, Inv, WindowTypeOK
    <3> QED
      BY <1>1, <1>2, <2>4, <3>1 DEF OnHandoffReady, Inv, WindowTypeOK
  <2>5. CASE OnLaunched
    BY <1>1, <1>2, <2>5 DEF OnLaunched, StartsClosing, Inv, WindowTypeOK
  <2>6. CASE OnError
    <3>1. loginEnabled' \in BOOLEAN /\ launchEnabled' \in BOOLEAN
      BY <2>6, Zenon DEF OnError, EnableControls
    <3> QED
      BY <1>1, <1>2, <2>6, <3>1 DEF OnError, Inv, WindowTypeOK
  <2> QED
    BY <2>1, <2>2, <2>3, <2>4, <2>5, <2>6 DEF Slots
<1>4. Hope'
  <2>1. CASE OnAuthenticated \/ OnHandoffReady
    <3>1. kind \notin Endings
      BY <1>0, <2>1 DEF Endings
    <3> QED
      BY <1>1, <3>1 DEF Hope
  <2>2. CASE OnAuthFailed \/ OnError
    <3>1. loginEnabled'
      BY <2>2, Zenon DEF OnAuthFailed, OnError, EnableControls
    <3> QED
      BY <3>1 DEF Hope
  <2>3. CASE OnCharactersReady
    BY <2>3 DEF OnCharactersReady, Hope
  <2>4. CASE OnLaunched
    BY <2>4 DEF OnLaunched, StartsClosing, Hope
  <2> QED
    BY <2>1, <2>2, <2>3, <2>4 DEF Slots
<1>5. KilledAtExit'
  BY <1>1 DEF KilledAtExit
<1> QED
  BY <1>1, <1>3, <1>4, <1>5 DEF Inv

\* closeEvent and the end of the process.
LEMMA ClosingInv ==
  ASSUME Inv, WorkerClose \/ Quit \/ WaitReturns \/ AppExits PROVE Inv' /\ UNCHANGED signals
<1> USE DEF workerVars, fieldVars, listVars, savedVars
<1>0. /\ UNCHANGED <<conn, requests, replies, serverGame, task, walkVars, startVars, calls, signals,
                     fieldVars, loginEnabled, listVars, savedVars>>
      /\ sock' \in {sock, "closed", "none"}
      /\ window' \in {"quit", "closeUse", "closeSet", "join", "closed", "exited"} /\ window # "exited"
      /\ \/ pc' = pc
         \/ sock' = sock /\ pc # "finished" /\ pc' = "killed" /\ window' = "exited"
  BY DEF WorkerClose, Quit, WaitReturns, AppExits, Closing, CloseChecks, CloseUses, CloseRaises,
            CloseSets, easVars
<1>1. Exchange'
  <2>1. CASE pc' = pc
    BY <1>0, <2>1, Sinks DEF Inv
  <2>2. CASE sock' = sock /\ pc' = "killed"
    <3>1. UNCHANGED <<easVars, task, walkVars, startVars>>
      BY <1>0, <2>2 DEF easVars
    <3> QED
      BY <2>2, <3>1, ThreadEnds DEF Inv
  <2> QED
    BY <1>0, <2>1, <2>2
<1>2. WindowTypeOK'
  BY <1>0 DEF Inv, WindowTypeOK
<1>3. Ended' /\ Hope' /\ KilledAtExit'
  BY <1>0 DEF Inv, Ended, Hope, KilledAtExit, Busy
<1> QED
  BY <1>0, <1>1, <1>2, <1>3 DEF Inv

LEMMA GuiInv == ASSUME Inv, Gui PROVE Inv'
  BY SlotsInv, ClosingInv DEF Gui, Slots

LEMMA StepInv == ASSUME Inv, [Next]_vars PROVE Inv'
<1>1. CASE Worker /\ UNCHANGED windowVars
  BY <1>1, WorkerInv
<1>2. CASE UNCHANGED vars
  <2> USE <1>2 DEF vars, workerVars, windowVars, fieldVars, listVars, savedVars
  <2>1. Exchange'
    BY ExchangeUnchanged DEF Inv, exchangeVars
  <2> QED
    BY <2>1 DEF Inv, WindowTypeOK, Ended, Hope, KilledAtExit, Busy
<1> QED
  BY <1>1, <1>2, ThreadFinishesInv, GuiInv, UserInv, EnvironmentInv DEF Next, Thread, Exited

-------------------------------------------------------------------------------
(* The theorems. *)

\* The exchange, the queues and the window stay in step, whatever the server,
\* the player and the two threads do.
THEOREM Invariance == Spec => []Inv
<1>1. Init => Inv
  BY InitInv
<1>2. Inv /\ [Next]_vars => Inv'
  BY StepInv
<1> QED
  BY <1>1, <1>2, PTL DEF Spec

\* Every variable of a login has its type: in particular one line or reply at
\* most is on its way, and the selection is one of the characters in the list.
THEOREM TypeCorrect == Spec => []TypeOK
<1>1. Inv => TypeOK
  BY DEF Inv, Exchange, WindowTypeOK, TypeOK
<1> QED
  BY <1>1, Invariance, PTL

\* recv_packet() is called once for each line: what it returns answers the line
\* of this step, and the next line goes out with nothing left on its way.
THEOREM RepliesAreInStep == Spec => []RepliesInStep
<1>1. Inv => RepliesInStep
  <2> SUFFICES ASSUME Inv, sock = "open", conn = "up" PROVE RepliesInStep
    BY DEF RepliesInStep
  <2>1. CASE pc = "blocked"
    <3>1. replies = << >> \/ (replies = <<Head(replies)>> /\ Head(replies).verb = step)
      BY <2>1 DEF Inv, Exchange, OneLine, Answered, Live, Waiting
    <3>2. \A r \in Range(replies) : r.verb = step
      BY <3>1 DEF Range
    <3> QED
      BY <2>1, <3>2 DEF RepliesInStep
  <2>2. CASE pc # "blocked"
    BY <2>2 DEF Inv, Exchange, Synced, Waiting, RepliesInStep
  <2> QED
    BY <2>1, <2>2
<1> QED
  BY <1>1, Invariance, PTL

\* Every front-end is started for the character of the call that asked for it,
\* at the game that call named (EASClient.select_character).
THEOREM LaunchesAreAsAsked == Spec => []LaunchedAsAsked
<1>1. Inv => LaunchedAsAsked
  BY DEF Inv, Exchange
<1> QED
  BY <1>1, Invariance, PTL

\* One session of the server starts at most one front-end.
THEOREM OneFrontEnd == Spec => []OneFrontEndPerSession
<1>1. Inv => OneFrontEndPerSession
  <2>1. ASSUME Inv PROVE startedHere = 0 \/ startedHere = 1
    BY <2>1 DEF Inv, Exchange, Spent
  <2> QED
    BY <2>1 DEF OneFrontEndPerSession
<1> QED
  BY <1>1, Invariance, PTL

\* No order of clicks, answers and failures leaves the player in an open window
\* with nothing to come and nothing to do, unless an empty list does: where no
\* character is shown, for whatever reason, only the close button is left.
THEOREM PlayersCanGoOn == Spec => []Settled
<1>1. Inv => Settled
  BY DEF Inv, Hope, Settled, Busy
<1> QED
  BY <1>1, Invariance, PTL

\* The list of a login is made of supported games, all the characters of each,
\* for any set of games walked in any order and with any of them refused; where
\* the connection is still up, none of these games is missing (enumerate_all).
THEOREM ListsAreWhole == Spec => ListIsWhole
<1> DEFINE Step == Len(signals') > Len(signals) /\ Last(signals').kind = "characters"
                   => \E games \in SUBSET Storm : /\ Last(signals').list = CharactersOf(games)
                                                  /\ conn = "up" => games = Storm
<1>1. Inv /\ Next => Step
  <2> SUFFICES ASSUME Inv, Next, Len(signals') > Len(signals), Last(signals').kind = "characters"
               PROVE  \E games \in SUBSET Storm : /\ Last(signals').list = CharactersOf(games)
                                                  /\ conn = "up" => games = Storm
    OBVIOUS
  <2>1. signals \in Seq(Signals) /\ Len(signals) \in Nat
    BY LenProperties DEF Inv, WindowTypeOK
  <2>2. signals' # signals /\ ~(Len(signals') < Len(signals))
    BY <2>1
  <2>3. Worker
    <3>1. ~Gui
      BY <2>2, SlotsInv, ClosingInv DEF Gui, Slots
    <3>2. ~User
      BY <2>2 DEF User, EditsFields, OnLoginClicked, OnSelectionChanged, OnLaunchClicked,
                  UserCloses, QueueCall, workerVars
    <3> QED
      BY <2>2, <3>1, <3>2 DEF Next, Thread, ThreadFinishes, Environment, Exited, vars, workerVars
  <2>4. EmitsOne
    BY <2>2, <2>3, WorkerEmits DEF EmitsNone, Inv
  <2>5. PICK s \in Signals : /\ signals' = Append(signals, s)
                             /\ s.kind = "characters"
                                  => WholeGames(s.list) /\ (conn = "up" => s.list = Supported)
    BY <2>4 DEF EmitsOne
  <2>6. Last(signals') = s
    BY <2>1, <2>5, Queued
  <2>7. WholeGames(s.list) /\ (conn = "up" => s.list = CharactersOf(Storm))
    BY <2>5, <2>6 DEF Supported
  <2>8. CASE conn = "up"
    BY <2>6, <2>7, <2>8
  <2>9. CASE conn # "up"
    BY <2>6, <2>7, <2>9 DEF WholeGames
  <2> QED
    BY <2>8, <2>9
<1>2. UNCHANGED vars => UNCHANGED signals
  BY DEF vars, workerVars
<1>3. Inv /\ [Next]_vars => [Step]_vars
  BY <1>1
<1>4. Spec => [][Step]_vars
  BY <1>3, Invariance, PTL DEF Spec
<1> QED
  BY <1>4 DEF ListIsWhole
===============================================================================
