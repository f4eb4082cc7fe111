------------------------- MODULE ClientSessionProofs --------------------------
(***************************************************************************)
(* Theorems about the course of a session of ClientWindow, for every value *)
(* of the constants: the order of the handshake, the pacing of commands    *)
(* and the time the window waits for the worker.                           *)
(***************************************************************************)
EXTENDS ClientWindowProofs

USE TimesAssumption, WindowAssumption

-------------------------------------------------------------------------------
(* The invariant. *)
\* The time since the last command is known to the worker, and it waited for it.
Pacer == /\ wireGap = sinceSend
         /\ pc = "send" => sinceSend = MinInterval

\* The ticks the worker needs at most to finish once it was told to stop.
Sends(n) == n * (MinInterval + PollTimeout)
Cost == CASE pc = "recv" -> timer + Sends(Len(outgoing))
          [] pc = "drain" -> Sends(Len(outgoing))
          [] pc = "pace" -> MinInterval - sinceSend + PollTimeout + Sends(Len(outgoing))
          [] pc = "send" -> timer + Sends(Len(outgoing))
          [] OTHER -> 0
InTime == backlog # Unknown /\ FitsInJoin(backlog)
Join == /\ window # "open" => stopRequested /\ quitRequested
        /\ window = "closing" /\ InTime => connected /\ joinLeft > Cost
        /\ window \in {"closed", "exited"} /\ InTime => pc = "finished"

\* While the server has not hung up, where each side is in the handshake.
CmdLine == {"cmd"} \X Nat
CmdLines == /\ typed \in Seq(CmdLine) /\ outgoing \in Seq(CmdLine) /\ inHand \in Seq(CmdLine)
Welcome == ModeTag \o SettingsInfo
Blank == pc \in {"connect", "sendKey", "sendIdent", "readSettings"} => handshake = << >>
Asked == pc = "sendIdent" => \/ phase = "key" /\ outbound = <<Key>>
                             \/ phase = "ident" /\ outbound = << >>
Greeted == pc = "readSettings" =>
             \/ phase = "key" /\ outbound = <<Key, Ident>>
             \/ phase = "ident" /\ outbound = <<Ident>>
             \/ phase \in {"greeting", "settings", "ready1"} /\ outbound = << >>
Welcomed == pc = "sendC1" => phase = "ready1" /\ outbound = << >> /\ handshake = Welcome
Answered == pc = "readMode" => /\ handshake = Welcome
                               /\ \/ phase = "ready1" /\ outbound = <<Ready>>
                                  \/ phase \in {"mode2", "ready2"} /\ outbound = << >>
Moded == pc = "sendC2" => phase = "ready2" /\ outbound = << >>
Playing == pc \in Loop \cup {"handshaken", "finally"} =>
             \/ phase = "game" /\ outbound \in Seq(CmdLine)
             \/ /\ phase = "ready2" /\ outbound # << >> /\ Head(outbound) = Ready
                /\ Tail(outbound) \in Seq(CmdLine)
ServedBy == /\ phase \in {"key", "ident", "greeting"} => served = << >>
            /\ phase = "settings" => served = ModeTag
            /\ phase \in {"ready1", "mode2"} => served = Welcome
            /\ phase = "ready2" => served = Welcome \o ModeTag
Shaking == /\ peer = "open" /\ pc \in {"connect", "sendKey"} => phase = "key" /\ outbound = << >>
           /\ pc \in {"connect"} \cup Over => ~sock
           /\ Blank
           /\ peer = "open" => ServedBy
           /\ peer = "open" /\ sock =>
                Asked /\ Greeted /\ Welcomed /\ Answered /\ Moded /\ Playing

-------------------------------------------------------------------------------
(* Pacing. *)
LEMMA PacerStep == ASSUME TypeOK, Pacer, [Next]_vars PROVE Pacer'
<1>0. sinceSend \in 0..MinInterval
  BY DEF TypeOK, WorkerTypeOK
<1>1. CASE Pace
  BY <1>1 DEF Pace, queueVars, Pacer
<1>2. CASE Send
  BY <1>2 DEF Send, Stamp, Goto, Pacer
<1>3. CASE Tick
  BY <1>0, <1>3 DEF Tick, Capped, Pacer
<1>4. CASE UNCHANGED <<sinceSend, wireGap>> /\ (pc' # "send" \/ pc' = pc)
  BY <1>4 DEF Pacer
<1>5. CASE Connect \/ SendHandshake \/ ReadHandshake \/ HandshakeEof
  <2>1. UNCHANGED <<sinceSend, wireGap>>
    BY <1>5 DEF Connect, SendHandshake, ReadHandshake, HandshakeEof, queueVars
  <2>2. pc' \in {"sendKey", "handshaken"} \cup HandshakePositions
    BY <1>5, HandshakeOrder DEF Connect, SendHandshake, ReadHandshake, HandshakeEof, Goto,
       HandshakePositions
  <2> QED
    BY <1>4, <2>1, <2>2, HandshakeOrder
<1>6. CASE EnterGame \/ CheckStop \/ Receive \/ ReceiveTimesOut \/ ReceiveEof \/ DrainDone
           \/ TakeCommand \/ Raise \/ Finally
  <2>1. UNCHANGED <<sinceSend, wireGap>> /\ pc' # "send"
    BY <1>6 DEF EnterGame, CheckStop, Receive, ReceiveTimesOut, ReceiveEof, ReceivesNothing,
       DrainDone, TakeCommand, Raise, Finally, Goto, queueVars
  <2> QED
    BY <1>4, <2>1
<1>7. CASE ThreadFinishes \/ Gui \/ Environment \/ User \/ UNCHANGED vars
  <2>1. UNCHANGED <<sinceSend, wireGap>>
    BY <1>7 DEF ThreadFinishes, Gui, OnData, OnError, OnConnectionClosed, CloseEvent,
       CloseEventReturns, AppExits, Environment, User, OnReturnPressed, UserCloses, vars,
       workerVars, queueVars
  <2>2. pc' = pc \/ pc' # "send"
    BY <1>7 DEF ThreadFinishes, Gui, OnData, OnError, OnConnectionClosed, CloseEvent,
       CloseEventReturns, AppExits, Environment, User, OnReturnPressed, UserCloses, vars,
       workerVars, Goto
  <2> QED
    BY <1>4, <2>1, <2>2
<1> QED
  BY <1>1, <1>2, <1>3, <1>5, <1>6, <1>7 DEF Next, Thread, Start, Exited

LEMMA PacingStep == ASSUME Pacer, [Next]_vars, sent' # sent PROVE wireGap = MinInterval
<1>1. Send
  BY CommandSteps DEF OnReturnPressed, TakeCommand
<1> QED
  BY <1>1 DEF Send, Pacer

-------------------------------------------------------------------------------
(* The time to finish. *)
LEMMA SendsTime ==
  /\ \A n \in Nat : Sends(n) \in Nat /\ Sends(n + 1) = Sends(n) + (MinInterval + PollTimeout)
  /\ \A m, n \in Nat : m <= n => Sends(m) <= Sends(n)
<1> DEFINE c == MinInterval + PollTimeout
<1>1. c \in Nat
  OBVIOUS
<1>2. \A n : Sends(n) = n * c
  BY DEF Sends
<1> HIDE DEF c
<1>3. \A n \in Nat : n * c \in Nat /\ (n + 1) * c = n * c + c
  BY <1>1
<1>4. \A m, n \in Nat : m <= n => m * c <= n * c
  <2> SUFFICES ASSUME NEW m \in Nat, NEW n \in Nat, m <= n PROVE m * c <= n * c
    OBVIOUS
  <2>1. n - m \in Nat /\ (n - m) * c \in Nat  BY <1>1
  <2>2. n * c = m * c + (n - m) * c  BY <1>1
  <2> QED  BY <1>1, <2>1, <2>2
<1> QED
  BY <1>2, <1>3, <1>4 DEF c

LEMMA CostTypes ==
  ASSUME TypeOK
  PROVE  /\ timer \in 0..PollTimeout /\ sinceSend \in 0..MinInterval /\ joinLeft \in 0..JoinTimeout
         /\ Len(outgoing) \in Nat /\ Len(inHand) \in Nat
         /\ Sends(Len(outgoing)) \in Nat /\ Cost \in Nat
<1>1. /\ timer \in 0..PollTimeout /\ sinceSend \in 0..MinInterval /\ joinLeft \in 0..JoinTimeout
      /\ Len(outgoing) \in Nat /\ Len(inHand) \in Nat
  BY LenProperties DEF TypeOK, WorkerTypeOK, WindowTypeOK
<1>2. Sends(Len(outgoing)) \in Nat
  BY <1>1, SendsTime
<1> HIDE DEF Sends
<1>3. Cost \in Nat
  BY <1>1, <1>2 DEF Cost
<1> QED
  BY <1>1, <1>2, <1>3

LEMMA NextCost == ASSUME TypeOK' PROVE Cost' \in Nat
<1>1. timer' \in 0..PollTimeout /\ sinceSend' \in 0..MinInterval /\ Len(outgoing') \in Nat
  BY LenProperties DEF TypeOK, WorkerTypeOK
<1>2. Sends(Len(outgoing')) \in Nat
  BY <1>1, SendsTime
<1> HIDE DEF Sends
<1> QED
  BY <1>1, <1>2 DEF Cost

\* What is left to do fits the commands counted when the window is closed.
LEMMA CostAtClose ==
  ASSUME TypeOK, InHandOK, FitsInJoin(Len(inHand) + Len(outgoing)) PROVE JoinTimeout > Cost
<1> DEFINE n == Len(outgoing)
           all == Len(inHand) + Len(outgoing)
<1>1. n \in Nat /\ all \in Nat /\ n <= all
  BY CostTypes
<1>2. Sends(n) \in Nat /\ Sends(all) \in Nat /\ Sends(n) <= Sends(all)
  BY <1>1, SendsTime
<1>3. PollTimeout + Sends(all) < JoinTimeout
  BY DEF FitsInJoin, Sends
<1>4. pc = "pace" => MinInterval + PollTimeout + Sends(n) <= Sends(all)
  <2> SUFFICES ASSUME pc = "pace" PROVE MinInterval + PollTimeout + Sends(n) <= Sends(all)
    OBVIOUS
  <2>1. inHand # << >> /\ inHand \in Seq(Atom)
    BY DEF InHandOK, TypeOK, WorkerTypeOK
  <2>2. Len(inHand) >= 1
    BY <2>1, EmptySeq, LenProperties
  <2>3. n + 1 \in Nat /\ n + 1 <= all
    BY <1>1, <2>2, CostTypes
  <2>4. Sends(n + 1) <= Sends(all) /\ Sends(n + 1) = Sends(n) + (MinInterval + PollTimeout)
    BY <1>1, <2>3, SendsTime
  <2> QED
    BY <1>2, <2>4
<1>5. timer \in 0..PollTimeout /\ sinceSend \in 0..MinInterval /\ PollTimeout \in Nat
  BY CostTypes
<1> DEFINE some == Sends(n)
           total == Sends(all)
<1>6. Cost \in {0, some, timer + some, MinInterval - sinceSend + PollTimeout + some}
      /\ (pc # "pace" => Cost \in {0, some, timer + some})
  BY DEF Cost
<1> HIDE DEF some, total
<1>7. CASE pc = "pace"
  <2>1. Cost = MinInterval - sinceSend + PollTimeout + some
    BY <1>7 DEF Cost, some
  <2>2. MinInterval + PollTimeout + some <= total /\ some \in Nat /\ total \in Nat
        /\ PollTimeout + total < JoinTimeout
    BY <1>2, <1>3, <1>4, <1>7 DEF some, total
  <2> QED
    BY <1>5, <2>1, <2>2
<1>8. CASE pc # "pace"
  <2>2. some <= total /\ some \in Nat /\ total \in Nat /\ PollTimeout + total < JoinTimeout
    BY <1>2, <1>3 DEF some, total
  <2> QED
    BY <1>5, <1>6, <1>8, <2>2
<1> QED
  BY <1>7, <1>8

\* No step of a worker that was told to stop makes it longer.
LEMMA CostDown ==
  ASSUME TypeOK, Session, connected, stopRequested, Start PROVE Cost' <= Cost
<1>0. /\ timer \in 0..PollTimeout /\ sinceSend \in 0..MinInterval
      /\ Len(outgoing) \in Nat /\ Sends(Len(outgoing)) \in Nat /\ Cost \in Nat
  BY CostTypes
<1>1. CASE pc' \in {"check", "finally", "returned"}
  BY <1>0, <1>1 DEF Cost
<1>2. CASE Receive \/ ReceiveTimesOut \/ Send
  <2>1. (pc \in {"recv", "send"} /\ pc' = "drain" /\ UNCHANGED outgoing) \/ pc' = "finally"
    BY <1>2 DEF Receive, ReceiveTimesOut, ReceivesNothing, Send, Goto, queueVars
  <2>2. CASE pc \in {"recv", "send"} /\ pc' = "drain" /\ UNCHANGED outgoing
    <3>1. Cost = timer + Sends(Len(outgoing)) /\ Cost' = Sends(Len(outgoing))
      BY <2>2 DEF Cost
    <3> QED
      BY <1>0, <3>1
  <2> QED
    BY <1>1, <2>1, <2>2
<1>3. CASE TakeCommand
  <2>1. /\ pc = "drain" /\ outgoing # << >> /\ pc' = "pace" /\ outgoing' = Tail(outgoing)
        /\ UNCHANGED sinceSend
    BY <1>3 DEF TakeCommand, GetNowait, Goto
  <2>2. Len(outgoing') \in Nat /\ Len(outgoing) = Len(outgoing') + 1
    <3>1. outgoing \in Seq(Atom)  BY DEF TypeOK, WorkerTypeOK
    <3>2. Len(outgoing) # 0  BY <2>1, <3>1, EmptySeq
    <3> QED  BY <1>0, <2>1, <3>1, <3>2, HeadTailProperties
  <2>3. Sends(Len(outgoing)) = Sends(Len(outgoing')) + (MinInterval + PollTimeout)
        /\ Sends(Len(outgoing')) \in Nat
    BY <2>2, SendsTime
  <2>4. Cost = Sends(Len(outgoing))
        /\ Cost' = MinInterval - sinceSend + PollTimeout + Sends(Len(outgoing'))
    BY <2>1 DEF Cost
  <2> QED
    BY <1>0, <2>3, <2>4
<1>4. CASE Pace
  <2>1. /\ pc = "pace" /\ pc' = "send" /\ timer' = PollTimeout /\ sinceSend = MinInterval
        /\ UNCHANGED outgoing
    BY <1>4 DEF Pace, StartTimer, queueVars
  <2>2. Cost = MinInterval - sinceSend + PollTimeout + Sends(Len(outgoing))
        /\ Cost' = PollTimeout + Sends(Len(outgoing))
    BY <2>1 DEF Cost
  <2> QED
    BY <1>0, <2>1, <2>2
<1>5. CASE CheckStop \/ ReceiveEof \/ DrainDone
  <2>1. pc' \in {"check", "finally"}
    BY <1>5 DEF CheckStop, ReceiveEof, ReceivesNothing, DrainDone, Goto
  <2> QED
    BY <1>1, <2>1
<1>6. CASE pc \in {"connect", "handshaken"} \cup HandshakePositions
  BY <1>6, Positions2 DEF Session, Loop, Over
<1> QED
  BY <1>1, <1>2, <1>3, <1>4, <1>5, <1>6, StartMoves

LEMMA SameJoin ==
  ASSUME Join, UNCHANGED <<window, stopRequested, quitRequested, backlog, joinLeft, connected,
                           pc, timer, sinceSend, outgoing>>
  PROVE  Join'
<1>1. Cost' = Cost /\ InTime' = InTime
  BY DEF Cost, InTime
<1> QED
  BY <1>1 DEF Join

LEMMA JoinClose ==
  ASSUME TypeOK, InHandOK, Session, CloseEvent, window \in {"open", "closed"} PROVE Join'
<1>1. stopRequested' /\ quitRequested'
  BY Zenon DEF CloseEvent, Stop
<1>2. /\ window' = "closing" /\ joinLeft' = JoinTimeout
      /\ backlog' = IF connected THEN Len(inHand) + Len(outgoing) ELSE Unknown
      /\ UNCHANGED <<connected, pc, timer, sinceSend, outgoing, inHand>>
  BY DEF CloseEvent, queueVars
<1>3. Cost' = Cost
  BY <1>2 DEF Cost
<1>4. InTime' => connected' /\ joinLeft' > Cost'
  <2> SUFFICES ASSUME InTime' PROVE connected' /\ joinLeft' > Cost'
    OBVIOUS
  <2>1. connected /\ FitsInJoin(Len(inHand) + Len(outgoing))
    BY <1>2 DEF InTime
  <2> QED
    BY <1>2, <1>3, <2>1, CostAtClose
<1> QED
  BY <1>1, <1>2, <1>4 DEF Join

LEMMA JoinTick == ASSUME TypeOK, Session, Join, Tick PROVE Join'
<1>1. /\ UNCHANGED <<window, stopRequested, quitRequested, backlog, connected, pc, outgoing>>
      /\ window = "closing" => joinLeft > 0 /\ joinLeft' = joinLeft - 1
      /\ timer' = IF pc \in {"recv", "send"} THEN Minus1(timer) ELSE timer
      /\ sinceSend' = Capped(sinceSend)
  BY DEF Tick, Joining, flagVars
<1>2. InTime' = InTime
  BY <1>1 DEF InTime
<1>3. ASSUME window = "closing", connected, joinLeft > Cost PROVE joinLeft' > Cost'
  <2>0. /\ timer \in 0..PollTimeout /\ sinceSend \in 0..MinInterval /\ joinLeft \in 0..JoinTimeout
        /\ Sends(Len(outgoing)) \in Nat
    BY CostTypes
  <2>1. pc # "connect" /\ pc \notin DOMAIN Awaits
    BY <1>3, Positions2 DEF Session, Loop, Over, HandshakePositions
  <2>2. pc # "returned"
    BY <1>3 DEF Tick, Join
  <2>3. \/ pc \in {"recv", "send"} /\ timer > 0
        \/ pc = "pace" /\ sinceSend < MinInterval
    BY <2>1, <2>2 DEF Tick, Waiting
  <2>4. CASE pc \in {"recv", "send"} /\ timer > 0
    <3>1. Cost = timer + Sends(Len(outgoing)) /\ Cost' = (timer - 1) + Sends(Len(outgoing))
      BY <1>1, <2>0, <2>4 DEF Cost, Minus1
    <3> QED
      BY <1>1, <1>3, <2>0, <3>1
  <2>5. CASE pc = "pace" /\ sinceSend < MinInterval
    <3>1. /\ Cost = MinInterval - sinceSend + PollTimeout + Sends(Len(outgoing))
          /\ Cost' = MinInterval - (sinceSend + 1) + PollTimeout + Sends(Len(outgoing))
      BY <1>1, <2>0, <2>5 DEF Cost, Capped
    <3> QED
      BY <1>1, <1>3, <2>0, <3>1
  <2> QED
    BY <2>3, <2>4, <2>5
<1> QED
  BY <1>1, <1>2, <1>3 DEF Join

LEMMA JoinStep == ASSUME TypeOK, InHandOK, Session, Join, [Next]_vars PROVE Join'
<1>1. CASE Start /\ UNCHANGED windowVars
  <2>1. UNCHANGED <<window, stopRequested, quitRequested, backlog, joinLeft>>
    <3>1. UNCHANGED <<window, quitRequested, backlog, joinLeft>>
      BY <1>1 DEF windowVars, joinVars
    <3>2. UNCHANGED stopRequested
      BY <1>1 DEF Start, Connect, SendHandshake, ReadHandshake, HandshakeEof, EnterGame, CheckStop,
         Receive, ReceiveTimesOut, ReceiveEof, ReceivesNothing, DrainDone, TakeCommand, Pace, Send,
         Raise, Finally, Goto, flagVars
    <3> QED
      BY <3>1, <3>2
  <2>2. InTime' = InTime
    BY <2>1 DEF InTime
  <2>3. window = "closing" /\ InTime => connected' /\ joinLeft' > Cost'
    <3> SUFFICES ASSUME window = "closing", InTime PROVE connected' /\ joinLeft' > Cost'
      OBVIOUS
    <3>1. connected /\ joinLeft > Cost /\ stopRequested
      BY DEF Join
    <3>2. connected'
      BY <1>1, <3>1, StartMoves
    <3>3. Cost' <= Cost
      <4>1. connected /\ stopRequested /\ Start  BY <1>1, <3>1
      <4> QED  BY <4>1, CostDown
    <3>4. Cost' \in Nat /\ Cost \in Nat /\ joinLeft \in Nat
      <4>1. TypeOK'  BY <1>1, StepTypeOK DEF Next, Thread
      <4>2. Cost' \in Nat  BY <4>1, NextCost
      <4> QED  BY <4>2, CostTypes
    <3> QED
      BY <2>1, <3>1, <3>2, <3>3, <3>4
  <2>4. pc # "finished"
    BY <1>1, StartMoves, HandshakeOrder DEF Loop
  <2> QED
    BY <2>1, <2>2, <2>3, <2>4 DEF Join
<1>2. CASE ThreadFinishes
  <2>1. /\ pc' = "finished"
        /\ UNCHANGED <<window, stopRequested, quitRequested, backlog, joinLeft, connected>>
    BY <1>2 DEF ThreadFinishes, Goto, flagVars, windowVars, joinVars
  <2>2. Cost' = 0 /\ InTime' = InTime
    BY <2>1 DEF Cost, InTime
  <2> QED
    BY <2>1, <2>2, CostTypes DEF Join
<1>3. CASE CloseEventReturns
  <2>1. /\ window = "closing" /\ window' = "closed"
        /\ pc = "finished" \/ joinLeft = 0
        /\ UNCHANGED <<stopRequested, quitRequested, backlog, pc>>
    BY <1>3 DEF CloseEventReturns, WaitIsOver, workerVars, flagVars, joinVars
  <2>2. InTime' = InTime
    BY <2>1 DEF InTime
  <2>3. InTime => pc = "finished"
    BY <2>1, CostTypes DEF Join
  <2> QED
    BY <2>1, <2>2, <2>3 DEF Join
<1>4. CASE AppExits
  <2>1. /\ window = "closed" /\ window' = "exited"
        /\ pc = "finished" => pc' = "finished"
        /\ UNCHANGED <<stopRequested, quitRequested, backlog>>
    BY <1>4 DEF AppExits, flagVars, joinVars
  <2>2. InTime' = InTime
    BY <2>1 DEF InTime
  <2> QED
    BY <2>1, <2>2 DEF Join
<1>5. CASE OnConnectionClosed \/ UserCloses
  BY <1>5, JoinClose DEF OnConnectionClosed, UserCloses, Delivers
<1>6. CASE OnReturnPressed
  <2>1. window = "open" /\ window' = "open"
    BY <1>6 DEF OnReturnPressed
  <2> QED
    BY <2>1 DEF Join
<1>7. CASE OnData \/ OnError \/ Environment \/ UNCHANGED vars
  BY <1>7, SameJoin DEF OnData, OnError, Environment, flagVars, queueVars, workerVars, windowVars,
     joinVars, vars
<1>8. CASE Tick
  BY <1>8, JoinTick
<1> QED
  BY <1>1, <1>2, <1>3, <1>4, <1>5, <1>6, <1>7, <1>8 DEF Next, Thread, Gui, User, Exited

-------------------------------------------------------------------------------
(* Lines. *)
LEMMA CmdLinesStep ==
  ASSUME TypeOK, CmdLines, [Next]_vars PROVE CmdLines'
<1>1. CASE OnReturnPressed
  <2>1. Len(typed) + 1 \in Nat
    BY LenProperties DEF CmdLines
  <2>2. Cmd(Len(typed) + 1) \in CmdLine
    BY <2>1 DEF Cmd, CmdLine
  <2>3. /\ typed' = Append(typed, Cmd(Len(typed) + 1)) /\ outgoing' = Append(outgoing, Cmd(Len(typed) + 1))
        /\ UNCHANGED inHand
    BY <1>1 DEF OnReturnPressed, QueueLine
  <2> QED
    BY <2>2, <2>3, AppendProperties DEF CmdLines
<1>2. CASE (TakeCommand \/ Send) /\ UNCHANGED typed
  <2>1. CASE TakeCommand
    <3>1. outgoing # << >> /\ inHand' = <<Head(outgoing)>> /\ outgoing' = Tail(outgoing)
      BY <2>1 DEF TakeCommand, GetNowait
    <3>2. Head(outgoing) \in CmdLine /\ Tail(outgoing) \in Seq(CmdLine)
      BY <3>1, HeadTailProperties DEF CmdLines
    <3>3. <<Head(outgoing)>> \in Seq(CmdLine)
      BY <3>2
    <3> QED
      BY <1>2, <3>1, <3>2, <3>3 DEF CmdLines
  <2>2. CASE Send
    <3>1. inHand' = << >> /\ UNCHANGED outgoing
      BY <2>2 DEF Send
    <3>2. << >> \in Seq(CmdLine)  OBVIOUS
    <3> QED
      BY <1>2, <3>1, <3>2 DEF CmdLines
  <2> QED
    BY <1>2, <2>1, <2>2
<1>3. CASE UNCHANGED <<typed, sent, inHand, outgoing>>
  BY <1>3 DEF CmdLines
<1> QED
  BY <1>1, <1>2, <1>3, CommandSteps

-------------------------------------------------------------------------------
(* The handshake. *)
LEMMA CatParts ==
  \A s, t \in Seq(Atom) : /\ Len(Cat(s, t)) = Len(s) + Len(t)
                          /\ \A i \in 1..Len(s) : Cat(s, t)[i] = s[i]
<1> SUFFICES ASSUME NEW s \in Seq(Atom), NEW t \in Seq(Atom)
             PROVE  /\ Len(s \o t) = Len(s) + Len(t)
                    /\ \A i \in 1..Len(s) : (s \o t)[i] = s[i]
  BY DEF Cat
<1>1. Len(s) \in Nat /\ Len(t) \in Nat /\ Len(s \o t) = Len(s) + Len(t)
  BY ConcatProperties, LenProperties
<1>2. \A i \in 1..Len(s) + Len(t) : (s \o t)[i] = IF i <= Len(s) THEN s[i] ELSE t[i - Len(s)]
  BY ConcatProperties
<1>3. \A i \in 1..Len(s) : i \in 1..Len(s) + Len(t) /\ i <= Len(s)
  BY <1>1
<1> QED
  BY <1>1, <1>2, <1>3

LEMMA TagTypes ==
  /\ ModeTag \in Seq(Atom) /\ Len(ModeTag) = 2
  /\ SettingsInfo \in Seq(Atom) /\ Len(SettingsInfo) = 2
  /\ Welcome \in Seq(Atom) /\ Len(Welcome) = 4
  /\ Welcome[1] = <<"mode", 1>> /\ Welcome[2] = <<"mode", 2>>
<1>1. ModeTag \in Seq(Atom) /\ SettingsInfo \in Seq(Atom)
  BY DEF ModeTag, SettingsInfo, Atom
<1>2. Len(ModeTag) = 2 /\ Len(SettingsInfo) = 2
  BY DEF ModeTag, SettingsInfo
<1>3. Welcome \in Seq(Atom)
  BY <1>1, Closed2 DEF Welcome
<1>4. /\ Len(Cat(ModeTag, SettingsInfo)) = 2 + 2
      /\ \A i \in 1..2 : Cat(ModeTag, SettingsInfo)[i] = ModeTag[i]
  BY <1>1, <1>2, CatParts
<1>5. Len(Welcome) = 4 /\ Welcome[1] = ModeTag[1] /\ Welcome[2] = ModeTag[2]
  <2>1. Welcome = Cat(ModeTag, SettingsInfo)  BY DEF Cat, Welcome
  <2> QED  BY <1>4, <2>1
<1>6. ModeTag[1] = <<"mode", 1>> /\ ModeTag[2] = <<"mode", 2>>
  BY DEF ModeTag
<1> QED
  BY <1>1, <1>2, <1>3, <1>4, <1>5, <1>6

\* The text in which settingsInfo is found, when the server sent no more than
\* its greeting and the settings, is all of them.
LEMMA SettingsAreLast ==
  ASSUME NEW text \in Seq(Atom), NEW rest \in Seq(Atom), HasMarker(text, SettingsInfo)
  PROVE  /\ text \o rest # << >>
         /\ text \o rest # ModeTag
         /\ text \o rest = Welcome => text = Welcome
<1>0. /\ Len(text) \in Nat /\ Len(rest) \in Nat /\ Len(text \o rest) = Len(text) + Len(rest)
      /\ \A j \in 1..Len(text) : (text \o rest)[j] = text[j]
  <2>1. \A j \in 1..Len(text) + Len(rest) :
          (text \o rest)[j] = IF j <= Len(text) THEN text[j] ELSE rest[j - Len(text)]
    BY ConcatProperties
  <2>2. Len(text) \in Nat /\ Len(rest) \in Nat /\ Len(text \o rest) = Len(text) + Len(rest)
    BY ConcatProperties, LenProperties
  <2>3. \A j \in 1..Len(text) : j \in 1..Len(text) + Len(rest) /\ j <= Len(text)
    BY <2>2
  <2> QED
    BY <2>1, <2>2, <2>3
<1> PICK i \in 1..Len(text) - 1 : <<text[i], text[i + 1]>> = SettingsInfo
  BY DEF HasMarker
<1>1. text[i] = <<"settings", 1>> /\ text[i + 1] = <<"settings", 2>>
  BY DEF SettingsInfo
<1>2. i \in 1..Len(text) /\ i + 1 \in 1..Len(text) /\ i \in Nat
  BY <1>0
<1>3. (text \o rest)[i] = <<"settings", 1>> /\ (text \o rest)[i + 1] = <<"settings", 2>>
  BY <1>0, <1>1, <1>2
<1>4. Len(text \o rest) >= 2
  BY <1>0, <1>2
<1>5. text \o rest # << >>
  BY <1>4
<1>6. text \o rest # ModeTag
  <2> SUFFICES ASSUME text \o rest = ModeTag PROVE FALSE
    OBVIOUS
  <2>0. Len(text) + Len(rest) = 2
    BY <1>0, TagTypes
  <2>1. i = 1
    BY <1>0, <1>2, <2>0
  <2>2. ModeTag[1] = <<"settings", 1>>
    BY <1>3, <2>1
  <2>3. ModeTag[1] = <<"mode", 1>>
    BY DEF ModeTag
  <2>4. <<"mode", 1>> # <<"settings", 1>>
    OBVIOUS
  <2> QED
    BY <2>2, <2>3, <2>4
<1>7. text \o rest = Welcome => text = Welcome
  <2> SUFFICES ASSUME text \o rest = Welcome PROVE text = Welcome
    OBVIOUS
  <2>0. Len(text) + Len(rest) = 4
    BY <1>0, TagTypes
  <2>1. Len(text) + Len(rest) = 4 /\ i \in {1, 2, 3}
    BY <1>0, <1>2, <2>0
  <2>2. Welcome[i] = <<"settings", 1>>
    BY <1>3
  <2>3. /\ Welcome[1] = <<"mode", 1>> /\ Welcome[2] = <<"mode", 2>>
        /\ <<"mode", 1>> # <<"settings", 1>> /\ <<"mode", 2>> # <<"settings", 1>>
    BY TagTypes
  <2>4. i = 3
    BY <2>1, <2>2, <2>3
  <2>5. Len(rest) = 0
    BY <1>0, <1>2, <2>1, <2>4
  <2>6. rest = << >>
    BY <2>5, EmptySeq
  <2>7. text \o << >> = text
    BY Empty
  <2> QED
    BY <2>6, <2>7
<1> QED
  BY <1>5, <1>6, <1>7

\* A mode tag found in what follows the greeting and the settings is a second one.
LEMMA SecondModeTag ==
  ASSUME NEW text \in Seq(Atom), NEW rest \in Seq(Atom), HasMarker(text, ModeTag)
  PROVE  Welcome \o (text \o rest) # Welcome
<1>1. Len(text) \in Nat /\ Len(rest) \in Nat /\ Len(text \o rest) = Len(text) + Len(rest)
      /\ text \o rest \in Seq(Atom)
  BY ConcatProperties, LenProperties
<1>2. Len(text) >= 2
  BY <1>1 DEF HasMarker
<1>3. Len(Welcome \o (text \o rest)) = 4 + (Len(text) + Len(rest))
  <2> DEFINE more == text \o rest
  <2>1. more \in Seq(Atom) /\ Len(more) = Len(text) + Len(rest)
    BY <1>1
  <2> HIDE DEF more
  <2>a. Welcome \in Seq(Atom) /\ Len(Welcome) = 4
    BY TagTypes
  <2>b. Len(Cat(Welcome, more)) = Len(Welcome) + Len(more)
    BY <2>1, <2>a, CatParts
  <2>2. Len(Cat(Welcome, more)) = 4 + Len(more)
    BY <2>a, <2>b
  <2>3. Len(Welcome \o more) = 4 + Len(more)
    BY <2>2 DEF Cat
  <2> QED  BY <2>1, <2>3 DEF more
<1>4. Len(Welcome \o (text \o rest)) # 4
  BY <1>1, <1>2, <1>3
<1> QED
  BY <1>4, TagTypes

LEMMA LineLists ==
  /\ \A line \in Atom : << >> # <<line>> /\ Head(<<line>>) = line /\ Tail(<<line>>) = << >>
  /\ Append(<< >>, Key) = <<Key>> /\ Append(<<Key>>, Ident) = <<Key, Ident>>
  /\ Append(<< >>, Ident) = <<Ident>> /\ Append(<< >>, Ready) = <<Ready>>
  /\ Head(<<Key, Ident>>) = Key /\ Tail(<<Key, Ident>>) = <<Ident>> /\ <<Key, Ident>> # << >>
  /\ Key \in Atom /\ Ident \in Atom /\ Ready \in Atom
<1>1. Key \in Atom /\ Ident \in Atom /\ Ready \in Atom
  BY DEF Key, Ident, Ready, Atom
<1>2. \A line \in Atom : << >> # <<line>> /\ Head(<<line>>) = line /\ Tail(<<line>>) = << >>
  OBVIOUS
<1>3. /\ Append(<< >>, Key) = <<Key>> /\ Append(<<Key>>, Ident) = <<Key, Ident>>
      /\ Append(<< >>, Ident) = <<Ident>> /\ Append(<< >>, Ready) = <<Ready>>
  <2>1. \A a \in Atom : Append(<< >>, a) = <<a>>
    OBVIOUS
  <2>2. ASSUME NEW a \in Atom, NEW b \in Atom PROVE Append(<<a>>, b) = <<a, b>>
    <3> DEFINE s == Append(<<a>>, b)
               t == <<a, b>>
    <3>1. <<a>> \in Seq(Atom) /\ Len(<<a>>) = 1 /\ <<a>>[1] = a
      OBVIOUS
    <3>2. s \in Seq(Atom) /\ Len(s) = 2 /\ s[1] = a /\ s[2] = b
      BY <3>1, AppendProperties
    <3>3. t \in Seq(Atom) /\ Len(t) = 2 /\ t[1] = a /\ t[2] = b
      OBVIOUS
    <3> HIDE DEF s, t
    <3>4. s = t
      BY <3>2, <3>3, SeqEqual
    <3> QED  BY <3>4 DEF s, t
  <2> QED  BY <1>1, <2>1, <2>2
<1>4. Head(<<Key, Ident>>) = Key /\ <<Key, Ident>> # << >>
  OBVIOUS
<1>5. Tail(<<Key, Ident>>) = <<Ident>>
  OBVIOUS
<1> QED
  BY <1>1, <1>2, <1>3, <1>4, <1>5

\* The parts of the exchange, when no part of it but the text moves.
Exchange == Asked /\ Greeted /\ Welcomed /\ Moded /\ Answered /\ Playing

LEMMA ServerPhases ==
  ASSUME TypeOK, Server
  PROVE  \/ peer' # "open"
         \/ /\ UNCHANGED <<sock, peer>> /\ sock /\ peer = "open"
            /\ \/ /\ ServerAccepts /\ outbound # << >> /\ outbound' = Tail(outbound)
                  /\ phase \in {"key", "ident", "ready1", "ready2"} /\ phase' = After[phase]
                  /\ UNCHANGED served
               \/ /\ ServerAnnounces /\ phase \in {"greeting", "settings", "mode2"}
                  /\ phase' = After[phase] /\ UNCHANGED outbound
                  /\ served' = served \o Announces[phase]
               \/ /\ phase = "game" /\ outbound # << >> /\ outbound' = Tail(outbound)
                  /\ UNCHANGED <<phase, served>>
               \/ phase = "game" /\ UNCHANGED <<phase, outbound>>
<1>1. CASE ServerAccepts
  <2>1. DOMAIN Expects = {"key", "ident", "ready1", "ready2"}  BY DEF Expects
  <2> QED  BY <1>1, <2>1 DEF ServerAccepts, Serving
<1>2. CASE ServerAnnounces
  <2>1. DOMAIN Announces = {"greeting", "settings", "mode2"}  BY DEF Announces
  <2> QED  BY <1>2, <2>1 DEF ServerAnnounces, Serving, Arrives
<1>3. CASE ServerHears
  BY <1>3 DEF ServerHears, Serving
<1>4. CASE ServerWrites
  BY <1>4 DEF ServerWrites, Serving
<1>5. CASE ServerRefuses \/ ServerCloses \/ ConnectionResets
  BY <1>5 DEF ServerRefuses, ServerCloses, ConnectionResets
<1> QED
  BY <1>1, <1>2, <1>3, <1>4, <1>5 DEF Server

LEMMA Follows ==
  /\ After["key"] = "ident" /\ After["ident"] = "greeting" /\ After["greeting"] = "settings"
  /\ After["settings"] = "ready1" /\ After["ready1"] = "mode2" /\ After["mode2"] = "ready2"
  /\ After["ready2"] = "game"
  /\ Announces["greeting"] = ModeTag /\ Announces["settings"] = SettingsInfo
  /\ Announces["mode2"] = ModeTag
  /\ Expects["key"] = Key /\ Expects["ident"] = Ident /\ Expects["ready1"] = Ready
  /\ Expects["ready2"] = Ready /\ DOMAIN Expects = {"key", "ident", "ready1", "ready2"}
  BY DEF After, Announces, Expects

\* What the server has sent follows its phase.
LEMMA ServedStep ==
  ASSUME TypeOK, Environment, peer = "open" => ServedBy PROVE peer' = "open" => ServedBy'
<1> SUFFICES ASSUME peer' = "open" PROVE ServedBy'
  OBVIOUS
<1>0. << >> \o ModeTag = ModeTag /\ ModeTag \o SettingsInfo = Welcome
  BY TagTypes, Empty DEF Welcome
<1>1. CASE ServerAccepts /\ peer = "open" /\ phase' = After[phase] /\ UNCHANGED served
           /\ phase \in {"key", "ident", "ready1", "ready2"}
  BY <1>1, Follows DEF ServedBy
<1>2. CASE ServerAnnounces /\ peer = "open" /\ phase' = After[phase]
           /\ phase \in {"greeting", "settings", "mode2"} /\ served' = served \o Announces[phase]
  BY <1>0, <1>2, Follows DEF ServedBy
<1>3. CASE phase = "game" /\ UNCHANGED phase
  BY <1>3 DEF ServedBy
<1> QED
  BY <1>1, <1>2, <1>3, ServerPhases DEF Environment

\* A step of the server keeps both sides in step.
LEMMA ServerExchange ==
  ASSUME TypeOK, Environment, peer' = "open", Exchange,
         pc \in {"connect", "sendKey"} => phase = "key" /\ outbound = << >>
  PROVE  /\ Exchange'
         /\ pc \in {"connect", "sendKey"} => UNCHANGED <<phase, outbound>>
<1>0. UNCHANGED <<pc, handshake>>
  BY DEF Environment, workerVars, textVars
<1>1. CASE ServerAccepts /\ outbound # << >> /\ outbound' = Tail(outbound)
           /\ phase \in {"key", "ident", "ready1", "ready2"} /\ phase' = After[phase]
  <2>1. ~(pc \in {"connect", "sendKey"})
    BY <1>1
  <2>2. Asked' /\ Greeted' /\ Welcomed' /\ Moded' /\ Answered'
    BY <1>0, <1>1, Follows, LineLists DEF Exchange, Asked, Greeted, Welcomed, Moded, Answered
  <2>3. Playing'
    <3> SUFFICES ASSUME pc \in Loop \cup {"handshaken", "finally"}
                 PROVE  phase' = "game" /\ outbound' \in Seq(CmdLine)
      BY <1>0 DEF Playing
    <3> QED
      BY <1>1, Follows DEF Exchange, Playing
  <2> QED
    BY <2>1, <2>2, <2>3 DEF Exchange
<1>2. CASE /\ phase \in {"greeting", "settings", "mode2"}
           /\ phase' = After[phase] /\ UNCHANGED outbound
  <2>1. ~(pc \in {"connect", "sendKey"})
    BY <1>2
  <2>2. Asked' /\ Greeted' /\ Welcomed' /\ Moded' /\ Answered'
    BY <1>0, <1>2, Follows DEF Exchange, Asked, Greeted, Welcomed, Moded, Answered
  <2>3. Playing'
    BY <1>0, <1>2 DEF Exchange, Playing
  <2> QED
    BY <2>1, <2>2, <2>3 DEF Exchange
<1>3. CASE /\ phase = "game" /\ UNCHANGED phase
           /\ (outbound # << >> /\ outbound' = Tail(outbound)) \/ UNCHANGED outbound
  <2>1. ~(pc \in {"connect", "sendKey"})
    BY <1>3
  <2>2. Asked' /\ Greeted' /\ Welcomed' /\ Moded' /\ Answered'
    BY <1>0, <1>3 DEF Exchange, Asked, Greeted, Welcomed, Moded, Answered
  <2>3. Playing'
    <3> SUFFICES ASSUME pc \in Loop \cup {"handshaken", "finally"}
                 PROVE  phase' = "game" /\ outbound' \in Seq(CmdLine)
      BY <1>0 DEF Playing
    <3>1. phase = "game" /\ outbound \in Seq(CmdLine)
      BY <1>3 DEF Exchange, Playing
    <3> QED
      BY <1>3, <3>1, HeadTailProperties
  <2> QED
    BY <2>1, <2>2, <2>3 DEF Exchange
<1> QED
  BY <1>1, <1>2, <1>3, ServerPhases DEF Environment

LEMMA ServerShaking == ASSUME TypeOK, Shaking, Environment PROVE Shaking'
<1>0. UNCHANGED <<pc, handshake>> /\ sock /\ UNCHANGED sock
  BY DEF Environment, workerVars, textVars, Server, ServerAccepts, ServerAnnounces, ServerHears,
     ServerWrites, ServerRefuses, ServerCloses, ConnectionResets, Serving
<1>1. Blank'
  BY <1>0 DEF Shaking, Blank
<1>2. peer' = "open" => peer = "open"
  BY ServerPhases DEF Environment
<1>3. peer' = "open" => ServedBy'
  BY ServedStep DEF Shaking
<1>4. ASSUME peer' = "open"
      PROVE  Exchange' /\ (pc \in {"connect", "sendKey"} => UNCHANGED <<phase, outbound>>)
  BY <1>0, <1>2, <1>4, ServerExchange DEF Shaking, Exchange
<1> QED
  BY <1>0, <1>1, <1>2, <1>3, <1>4 DEF Shaking, Exchange

\* The worker's own steps. Where settingsInfo and the second mode tag are found:
LEMMA SettingsFound ==
  ASSUME TypeOK, Session, TextInv, Reading, Shaking, sock, peer = "open", pc = "readSettings",
         NEW text \in Seq(Atom), NEW rest \in Seq(Atom), accumulated \o inbound = text \o rest, HasMarker(text, SettingsInfo)
  PROVE  phase = "ready1" /\ outbound = << >> /\ text = Welcome
<1>1. ~connected /\ handshake = << >>
  <2>1. pc \in HandshakePositions  BY HandshakeOrder
  <2> QED  BY <2>1 DEF TextInv, BeforeGame, Shaking, Blank
<1>2. served = text \o rest
  <2>1. served = (handshake \o accumulated) \o inbound
    BY <1>1 DEF Reading, TextRead
  <2>2. << >> \o accumulated = accumulated
    BY ReadingTypes, Empty
  <2> QED
    BY <1>1, <2>1, <2>2
<1>3. /\ served # << >> /\ served # ModeTag
      /\ served = Welcome => text = Welcome
  BY <1>2, SettingsAreLast
<1>4. Greeted /\ ServedBy
  BY DEF Shaking
<1>5. phase = "ready1" /\ outbound = << >>
  BY <1>3, <1>4 DEF Greeted, ServedBy
<1> QED
  BY <1>3, <1>4, <1>5 DEF ServedBy

LEMMA ModeFound ==
  ASSUME TypeOK, Session, TextInv, Reading, Shaking, sock, peer = "open", pc = "readMode",
         NEW text \in Seq(Atom), NEW rest \in Seq(Atom),
         accumulated \o inbound = text \o rest, HasMarker(text, ModeTag)
  PROVE  phase = "ready2" /\ outbound = << >>
<1>1. ~connected /\ handshake = Welcome
  <2>1. pc \in HandshakePositions  BY HandshakeOrder
  <2> QED  BY <2>1 DEF TextInv, BeforeGame, Shaking, Answered
<1>2. served = Welcome \o (text \o rest)
  <2>1. served = (handshake \o accumulated) \o inbound
    BY <1>1 DEF Reading, TextRead
  <2>2. (handshake \o accumulated) \o inbound = handshake \o (accumulated \o inbound)
    <3>1. Cat(Cat(handshake, accumulated), inbound) = Cat(handshake, Cat(accumulated, inbound))
      BY ReadingTypes, CatAssoc
    <3> QED  BY <3>1 DEF Cat
  <2> QED
    BY <1>1, <2>1, <2>2
<1>3. served # Welcome
  BY <1>2, SecondModeTag
<1>4. Answered /\ ServedBy
  BY DEF Shaking
<1> QED
  BY <1>3, <1>4 DEF Answered, ServedBy

LEMMA ReadShaking ==
  ASSUME TypeOK, Session, TextInv, Reading, Shaking, ReadHandshake PROVE Shaking'
<1> PICK n \in 1..Len(inbound) :
       /\ ReadChunk(n)
       /\ \/ IsDone(accumulated \o Chunk(n)) /\ BufferPlus(accumulated \o Chunk(n)) /\ Goto(Then[pc])
          \/ UNCHANGED handshake /\ Goto(pc)
  BY DEF ReadHandshake
<1> DEFINE text == accumulated \o Chunk(n)
<1>1. Chunk(n) \in Seq(Atom) /\ inbound = Chunk(n) \o inbound' /\ LinkTypeOK'
  BY ReadTypes DEF TypeOK
<1>2. text \in Seq(Atom) /\ inbound' \in Seq(Atom)
  BY <1>1, ReadingTypes, Closed2 DEF LinkTypeOK
<1>3. accumulated \o inbound = text \o inbound'
  <2>1. Cat(accumulated, Cat(Chunk(n), inbound')) = Cat(Cat(accumulated, Chunk(n)), inbound')
    BY <1>1, <1>2, ReadingTypes, CatAssoc
  <2> QED
    BY <1>1, <2>1 DEF Cat
<1>4. UNCHANGED <<sock, peer, phase, outbound, served>> /\ pc \in {"readSettings", "readMode"}
  BY DEF ReadHandshake, ReadChunk, Awaits
<1>5. CASE UNCHANGED handshake /\ Goto(pc)
  <2>1. UNCHANGED <<pc, handshake>>
    BY <1>5 DEF Goto
  <2>2. ServedBy' = ServedBy /\ Blank' = Blank
    BY <1>4, <2>1 DEF ServedBy, Blank
  <2>3. sock /\ peer = "open" =>
          Asked' /\ Greeted' /\ Welcomed' /\ Moded' /\ Answered' /\ Playing'
    BY <1>4, <2>1 DEF Shaking, Asked, Greeted, Welcomed, Moded, Answered, Playing
  <2> QED
    BY <1>4, <2>1, <2>2, <2>3 DEF Shaking
<1>6. CASE IsDone(text) /\ BufferPlus(text) /\ Goto(Then[pc])
  <2>1. handshake' = handshake \o text /\ HasMarker(text, Awaits[pc]) /\ pc' = Then[pc]
    BY <1>6 DEF IsDone, BufferPlus, Goto
  <2> HIDE DEF text
  <2>2. CASE pc = "readSettings"
    <3>1. pc' = "sendC1" /\ Awaits[pc] = SettingsInfo
      BY <2>1, <2>2 DEF Then, Awaits
    <3>2. peer = "open" /\ sock => phase = "ready1" /\ outbound = << >> /\ text = Welcome
      BY <1>2, <1>3, <2>1, <2>2, <3>1, SettingsFound
    <3>3. handshake' = text
      <4>1. handshake = << >>  BY <2>2 DEF Shaking, Blank
      <4>2. << >> \o text = text  BY <1>2, Empty
      <4> QED  BY <2>1, <4>1, <4>2
    <3>4. Asked' /\ Greeted' /\ Moded' /\ Answered' /\ Playing' /\ Blank'
      BY <3>1 DEF Asked, Greeted, Moded, Answered, Playing, Blank, Loop
    <3>5. peer = "open" /\ sock => Welcomed'
      BY <1>4, <3>2, <3>3 DEF Welcomed
    <3>6. ServedBy' = ServedBy
      BY <1>4 DEF ServedBy
    <3> QED
      BY <1>4, <3>1, <3>4, <3>5, <3>6 DEF Shaking, Over
  <2>3. CASE pc = "readMode"
    <3>1. pc' = "sendC2" /\ Awaits[pc] = ModeTag
      BY <2>1, <2>3 DEF Then, Awaits
    <3>2. peer = "open" /\ sock => phase = "ready2" /\ outbound = << >>
      BY <1>2, <1>3, <2>1, <2>3, <3>1, ModeFound
    <3>4. Asked' /\ Greeted' /\ Welcomed' /\ Answered' /\ Playing' /\ Blank'
      BY <3>1 DEF Asked, Greeted, Welcomed, Answered, Playing, Blank, Loop
    <3>5. peer = "open" /\ sock => Moded'
      BY <1>4, <3>2 DEF Moded
    <3>6. ServedBy' = ServedBy
      BY <1>4 DEF ServedBy
    <3> QED
      BY <1>4, <3>1, <3>4, <3>5, <3>6 DEF Shaking, Over
  <2> QED
    BY <1>4, <2>2, <2>3
<1> QED
  BY <1>5, <1>6

LEMMA SendHandshakeShaking == ASSUME TypeOK, Shaking, SendHandshake PROVE Shaking'
<1>0. /\ outbound' = IF peer = "open" THEN Append(outbound, HandshakeLine[pc]) ELSE outbound
      /\ UNCHANGED <<sock, peer, phase, served, handshake>>
      /\ pc \in {"sendKey", "sendIdent", "sendC1", "sendC2"} /\ pc' = Then[pc]
  BY DEF SendHandshake, SendLine, HandshakeLine, Goto, textVars
<1>a. ServedBy' = ServedBy
  BY <1>0 DEF ServedBy
<1>1. CASE pc = "sendKey"
  <2>1. pc' = "sendIdent" /\ HandshakeLine[pc] = Key
    BY <1>0, <1>1 DEF Then, HandshakeLine
  <2>2. Greeted' /\ Welcomed' /\ Moded' /\ Answered' /\ Playing'
    BY <2>1 DEF Greeted, Welcomed, Moded, Answered, Playing, Loop
  <2>3. peer = "open" => Asked'
    BY <1>0, <1>1, <2>1, LineLists DEF Shaking, Asked
  <2>4. Blank'
    BY <1>0, <1>1 DEF Shaking, Blank
  <2> QED
    BY <1>0, <1>a, <2>1, <2>2, <2>3, <2>4 DEF Shaking, Over
<1>2. CASE pc = "sendIdent"
  <2>1. pc' = "readSettings" /\ HandshakeLine[pc] = Ident
    BY <1>0, <1>2 DEF Then, HandshakeLine
  <2>2. Asked' /\ Welcomed' /\ Moded' /\ Answered' /\ Playing'
    BY <2>1 DEF Asked, Welcomed, Moded, Answered, Playing, Loop
  <2>3. peer = "open" /\ sock => Greeted'
    BY <1>0, <1>2, <2>1, LineLists DEF Shaking, Asked, Greeted
  <2>4. Blank'
    BY <1>0, <1>2 DEF Shaking, Blank
  <2> QED
    BY <1>0, <1>a, <2>1, <2>2, <2>3, <2>4 DEF Shaking, Over
<1>3. CASE pc = "sendC1"
  <2>1. pc' = "readMode" /\ HandshakeLine[pc] = Ready
    BY <1>0, <1>3 DEF Then, HandshakeLine
  <2>2. Asked' /\ Greeted' /\ Welcomed' /\ Moded' /\ Playing' /\ Blank'
    BY <2>1 DEF Asked, Greeted, Welcomed, Moded, Playing, Loop, Blank
  <2>3. peer = "open" /\ sock => Answered'
    BY <1>0, <1>3, <2>1, LineLists DEF Shaking, Welcomed, Answered
  <2> QED
    BY <1>0, <1>a, <2>1, <2>2, <2>3 DEF Shaking, Over
<1>4. CASE pc = "sendC2"
  <2>1. pc' = "handshaken" /\ HandshakeLine[pc] = Ready
    BY <1>0, <1>4 DEF Then, HandshakeLine
  <2>2. Asked' /\ Greeted' /\ Welcomed' /\ Moded' /\ Answered' /\ Blank'
    BY <2>1 DEF Asked, Greeted, Welcomed, Moded, Answered, Blank
  <2>3. peer = "open" /\ sock => Playing'
    <3>1. << >> \in Seq(CmdLine)  OBVIOUS
    <3> QED  BY <1>0, <1>4, <2>1, <3>1, LineLists DEF Shaking, Moded, Playing
  <2> QED
    BY <1>0, <1>a, <2>1, <2>2, <2>3 DEF Shaking, Over
<1> QED
  BY <1>0, <1>1, <1>2, <1>3, <1>4

\* In the loop only Send adds a line, and it is a command.
LEMMA LoopShaking ==
  ASSUME Shaking, UNCHANGED <<sock, peer, phase, outbound, served>>,
         pc \in Loop \cup {"handshaken"}, pc' \in Loop \cup {"finally"}
  PROVE  Shaking'
<1>1. ServedBy' = ServedBy
  BY DEF ServedBy
<1>2. /\ pc' \notin {"connect", "sendKey", "sendIdent", "readSettings", "sendC1", "readMode", "sendC2"}
      /\ pc' \notin Over
  BY DEF Loop, Over
<1>3. Asked' /\ Greeted' /\ Welcomed' /\ Moded' /\ Answered' /\ Blank'
  BY <1>2 DEF Asked, Greeted, Welcomed, Moded, Answered, Blank
<1>4. peer = "open" /\ sock => Playing'
  BY DEF Shaking, Playing
<1> QED
  BY <1>1, <1>2, <1>3, <1>4 DEF Shaking

LEMMA QueueAppend ==
  ASSUME NEW queue \in Seq(Atom), queue # << >>, NEW line \in CmdLine
  PROVE  /\ Append(queue, line) # << >> /\ Head(Append(queue, line)) = Head(queue)
         /\ Tail(Append(queue, line)) = Append(Tail(queue), line)
<1>0. line \in Atom
  BY DEF CmdLine, Atom
<1>1. Len(queue) \in Nat /\ Len(queue) >= 1 /\ Head(queue) = queue[1]
  BY EmptySeq, LenProperties, HeadTailProperties
<1> DEFINE more == Append(queue, line)
           rest == Append(Tail(queue), line)
<1>2. /\ more \in Seq(Atom) /\ Len(more) = Len(queue) + 1
      /\ \A i \in 1..Len(queue) : more[i] = queue[i]
      /\ more[Len(queue) + 1] = line
  BY <1>0, AppendProperties
<1>3. /\ Tail(queue) \in Seq(Atom) /\ Len(Tail(queue)) = Len(queue) - 1
      /\ \A i \in 1..Len(queue) - 1 : Tail(queue)[i] = queue[i + 1]
  BY HeadTailProperties
<1>4. /\ rest \in Seq(Atom) /\ Len(rest) = Len(queue)
      /\ \A i \in 1..Len(queue) - 1 : rest[i] = queue[i + 1]
      /\ rest[Len(queue)] = line
  <2>1. /\ rest \in Seq(Atom) /\ Len(rest) = Len(Tail(queue)) + 1
        /\ \A i \in 1..Len(Tail(queue)) : rest[i] = Tail(queue)[i]
        /\ rest[Len(Tail(queue)) + 1] = line
    BY <1>0, <1>3, AppendProperties
  <2> HIDE DEF rest
  <2> QED
    BY <1>1, <1>3, <2>1
<1> HIDE DEF more, rest
<1>5. more # << >>
  BY <1>1, <1>2, EmptySeq
<1>6. /\ Head(more) = more[1] /\ Tail(more) \in Seq(Atom) /\ Len(Tail(more)) = Len(more) - 1
      /\ \A i \in 1..Len(more) - 1 : Tail(more)[i] = more[i + 1]
  BY <1>2, <1>5, HeadTailProperties
<1>7. Head(more) = Head(queue)
  BY <1>1, <1>2, <1>6
<1>8. Len(Tail(more)) = Len(rest)
  BY <1>1, <1>2, <1>4, <1>6
<1>9. ASSUME NEW i \in 1..Len(Tail(more)) PROVE Tail(more)[i] = rest[i]
  <2>1. i \in 1..Len(queue) /\ Tail(more)[i] = more[i + 1]
    BY <1>1, <1>2, <1>6
  <2>2. CASE i = Len(queue)
    BY <1>2, <1>4, <2>1, <2>2
  <2>3. CASE i # Len(queue)
    <3>1. i \in 1..Len(queue) - 1 /\ i + 1 \in 1..Len(queue)  BY <1>1, <2>1, <2>3
    <3> QED  BY <1>2, <1>4, <2>1, <3>1
  <2> QED
    BY <2>2, <2>3
<1>10. Tail(more) = rest
  BY <1>4, <1>6, <1>8, <1>9, SeqEqual
<1> QED
  BY <1>5, <1>7, <1>10 DEF more, rest

LEMMA SendShaking == ASSUME TypeOK, InHandOK, CmdLines, Shaking, Send PROVE Shaking'
<1>0. /\ outbound' = IF peer = "open" THEN Append(outbound, Head(inHand)) ELSE outbound
      /\ UNCHANGED <<sock, peer, phase, served>> /\ pc = "send" /\ pc' = "drain"
  BY DEF Send, SendLine, Goto
<1>1. Head(inHand) \in CmdLine
  BY <1>0, HeadTailProperties DEF InHandOK, CmdLines
<1>2. ServedBy' = ServedBy
  BY <1>0 DEF ServedBy
<1>3. Asked' /\ Greeted' /\ Welcomed' /\ Moded' /\ Answered' /\ Blank'
  BY <1>0 DEF Asked, Greeted, Welcomed, Moded, Answered, Blank
<1>4. peer = "open" /\ sock => Playing'
  <2> SUFFICES ASSUME peer = "open", sock PROVE Playing'
    OBVIOUS
  <2> DEFINE line == Head(inHand)
  <2>0. outbound' = Append(outbound, line) /\ phase' = phase /\ line \in CmdLine
    BY <1>0, <1>1
  <2>1. Playing /\ pc \in Loop /\ outbound \in Seq(Atom)
    BY <1>0 DEF Shaking, Loop, TypeOK, LinkTypeOK
  <2> HIDE DEF line
  <2>2. CASE phase = "game" /\ outbound \in Seq(CmdLine)
    <3>1. outbound' \in Seq(CmdLine)  BY <2>0, <2>2, AppendProperties
    <3> QED  BY <2>0, <2>2, <3>1 DEF Playing
  <2>3. CASE /\ phase = "ready2" /\ outbound # << >> /\ Head(outbound) = Ready
             /\ Tail(outbound) \in Seq(CmdLine)
    <3>1. /\ Append(outbound, line) # << >> /\ Head(Append(outbound, line)) = Head(outbound)
          /\ Tail(Append(outbound, line)) = Append(Tail(outbound), line)
      BY <2>0, <2>1, <2>3, QueueAppend
    <3>2. Append(Tail(outbound), line) \in Seq(CmdLine)
      BY <2>0, <2>3, AppendProperties
    <3> QED
      BY <2>0, <2>3, <3>1, <3>2 DEF Playing
  <2> QED
    BY <2>1, <2>2, <2>3 DEF Playing
<1> QED
  BY <1>0, <1>2, <1>3, <1>4 DEF Shaking, Over

LEMMA StartShaking ==
  ASSUME TypeOK, InHandOK, Session, TextInv, Reading, CmdLines, Shaking, Start PROVE Shaking'
<1>1. CASE Connect
  <2>1. /\ pc = "connect" /\ pc' = "sendKey"
        /\ UNCHANGED <<peer, phase, inbound, outbound, served, handshake>>
    BY <1>1 DEF Connect, Opened, Goto, textVars
  <2>2. Asked' /\ Greeted' /\ Welcomed' /\ Moded' /\ Answered' /\ Playing'
    BY <2>1 DEF Asked, Greeted, Welcomed, Moded, Answered, Playing, Loop
  <2>3. Blank' /\ ServedBy' = ServedBy
    BY <2>1 DEF Shaking, Blank, ServedBy
  <2> QED
    BY <2>1, <2>2, <2>3 DEF Shaking, Over
<1>2. CASE SendHandshake
  BY <1>2, SendHandshakeShaking
<1>3. CASE ReadHandshake
  BY <1>3, ReadShaking
<1>4. CASE HandshakeEof
  <2>1. peer = "closed" /\ UNCHANGED <<sock, peer>> /\ pc \in {"readSettings", "readMode"}
        /\ pc' = Then[pc]
    BY <1>4 DEF HandshakeEof, AtEof, Goto, linkVars, Awaits
  <2>2. pc' \in {"sendC1", "sendC2"}
    BY <2>1 DEF Then
  <2> QED
    BY <2>1, <2>2 DEF Shaking, Blank, Over
<1>5. CASE EnterGame
  <2>1. /\ pc \in Loop \cup {"handshaken"} /\ pc' \in Loop \cup {"finally"}
        /\ UNCHANGED <<sock, peer, phase, outbound, served>>
    BY <1>5 DEF EnterGame, linkVars, Loop
  <2> QED
    BY <2>1, LoopShaking
<1>6. CASE CheckStop \/ Receive \/ ReceiveTimesOut \/ ReceiveEof \/ DrainDone \/ TakeCommand \/ Pace
  <2>1. pc \in Loop \cup {"handshaken"} /\ pc' \in Loop \cup {"finally"}
    BY <1>6 DEF CheckStop, Receive, ReceiveTimesOut, ReceiveEof, ReceivesNothing, DrainDone,
       TakeCommand, Pace, Goto, Loop
  <2>2. UNCHANGED <<sock, peer, phase, outbound, served>>
    BY <1>6 DEF CheckStop, Receive, ReadChunk, ReceiveTimesOut, ReceiveEof, ReceivesNothing,
       DrainDone, TakeCommand, Pace, linkVars
  <2> QED
    BY <2>1, <2>2, LoopShaking
<1>7. CASE Send
  BY <1>7, SendShaking
<1>8. CASE Raise
  <2>1. UNCHANGED <<sock, peer, phase, outbound, served, handshake>> /\ pc' = "finally"
    BY <1>8 DEF Raise, linkVars, textVars
  <2>2. CASE pc \in Loop
    BY <2>1, <2>2, LoopShaking
  <2>3. CASE pc \notin Loop
    <3>1. pc = "connect" \/ peer # "open"
      BY <1>8, <2>3 DEF Raise, CallRaises, Loop
    <3>2. ~(sock /\ peer = "open")
      BY <3>1 DEF Shaking
    <3>3. Blank' /\ ServedBy' = ServedBy
      BY <2>1 DEF Blank, ServedBy
    <3> QED
      BY <2>1, <3>2, <3>3 DEF Shaking, Over
  <2> QED
    BY <2>2, <2>3
<1>9. CASE Finally
  <2>1. /\ pc' = "returned" /\ UNCHANGED <<peer, phase, outbound, served>>
    BY <1>9 DEF Finally, Closed
  <2>2. ~sock'
    BY <1>9, Zenon DEF Finally, Closed
  <2>3. Blank' /\ ServedBy' = ServedBy
    BY <2>1 DEF Blank, ServedBy
  <2> QED
    BY <2>1, <2>2, <2>3 DEF Shaking
<1> QED
  BY <1>1, <1>2, <1>3, <1>4, <1>5, <1>6, <1>7, <1>8, <1>9 DEF Start

LEMMA ShakingStep ==
  ASSUME TypeOK, InHandOK, Session, TextInv, Reading, CmdLines, Shaking, [Next]_vars PROVE Shaking'
<1>1. CASE Start
  BY <1>1, StartShaking
<1>2. CASE Environment
  BY <1>2, ServerShaking
<1>3. CASE ThreadFinishes \/ AppExits
  <2>1. pc' \in {"finished", "killed"} /\ UNCHANGED <<peer, phase, outbound, served>>
    BY <1>3 DEF ThreadFinishes, AppExits, Closed, Goto, linkVars
  <2>2. ~sock'
    <3>1. CASE ThreadFinishes
      BY <3>1 DEF ThreadFinishes, linkVars, Shaking, Over
    <3>2. CASE AppExits
      BY <3>2, Zenon DEF AppExits, Closed
    <3> QED
      BY <1>3, <3>1, <3>2
  <2>3. Blank' /\ ServedBy' = ServedBy
    BY <2>1 DEF Blank, ServedBy
  <2> QED
    BY <2>1, <2>2, <2>3 DEF Shaking
<1>4. CASE OnData \/ OnError \/ OnConnectionClosed \/ CloseEventReturns \/ User \/ Tick \/ UNCHANGED vars
  <2>1. UNCHANGED <<sock, peer, phase, outbound, served, pc, handshake>>
    BY <1>4 DEF OnData, OnError, OnConnectionClosed, CloseEvent, CloseEventReturns, User,
       OnReturnPressed, UserCloses, Tick, vars, workerVars, linkVars, textVars
  <2> QED
    BY <2>1 DEF Shaking, Blank, ServedBy, Asked, Greeted, Welcomed, Moded, Answered, Playing
<1> QED
  BY <1>1, <1>2, <1>3, <1>4 DEF Next, Thread, Gui, Exited

-------------------------------------------------------------------------------
(* The theorems. *)
Inv == PaneInv /\ Pacer /\ Join /\ CmdLines /\ Shaking

LEMMA InitInv == ASSUME Init PROVE Inv
<1>1. PaneInv
  BY InitPane
<1>2. ~sock
  BY Zenon DEF Init, LinkInit
<1>3. /\ pc = "connect" /\ inHand = << >> /\ outgoing = << >> /\ typed = << >>
      /\ handshake = << >> /\ window = "open" /\ sinceSend = MinInterval /\ wireGap = MinInterval
      /\ phase = "key" /\ outbound = << >> /\ served = << >>
  BY DEF Init, WorkerInit, LinkInit
<1>4. Pacer /\ Join
  BY <1>3 DEF Pacer, Join
<1>5. CmdLines
  <2>1. << >> \in Seq(CmdLine)  OBVIOUS
  <2> QED  BY <1>3, <2>1 DEF CmdLines
<1>6. Shaking
  BY <1>2, <1>3 DEF Shaking, Blank, ServedBy
<1> QED
  BY <1>1, <1>4, <1>5, <1>6 DEF Inv

LEMMA InvStep == ASSUME Inv, [Next]_vars PROVE Inv'
<1>1. TypeOK /\ InHandOK /\ TextInv /\ Session /\ Reading
  BY DEF Inv, PaneInv
<1>2. PaneInv'
  BY PaneStep DEF Inv
<1> QED
  BY <1>1, <1>2, PacerStep, JoinStep, CmdLinesStep, ShakingStep DEF Inv

\* Where both sides are in the handshake, when the last command was sent and how
\* long the worker still needs, at every moment of a session.
THEOREM Invariance == Spec => []Inv
  BY InitInv, InvStep, PTL DEF Spec

LEMMA InStepFromInv == ASSUME Inv PROVE HandshakeInStep
<1> SUFFICES ASSUME sock, peer = "open", outbound # << >>
             PROVE  \/ phase = "game" /\ Head(outbound)[1] = "cmd"
                    \/ phase \in DOMAIN Expects /\ Head(outbound) = Expects[phase]
  BY DEF HandshakeInStep
<1>0. Asked /\ Greeted /\ Welcomed /\ Answered /\ Moded /\ Playing
  BY DEF Inv, Shaking
<1>1. pc \in {"sendIdent", "readSettings", "sendC1", "readMode", "sendC2"}
             \cup Loop \cup {"handshaken", "finally"}
  <2>1. pc \in Positions /\ pc \notin {"connect", "sendKey"} \cup Over
    BY DEF Inv, PaneInv, TypeOK, WorkerTypeOK, Shaking
  <2> QED
    BY <2>1 DEF Positions, HandshakeLine, Awaits, Loop, Over
<1>2. CASE pc = "sendIdent"
  BY <1>0, <1>2, Follows, LineLists DEF Asked
<1>3. CASE pc = "readSettings"
  BY <1>0, <1>3, Follows, LineLists DEF Greeted
<1>4. CASE pc \in {"sendC1", "sendC2"}
  BY <1>0, <1>4 DEF Welcomed, Moded
<1>5. CASE pc = "readMode"
  BY <1>0, <1>5, Follows, LineLists DEF Answered
<1>6. CASE pc \in Loop \cup {"handshaken", "finally"}
  <2>1. CASE phase = "game" /\ outbound \in Seq(CmdLine)
    <3>1. Head(outbound) \in CmdLine  BY <2>1, HeadTailProperties
    <3> QED  BY <2>1, <3>1 DEF CmdLine
  <2>2. CASE phase = "ready2" /\ Head(outbound) = Ready
    BY <2>2, Follows
  <2> QED
    BY <1>0, <1>6, <2>1, <2>2 DEF Playing
<1> QED
  BY <1>1, <1>2, <1>3, <1>4, <1>5, <1>6

\* While it has not closed, the server never finds a line it does not expect,
\* however the client's reads cut the text it waits for: until EOF each <c> is
\* sent only after its marker was read.
THEOREM HandshakeIsInStep == Spec => []HandshakeInStep
<1>1. Inv => HandshakeInStep
  BY InStepFromInv
<1> QED
  BY <1>1, Invariance, PTL

\* Two commands are never closer on the wire than the pacing interval, however
\* long each send took.
THEOREM CommandsArePaced == Spec => Pacing
<1>1. Inv /\ [Next]_vars => [sent' # sent => wireGap = MinInterval]_vars
  BY PacingStep DEF Inv
<1> QED
  BY <1>1, Invariance, PTL DEF Spec, Pacing

\* Closing the window on a live session waits long enough for the worker when
\* the queue fits the wait, for every pacing, poll timeout and wait.
THEOREM JoinIsInTime == Spec => []JoinInTime
<1>1. Inv => JoinInTime
  BY DEF Inv, Join, InTime, JoinInTime
<1> QED
  BY <1>1, Invariance, PTL
===============================================================================
