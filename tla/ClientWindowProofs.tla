-------------------------- MODULE ClientWindowProofs --------------------------
(***************************************************************************)
(* Theorems about ClientWindow for every value of its constants.           *)
(***************************************************************************)
EXTENDS ClientWindow, SequenceTheorems, TLAPS

USE ServedAssumption, TimesAssumption, WindowAssumption

-------------------------------------------------------------------------------
(* Type correctness. *)
LEMMA InitTypeOK == ASSUME Init PROVE TypeOK
<1>1. LinkTypeOK
  <2>1. sock \in BOOLEAN  BY Zenon DEF Init, LinkInit
  <2> QED  BY <2>1 DEF Init, LinkInit, LinkTypeOK, After
<1>2. WorkerTypeOK
  <2>1. connected \in BOOLEAN /\ stopRequested \in BOOLEAN  BY Zenon DEF Init, WorkerInit
  <2> QED  BY <2>1 DEF Init, WorkerInit, WorkerTypeOK, Positions
<1>3. WindowTypeOK
  <2>1. quitRequested \in BOOLEAN  BY Zenon DEF Init
  <2> QED  BY <2>1 DEF Init, WindowTypeOK, Unknown
<1> QED
  BY <1>1, <1>2, <1>3 DEF TypeOK

LEMMA LinesAndTexts == /\ \A p \in DOMAIN HandshakeLine : HandshakeLine[p] \in Atom
                       /\ \A p \in DOMAIN Announces : Announces[p] \in Seq(Atom)
<1>1. Key \in Atom /\ Ident \in Atom /\ Ready \in Atom
  BY DEF Key, Ident, Ready, Atom
<1>2. ModeTag \in Seq(Atom) /\ SettingsInfo \in Seq(Atom)
  BY DEF ModeTag, SettingsInfo, Atom
<1> QED
  BY <1>1, <1>2 DEF HandshakeLine, Announces

LEMMA PhaseFollows ==
  \A p \in DOMAIN Expects \cup DOMAIN Announces : After[p] \in DOMAIN After \cup {"game"}
  BY DEF Expects, Announces, After

HandshakePositions == DOMAIN HandshakeLine \cup DOMAIN Awaits

LEMMA HandshakeOrder ==
  /\ HandshakePositions = {"sendKey", "sendIdent", "readSettings", "sendC1", "readMode", "sendC2"}
  /\ \A p \in HandshakePositions : Then[p] \in HandshakePositions \cup {"handshaken"}
  /\ HandshakePositions \cup {"handshaken"} \subseteq Positions
  BY DEF HandshakePositions, HandshakeLine, Awaits, Then, Positions

LEMMA ServerTypeOK == ASSUME LinkTypeOK, Server PROVE LinkTypeOK'
<1> USE DEF LinkTypeOK
<1>1. CASE ServerAccepts
  BY <1>1, PhaseFollows DEF ServerAccepts
<1>2. CASE ServerAnnounces
  BY <1>2, PhaseFollows, LinesAndTexts DEF ServerAnnounces, Arrives
<1>3. CASE ServerHears
  BY <1>3 DEF ServerHears
<1>4. CASE ServerWrites
  <2>1. <<Text(Len(served))>> \in Seq(Atom)  BY DEF Text, Atom
  <2> QED  BY <1>4, <2>1 DEF ServerWrites, Arrives
<1>5. CASE ServerRefuses
  <2>1. <<Refusal>> \in Seq(Atom)  BY DEF Refusal, Atom
  <2> QED  BY <1>5, <2>1 DEF ServerRefuses, Arrives
<1>6. CASE ServerCloses
  BY <1>6 DEF ServerCloses
<1>7. CASE ConnectionResets
  BY <1>7 DEF ConnectionResets
<1> QED
  BY <1>1, <1>2, <1>3, <1>4, <1>5, <1>6, <1>7 DEF Server

\* Cutting a sequence gives two whose concatenation it is.
LEMMA Cut ==
  ASSUME NEW S, NEW s \in Seq(S), NEW n \in 0..Len(s)
  PROVE  /\ SubSeq(s, 1, n) \in Seq(S)
         /\ SubSeq(s, n + 1, Len(s)) \in Seq(S)
         /\ SubSeq(s, 1, n) \o SubSeq(s, n + 1, Len(s)) = s
<1>0. Len(s) \in Nat /\ n \in Nat /\ n <= Len(s) /\ \A i \in 1..Len(s) : s[i] \in S
  BY ElementOfSeq, LenProperties
<1>1. SubSeq(s, 1, n) \in Seq(S)
  <2>1. \A i \in 1..n : s[i] \in S  BY <1>0
  <2> QED  BY <1>0, <2>1, SubSeqProperties
<1>2. SubSeq(s, n + 1, Len(s)) \in Seq(S)
  <2>1. \A i \in n + 1..Len(s) : s[i] \in S  BY <1>0
  <2> QED  BY <1>0, <2>1, SubSeqProperties
<1>3. SubSeq(s, 1, n) \o SubSeq(s, n + 1, Len(s)) = SubSeq(s, 1, Len(s))
  <2>1. 1 \in 1..Len(s) + 1 /\ n \in 1 - 1..Len(s) /\ Len(s) \in n..Len(s)  BY <1>0
  <2> QED  BY <2>1, ConcatAdjacentSubSeq
<1> QED
  BY <1>1, <1>2, <1>3, SubSeqFull

SignalSet == [kind: {"data", "error", "closed"}, text: Seq(Atom)]

LEMMA SignalTypes == /\ \A text \in Seq(Atom) : DataSignals(text) \in Seq(SignalSet)
                     /\ Signal("error", << >>) \in SignalSet
                     /\ IfConnected \in Seq(SignalSet)
<1>1. \A text \in Seq(Atom), kind \in {"data", "error", "closed"} :
        Signal(kind, text) \in SignalSet
  BY DEF Signal, SignalSet
<1>2. Signal("error", << >>) \in SignalSet /\ Signal("closed", << >>) \in SignalSet
  <2>1. << >> \in Seq(Atom)  OBVIOUS
  <2> QED  BY <1>1, <2>1
<1>3. ASSUME NEW text \in Seq(Atom) PROVE DataSignals(text) \in Seq(SignalSet)
  <2>1. Signal("data", text) \in SignalSet  BY <1>1
  <2>2. <<Signal("data", text)>> \in Seq(SignalSet)  BY <2>1
  <2> QED  BY <2>2 DEF DataSignals
<1>4. IfConnected \in Seq(SignalSet)
  BY <1>2 DEF IfConnected
<1> QED
  BY <1>2, <1>3, <1>4

LEMMA ReleaseTypes ==
  ASSUME WorkerTypeOK, NEW all \in Seq(Atom), Release(all)
  PROVE  held' \in Seq(Atom) /\ emitted' \in Seq(Atom) /\ signals' \in Seq(SignalSet)
<1> PICK n \in 0..Len(all) : /\ held' = SubSeq(all, n + 1, Len(all))
                             /\ emitted' = emitted \o SubSeq(all, 1, n)
                             /\ signals' = signals \o DataSignals(SubSeq(all, 1, n))
  BY DEF Release
<1>1. SubSeq(all, 1, n) \in Seq(Atom) /\ SubSeq(all, n + 1, Len(all)) \in Seq(Atom)
  BY Cut
<1>2. DataSignals(SubSeq(all, 1, n)) \in Seq(SignalSet)
  BY <1>1, SignalTypes
<1> QED
  BY <1>1, <1>2 DEF WorkerTypeOK, SignalSet

LEMMA ReadTypes ==
  ASSUME LinkTypeOK, NEW n \in 1..Len(inbound), ReadChunk(n)
  PROVE  LinkTypeOK' /\ Chunk(n) \in Seq(Atom) /\ inbound = Chunk(n) \o inbound'
<1>1. inbound \in Seq(Atom) /\ n \in 0..Len(inbound)
  BY DEF LinkTypeOK
<1>2. Chunk(n) \in Seq(Atom) /\ inbound' \in Seq(Atom) /\ inbound = Chunk(n) \o inbound'
  BY <1>1, Cut DEF ReadChunk, Chunk
<1> QED
  BY <1>2 DEF ReadChunk, LinkTypeOK

LEMMA SendTypes ==
  ASSUME LinkTypeOK, NEW line \in Atom, SendLine(line) PROVE LinkTypeOK'
  BY DEF LinkTypeOK, SendLine

\* Where a command is paced or sent, there is one; elsewhere in the loop none.
InHandOK == /\ pc \in {"pace", "send"} => inHand # << >>
            /\ pc \in {"pace", "send", "finally", "returned", "finished", "killed"}
               \/ inHand = << >>

\* The steps of start(), and of the thread that runs it, keep the types.
LEMMA StartTypeOK == ASSUME TypeOK, InHandOK, Start PROVE LinkTypeOK' /\ WorkerTypeOK'
<1> USE DEF TypeOK, WorkerTypeOK
<1> SUFFICES ASSUME LinkTypeOK, WorkerTypeOK PROVE LinkTypeOK' /\ WorkerTypeOK'
  OBVIOUS
<1>a. UNCHANGED linkVars => LinkTypeOK'
  BY DEF linkVars, LinkTypeOK
<1>b. \A p : p \in {"sendKey", "check", "recv", "drain", "pace", "send", "finally", "returned"}
               => p \in Positions
  BY DEF Positions, HandshakeLine
<1>c. SignalSet = [kind: {"data", "error", "closed"}, text: Seq(Atom)]
  BY DEF SignalSet
<1>1. CASE Connect
  <2>1. sock' \in BOOLEAN  BY <1>1, Zenon DEF Connect, Opened
  <2> QED  BY <1>1, <2>1, <1>b DEF Connect, Opened, LinkTypeOK, Goto, flagVars, textVars, queueVars
<1>2. CASE SendHandshake
  <2>1. HandshakeLine[pc] \in Atom /\ Then[pc] \in Positions
    BY <1>2, LinesAndTexts, HandshakeOrder DEF SendHandshake, HandshakePositions
  <2> QED  BY <1>2, <2>1, SendTypes DEF SendHandshake, Goto, flagVars, textVars, queueVars
<1>3. CASE ReadHandshake
  <2> PICK n \in 1..Len(inbound) :
         /\ ReadChunk(n)
         /\ \/ /\ BufferPlus(accumulated \o Chunk(n)) /\ Goto(Then[pc])
            \/ accumulated' = accumulated \o Chunk(n) /\ UNCHANGED handshake /\ Goto(pc)
    BY <1>3 DEF ReadHandshake
  <2>1. LinkTypeOK' /\ accumulated \o Chunk(n) \in Seq(Atom)
    BY ReadTypes
  <2>2. Then[pc] \in Positions
    BY <1>3, HandshakeOrder DEF ReadHandshake, HandshakePositions
  <2>3. handshake \o (accumulated \o Chunk(n)) \in Seq(Atom)
    BY <2>1
  <2>4. handshake' \in Seq(Atom) /\ accumulated' \in Seq(Atom)
    <3>1. CASE BufferPlus(accumulated \o Chunk(n))
      BY <2>3, <3>1 DEF BufferPlus
    <3>2. CASE accumulated' = accumulated \o Chunk(n) /\ UNCHANGED handshake
      BY <2>1, <3>2
    <3> QED
      BY <3>1, <3>2
  <2> QED
    BY <1>3, <2>1, <2>2, <2>4 DEF ReadHandshake, Goto, flagVars, queueVars
<1>4. CASE HandshakeEof
  <2>1. Then[pc] \in Positions
    BY <1>4, HandshakeOrder DEF HandshakeEof, HandshakePositions
  <2> QED
    BY <1>4, <2>1, <1>a DEF HandshakeEof, BufferPlus, Goto, flagVars, queueVars
<1>5. CASE EnterGame
  <2>0. held \o handshake \in Seq(Atom)
    OBVIOUS
  <2>1. held' \in Seq(Atom) /\ emitted' \in Seq(Atom) /\ signals' \in Seq(SignalSet)
    BY <1>5, <2>0, ReleaseTypes DEF EnterGame, Feed
  <2>2. connected' \in BOOLEAN  BY <1>5, Zenon DEF EnterGame
  <2> QED
    BY <1>5, <2>1, <2>2, <1>a, <1>b, <1>c DEF EnterGame, queueVars
<1>6. CASE CheckStop
  BY <1>6, <1>a, <1>b DEF CheckStop, StartTimer, Goto, flagVars, textVars, queueVars
<1>7. CASE Receive
  <2> PICK n \in 1..Len(inbound) : ReadChunk(n) /\ Feed(Chunk(n))
    BY <1>7 DEF Receive
  <2>1. LinkTypeOK' /\ held \o Chunk(n) \in Seq(Atom)
    BY ReadTypes
  <2>2. held' \in Seq(Atom) /\ emitted' \in Seq(Atom) /\ signals' \in Seq(SignalSet)
    BY <2>1, ReleaseTypes DEF Feed
  <2> QED
    BY <1>7, <2>1, <2>2, <1>b, <1>c DEF Receive, flagVars, queueVars
<1>8. CASE ReceiveTimesOut \/ ReceiveEof
  BY <1>8, <1>a, <1>b DEF ReceiveTimesOut, ReceiveEof, ReceivesNothing, Goto, flagVars, textVars, queueVars
<1>9. CASE DrainDone
  BY <1>9, <1>a, <1>b DEF DrainDone, Goto, flagVars, textVars, queueVars
<1>10. CASE TakeCommand
  <2>1. <<Head(outgoing)>> \in Seq(Atom) /\ Tail(outgoing) \in Seq(Atom)
    BY <1>10 DEF TakeCommand
  <2> QED
    BY <1>10, <2>1, <1>a, <1>b DEF TakeCommand, GetNowait, Goto, flagVars, textVars
<1>11. CASE Pace
  BY <1>11, <1>a, <1>b DEF Pace, StartTimer, flagVars, textVars, queueVars
<1>12. CASE Send
  <2>1. Head(inHand) \in Atom /\ LinkTypeOK'
    BY <1>12, SendTypes DEF Send, InHandOK
  <2> QED
    BY <1>12, <2>1, <1>b DEF Send, Stamp, Goto, flagVars, textVars
<1>13. CASE Raise
  BY <1>13, SignalTypes, <1>a, <1>b, <1>c DEF Raise, flagVars, textVars, queueVars
<1>14. CASE Finally
  <2>1. FinalSignals \in Seq(SignalSet)  BY SignalTypes DEF FinalSignals
  <2>2. sock' \in BOOLEAN  BY <1>14, Zenon DEF Finally, Closed
  <2>3. LinkTypeOK'  BY <1>14, <2>2 DEF Finally, Closed, LinkTypeOK
  <2> QED
    BY <1>14, <2>1, <2>3, <1>b, <1>c DEF Finally, flagVars, queueVars
<1> QED
  BY <1>1, <1>2, <1>3, <1>4, <1>5, <1>6, <1>7, <1>8, <1>9, <1>10, <1>11, <1>12, <1>13, <1>14
     DEF Start

LEMMA InHandStep == ASSUME TypeOK, InHandOK, Next PROVE InHandOK'
<1> USE DEF InHandOK
<1>1. ASSUME UNCHANGED <<pc, inHand>> PROVE InHandOK'
  BY <1>1
<1>2. CASE Start
  <2>1. CASE TakeCommand
    BY <2>1 DEF TakeCommand, GetNowait, Goto
  <2>5. CASE Pace
    BY <2>5 DEF Pace, queueVars
  <2>2. CASE Send \/ Raise \/ Finally
    BY <2>2 DEF Send, Raise, CallRaises, Finally, queueVars, Goto
  <2>3. CASE CheckStop \/ ReceiveTimesOut \/ ReceiveEof \/ DrainDone \/ Receive \/ EnterGame
    BY <2>3 DEF CheckStop, ReceiveTimesOut, ReceiveEof, ReceivesNothing, DrainDone, Receive,
                EnterGame, queueVars, Goto
  <2>4. CASE Connect \/ SendHandshake \/ ReadHandshake \/ HandshakeEof
    <3>1. pc = "connect" \/ pc \in HandshakePositions
      BY <2>4 DEF Connect, SendHandshake, ReadHandshake, HandshakeEof, HandshakePositions
    <3>2. inHand = << >>
      BY <3>1, HandshakeOrder
    <3>3. UNCHANGED inHand
      BY <2>4 DEF Connect, SendHandshake, ReadHandshake, HandshakeEof, queueVars
    <3>4. CASE Connect
      BY <3>2, <3>3, <3>4 DEF Connect, Goto
    <3>5. CASE SendHandshake \/ ReadHandshake \/ HandshakeEof
      <4>1. pc \in HandshakePositions /\ pc' \in {pc, Then[pc]}
        BY <3>5 DEF SendHandshake, ReadHandshake, HandshakeEof, Goto, HandshakePositions
      <4> QED
        BY <3>2, <3>3, <4>1, HandshakeOrder
    <3> QED
      BY <2>4, <3>4, <3>5
  <2> QED
    BY <1>2, <2>1, <2>2, <2>3, <2>4, <2>5 DEF Start
<1>3. CASE Gui
  BY <1>1, <1>3 DEF Gui, OnData, OnError, OnConnectionClosed, CloseEventReturns, AppExits,
     CloseEvent, workerVars, queueVars
<1>4. CASE ThreadFinishes \/ Environment \/ User \/ Tick \/ Exited
  BY <1>1, <1>4 DEF ThreadFinishes, Goto, Environment, User, OnReturnPressed, UserCloses,
     CloseEvent, Tick, Exited, vars, workerVars, queueVars
<1> QED
  BY <1>2, <1>3, <1>4 DEF Next, Thread

\* The window's steps, the thread's end and the clock keep the types.
LEMMA WindowTypes ==
  ASSUME TypeOK, Gui \/ User \/ ThreadFinishes \/ Tick PROVE TypeOK'
<1> USE DEF TypeOK
<1>a. UNCHANGED linkVars => LinkTypeOK'
  BY DEF linkVars, LinkTypeOK
<1>b. UNCHANGED workerVars => WorkerTypeOK'
  BY DEF workerVars, flagVars, textVars, queueVars, WorkerTypeOK
<1>c. CloseEvent /\ shown' \in Seq(Atom) /\ notices' \in Seq({"error", "closed"})
        /\ signals' \in Seq(SignalSet) => TypeOK'
  BY <1>a DEF CloseEvent, Stop, Unknown, WorkerTypeOK, WindowTypeOK, textVars, queueVars, SignalSet
<1>d. ASSUME NEW kind, Delivers(kind)
      PROVE  signals' \in Seq(SignalSet) /\ Head(signals).text \in Seq(Atom)
  <2>1. signals \in Seq(SignalSet) /\ signals # << >> /\ signals' = Tail(signals)
    BY <1>d DEF Delivers, WorkerTypeOK, SignalSet
  <2>2. Head(signals) \in SignalSet /\ Tail(signals) \in Seq(SignalSet)
    BY <2>1, HeadTailProperties
  <2> QED
    BY <2>1, <2>2 DEF SignalSet
<1>1. CASE OnData
  <2>1. shown \o Head(signals).text \in Seq(Atom)  BY <1>1, <1>d DEF OnData, WindowTypeOK
  <2> QED
    BY <1>1, <2>1, <1>a, <1>d DEF OnData, WorkerTypeOK, WindowTypeOK, SignalSet, flagVars, textVars, queueVars, joinVars
<1>2. CASE OnError
  <2>1. Append(notices, "error") \in Seq({"error", "closed"})  BY DEF WindowTypeOK
  <2> QED
    BY <1>2, <2>1, <1>a, <1>d DEF OnError, WorkerTypeOK, WindowTypeOK, SignalSet, flagVars, textVars, queueVars, joinVars
<1>3. CASE OnConnectionClosed
  <2>1. Append(notices, "closed") \in Seq({"error", "closed"})  BY DEF WindowTypeOK
  <2> QED
    BY <1>3, <2>1, <1>c, <1>d DEF OnConnectionClosed, WindowTypeOK
<1>4. CASE CloseEventReturns
  BY <1>4, <1>a, <1>b DEF CloseEventReturns, WindowTypeOK, joinVars
<1>5. CASE AppExits
  <2>1. sock' \in BOOLEAN  BY <1>5, Zenon DEF AppExits, Closed
  <2>2. LinkTypeOK'  BY <1>5, <2>1 DEF AppExits, Closed, LinkTypeOK
  <2>3. pc' \in Positions  BY <1>5 DEF AppExits, WorkerTypeOK, Positions
  <2> QED
    BY <1>5, <2>2, <2>3 DEF AppExits, WorkerTypeOK, WindowTypeOK, flagVars, textVars, queueVars, joinVars
<1>6. CASE OnReturnPressed
  <2>1. Cmd(Len(typed) + 1) \in Atom  BY DEF WindowTypeOK, Cmd, Atom
  <2> QED
    BY <1>6, <2>1, <1>a DEF OnReturnPressed, QueueLine, WorkerTypeOK, WindowTypeOK, flagVars, textVars, joinVars
<1>7. CASE UserCloses
  BY <1>7, <1>c DEF UserCloses, WorkerTypeOK, WindowTypeOK, SignalSet
<1>8. CASE ThreadFinishes
  BY <1>8, <1>a DEF ThreadFinishes, Goto, WorkerTypeOK, WindowTypeOK, Positions, flagVars, textVars,
     queueVars, windowVars, joinVars
<1>9. CASE Tick
  BY <1>9, <1>a DEF Tick, Minus1, Capped, Joining, WorkerTypeOK, WindowTypeOK, flagVars, textVars
<1> QED
  BY <1>1, <1>2, <1>3, <1>4, <1>5, <1>6, <1>7, <1>8, <1>9 DEF Gui, User

LEMMA StepTypeOK == ASSUME TypeOK, InHandOK, [Next]_vars PROVE (TypeOK /\ InHandOK)'
<1>1. CASE Start /\ UNCHANGED windowVars
  <2>1. LinkTypeOK' /\ WorkerTypeOK'  BY <1>1, StartTypeOK
  <2>2. WindowTypeOK'  BY <1>1 DEF TypeOK, WindowTypeOK, windowVars, joinVars
  <2> QED  BY <1>1, <2>1, <2>2, InHandStep DEF TypeOK, Next, Thread
<1>2. CASE Gui \/ User \/ ThreadFinishes \/ Tick
  BY <1>2, WindowTypes, InHandStep DEF Next, Thread
<1>3. CASE Environment
  <2>1. LinkTypeOK'  BY <1>3, ServerTypeOK DEF Environment, TypeOK
  <2>2. WorkerTypeOK' /\ WindowTypeOK'
    BY <1>3 DEF Environment, TypeOK, WorkerTypeOK, WindowTypeOK, workerVars, flagVars, textVars,
       queueVars, windowVars, joinVars
  <2> QED  BY <1>3, <2>1, <2>2, InHandStep DEF TypeOK, Next
<1>4. CASE UNCHANGED vars
  BY <1>4 DEF vars, linkVars, workerVars, flagVars, textVars, queueVars, windowVars, joinVars,
     TypeOK, LinkTypeOK, WorkerTypeOK, WindowTypeOK, InHandOK
<1> QED
  BY <1>1, <1>2, <1>3, <1>4 DEF Next, Thread, Exited

\* Every variable keeps its type, and the worker holds a command exactly where
\* _drain_outgoing is about to send it.
THEOREM TypeCorrect == Spec => [](TypeOK /\ InHandOK)
<1>1. Init => TypeOK /\ InHandOK
  BY InitTypeOK DEF InHandOK, Init, WorkerInit
<1>2. TypeOK /\ InHandOK /\ [Next]_vars => (TypeOK /\ InHandOK)'
  BY StepTypeOK
<1> QED
  BY <1>1, <1>2, PTL DEF Spec

-------------------------------------------------------------------------------
(* Sequences of atoms. *)
LEMMA Closed2 == \A s, t \in Seq(Atom) : s \o t \in Seq(Atom)
  BY ConcatProperties

LEMMA Assoc == \A s, t, u \in Seq(Atom) : (s \o t) \o u = s \o (t \o u)
  BY ConcatAssociative

LEMMA Empty == \A s \in Seq(Atom) : s \o << >> = s /\ << >> \o s = s
  BY ConcatEmptySeq

\* Longer regroupings go through a name for \o: the provers then use these
\* facts alone, and none of what they know of sequences.
Cat(s, t) == s \o t

LEMMA CatClosed == \A s, t \in Seq(Atom) : Cat(s, t) \in Seq(Atom)
  BY Closed2 DEF Cat

LEMMA CatAssoc == \A s, t, u \in Seq(Atom) : Cat(Cat(s, t), u) = Cat(s, Cat(t, u))
  BY Assoc DEF Cat

LEMMA AppendOne ==
  \A s \in Seq(Atom), e \in Atom : Append(s, e) = s \o <<e>> /\ <<e>> \in Seq(Atom)
  BY AppendIsConcat

LEMMA HeadTail ==
  \A s \in Seq(Atom) : s # << >> => /\ <<Head(s)>> \in Seq(Atom) /\ Tail(s) \in Seq(Atom)
                                   /\ <<Head(s)>> \o Tail(s) = s
  OBVIOUS

-------------------------------------------------------------------------------
(* Commands. *)

\* The three steps that move a command; every other one leaves all of them alone.
LEMMA CommandSteps ==
  ASSUME [Next]_vars
  PROVE  \/ OnReturnPressed
         \/ (TakeCommand \/ Send) /\ UNCHANGED typed
         \/ UNCHANGED <<typed, sent, inHand, outgoing>>
<1>1. CASE Start /\ UNCHANGED windowVars
  BY <1>1 DEF Start, Connect, SendHandshake, ReadHandshake, HandshakeEof, EnterGame, CheckStop,
     Receive, ReceiveTimesOut, ReceiveEof, ReceivesNothing, DrainDone, Pace, Raise, Finally,
     queueVars, windowVars
<1>2. CASE Gui \/ ThreadFinishes \/ Environment \/ User \/ Tick
  BY <1>2 DEF Gui, OnData, OnError, OnConnectionClosed, CloseEvent, CloseEventReturns, AppExits,
     ThreadFinishes, Environment, User, UserCloses, Tick, workerVars, queueVars, windowVars
<1>3. CASE UNCHANGED vars
  BY <1>3 DEF vars, workerVars, queueVars, windowVars
<1> QED
  BY <1>1, <1>2, <1>3 DEF Next, Thread, Exited

LEMMA CommandsKeptStep ==
  ASSUME TypeOK, InHandOK, CommandsKept, [Next]_vars PROVE CommandsKept'
<1>0. /\ typed \in Seq(Atom) /\ sent \in Seq(Atom)
      /\ inHand \in Seq(Atom) /\ outgoing \in Seq(Atom)
  BY DEF TypeOK, WorkerTypeOK, WindowTypeOK
<1>1. CASE OnReturnPressed
  <2> DEFINE cmd == Cmd(Len(typed) + 1)
  <2>1. cmd \in Atom
    BY <1>0 DEF Cmd, Atom
  <2>2. /\ typed' = Append(typed, cmd) /\ outgoing' = Append(outgoing, cmd)
        /\ UNCHANGED <<sent, inHand>>
    BY <1>1 DEF OnReturnPressed, QueueLine
  <2> HIDE DEF cmd
  <2>3. /\ typed' = typed \o <<cmd>> /\ outgoing' = outgoing \o <<cmd>>
        /\ <<cmd>> \in Seq(Atom) /\ UNCHANGED <<sent, inHand>>
    BY <1>0, <2>1, <2>2, AppendOne
  <2>4. ((sent \o inHand) \o outgoing) \o <<cmd>> = (sent \o inHand) \o (outgoing \o <<cmd>>)
    BY <1>0, <2>3, Closed2, Assoc, Empty
  <2> QED
    BY <2>3, <2>4 DEF CommandsKept
<1>2. CASE TakeCommand /\ UNCHANGED typed
  <2>1. inHand = << >> /\ outgoing # << >>
    BY <1>2 DEF TakeCommand, InHandOK
  <2>2. /\ inHand' = <<Head(outgoing)>> /\ outgoing' = Tail(outgoing)
        /\ UNCHANGED <<typed, sent>>
    BY <1>2 DEF TakeCommand, GetNowait
  <2> DEFINE first == <<Head(outgoing)>>
             rest == Tail(outgoing)
  <2>3. first \in Seq(Atom) /\ rest \in Seq(Atom)
    BY <1>0, <2>1, HeadTail
  <2>6. first \o rest = outgoing
    BY <1>0, <2>1, HeadTail
  <2> HIDE DEF first, rest
  <2>4. (sent \o first) \o rest = sent \o outgoing
    <3>1. (sent \o first) \o rest = sent \o (first \o rest)  BY <1>0, <2>3, Closed2, Assoc, Empty
    <3> QED  BY <2>6, <3>1
  <2>5. sent \o inHand = sent
    <3>1. sent \o << >> = sent  BY <1>0, Closed2, Assoc, Empty
    <3> QED  BY <2>1, <3>1
  <2> QED
    BY <2>2, <2>4, <2>5 DEF CommandsKept, first, rest
<1>3. CASE Send /\ UNCHANGED typed
  <2>1. sent' = sent \o inHand /\ inHand' = << >> /\ UNCHANGED <<typed, outgoing>>
    BY <1>3 DEF Send
  <2>2. (sent \o inHand) \o << >> = sent \o inHand
    BY <1>0, Closed2, Assoc, Empty
  <2> QED
    BY <2>1, <2>2 DEF CommandsKept
<1>4. CASE UNCHANGED <<typed, sent, inHand, outgoing>>
  BY <1>4 DEF CommandsKept
<1> QED
  BY <1>1, <1>2, <1>3, <1>4, CommandSteps

\* No command is lost, repeated or overtaken between the input box and the
\* socket, for any number of commands, pacing and timeouts.
THEOREM CommandsAreKept == Spec => []CommandsKept
<1>1. Init => CommandsKept
  BY DEF Init, WorkerInit, CommandsKept
<1>2. TypeOK /\ InHandOK /\ CommandsKept /\ [Next]_vars => CommandsKept'
  BY CommandsKeptStep
<1> QED
  BY <1>1, <1>2, TypeCorrect, PTL DEF Spec

LEMMA PrefixOfConcat ==
  ASSUME NEW s \in Seq(Atom), NEW t \in Seq(Atom) PROVE IsPrefix(s, s \o t)
<1>1. Len(s) \in Nat /\ Len(s \o t) = Len(s) + Len(t) /\ Len(t) \in Nat
  BY ConcatProperties, LenProperties
<1>2. SubSeq(s \o t, 1, Len(s)) = SubSeq(s, 1, Len(s))
  <2>1. CASE Len(s) = 0
    BY <2>1, SubSeqEmpty
  <2>2. CASE Len(s) > 0
    <3>1. 1 \in 1..Len(s) /\ Len(s) \in 1..Len(s)  BY <1>1, <2>2
    <3> QED  BY <3>1, SubSeqOfConcat1
  <2> QED
    BY <1>1, <2>1, <2>2
<1> QED
  BY <1>1, <1>2 DEF IsPrefix

LEMMA CommandsFifoStep ==
  ASSUME TypeOK, CommandsKept, [Next]_vars PROVE [Commands!Next]_<<typed, sent>>
<1>0. /\ typed \in Seq(Atom) /\ sent \in Seq(Atom)
      /\ inHand \in Seq(Atom) /\ outgoing \in Seq(Atom)
  BY DEF TypeOK, WorkerTypeOK, WindowTypeOK
<1>1. CASE OnReturnPressed
  <2>1. Cmd(Len(typed) + 1) \in Atom  BY <1>0 DEF Cmd, Atom
  <2>2. typed' = typed \o <<Cmd(Len(typed) + 1)>> /\ UNCHANGED sent
    BY <1>0, <1>1, <2>1, AppendOne DEF OnReturnPressed
  <2> QED
    <3>1. <<Cmd(Len(typed) + 1)>> \in Seq(Atom)  BY <2>1
    <3>2. IsPrefix(typed, typed \o <<Cmd(Len(typed) + 1)>>)  BY <1>0, <3>1, PrefixOfConcat
    <3> QED  BY <2>2, <3>2 DEF Commands!Next, Commands!Put, Commands!IsPrefix, IsPrefix
<1>2. CASE Send /\ UNCHANGED typed
  <2>1. sent' = sent \o inHand /\ UNCHANGED typed
    BY <1>2 DEF Send
  <2>2. IsPrefix(sent, sent')
    BY <1>0, <2>1, PrefixOfConcat
  <2>3. sent \o inHand \in Seq(Atom)
    BY <1>0, Closed2, Assoc, Empty
  <2>4. IsPrefix(sent', typed)
    <3>1. IsPrefix(sent \o inHand, (sent \o inHand) \o outgoing)
      BY <1>0, <2>3, PrefixOfConcat
    <3> QED
      BY <2>1, <3>1 DEF CommandsKept
  <2> QED
    BY <2>1, <2>2, <2>4 DEF Commands!Next, Commands!Take, Commands!IsPrefix, IsPrefix
<1>3. CASE (TakeCommand /\ UNCHANGED typed) \/ UNCHANGED <<typed, sent, inHand, outgoing>>
  BY <1>3 DEF TakeCommand
<1> QED
  BY <1>1, <1>2, <1>3, CommandSteps

\* From the input box to the socket, rift-client implements a FIFO link.
THEOREM CommandsImplementFifo == Spec => CommandsAreFifo
<1>1. Init => Commands!Init
  BY DEF Init, WorkerInit, Commands!Init
<1>2. TypeOK /\ CommandsKept /\ [Next]_vars => [Commands!Next]_<<typed, sent>>
  BY CommandsFifoStep
<1> QED
  BY <1>1, <1>2, TypeCorrect, CommandsAreKept, PTL DEF Spec, CommandsAreFifo, Commands!Spec

-------------------------------------------------------------------------------
(* Text. *)

\* Until it enters the game the worker has emitted nothing: what the server
\* sent is in the two buffers of the handshake or unread.
Clear == pc \in (HandshakePositions \ DOMAIN Awaits) \cup {"handshaken"} => accumulated = << >>
BeforeGame ==
  pc \in HandshakePositions \cup {"handshaken"} =>
    /\ ~connected /\ held = << >> /\ emitted = << >>
    /\ peer # "reset" => served = handshake \o (accumulated \o inbound)
BeforeConnect ==
  pc = "connect" => /\ ~sock /\ ~connected
                    /\ served = << >> /\ inbound = << >> /\ handshake = << >>
                    /\ accumulated = << >> /\ held = << >> /\ emitted = << >>
TextInv == Clear /\ BeforeGame /\ BeforeConnect /\ TextKept

\* A command of the client that leaves the text alone.
LEMMA SameText ==
  ASSUME TextInv, UNCHANGED <<textVars, inbound, served, connected, peer>>,
         sock' => sock, pc' # "connect",
         pc' = pc \/ pc' \notin HandshakePositions \cup {"handshaken"}
  PROVE  TextInv'
<1>1. Clear' /\ BeforeGame' /\ BeforeConnect'
  BY DEF TextInv, Clear, BeforeGame, BeforeConnect, textVars
<1>2. TextKept'
  BY DEF TextInv, TextKept, textVars
<1> QED
  BY <1>1, <1>2 DEF TextInv

LEMMA ServerText == ASSUME TypeOK, TextInv, Environment PROVE TextInv'
<1>0. UNCHANGED <<textVars, connected, pc, sock>> /\ sock
  BY DEF Environment, workerVars, flagVars, Server, ServerAccepts, ServerAnnounces, ServerHears,
     ServerWrites, ServerRefuses, ServerCloses, ConnectionResets, Serving
<1>1. CASE ConnectionResets
  BY <1>0, <1>1 DEF ConnectionResets, TextInv, Clear, BeforeGame, BeforeConnect, TextKept, textVars
<1>2. CASE UNCHANGED <<inbound, served>> /\ peer # "reset"
  BY <1>0, <1>2 DEF TextInv, Clear, BeforeGame, BeforeConnect, TextKept, textVars
<1>3. ASSUME NEW text \in Seq(Atom), Arrives(text), peer # "reset" PROVE TextInv'
  <2>0. inbound' = inbound \o text /\ served' = served \o text
    BY <1>3 DEF Arrives
  <2>1. /\ handshake \in Seq(Atom) /\ accumulated \in Seq(Atom) /\ inbound \in Seq(Atom)
        /\ emitted \in Seq(Atom) /\ held \in Seq(Atom)
    BY DEF TypeOK, LinkTypeOK, WorkerTypeOK
  <2>2. text \in Seq(Atom)
    BY <1>3
  <2>3. (handshake \o (accumulated \o inbound)) \o text = handshake \o (accumulated \o (inbound \o text))
    <3>1. Cat(Cat(handshake, Cat(accumulated, inbound)), text)
            = Cat(handshake, Cat(accumulated, Cat(inbound, text)))
      BY <2>1, <2>2, CatClosed, CatAssoc
    <3> QED  BY <3>1 DEF Cat
  <2>4. (emitted \o held \o inbound) \o text = emitted \o held \o (inbound \o text)
    <3>1. Cat(Cat(Cat(emitted, held), inbound), text) = Cat(Cat(emitted, held), Cat(inbound, text))
      BY <2>1, <2>2, CatClosed, CatAssoc
    <3> QED  BY <3>1 DEF Cat
  <2> QED
    BY <1>0, <1>3, <2>0, <2>3, <2>4 DEF TextInv, Clear, BeforeGame, BeforeConnect, TextKept, textVars
<1>4. CASE ServerAnnounces
  BY <1>3, <1>4, LinesAndTexts DEF ServerAnnounces, Serving
<1>5. CASE ServerWrites
  <2>1. <<Text(Len(served))>> \in Seq(Atom)  BY DEF Text, Atom, TypeOK, LinkTypeOK
  <2> QED  BY <1>3, <1>5, <2>1 DEF ServerWrites, Serving
<1>6. CASE ServerRefuses
  <2>1. <<Refusal>> \in Seq(Atom)  BY DEF Refusal, Atom
  <2> QED  BY <1>3, <1>6, <2>1 DEF ServerRefuses, Serving
<1>7. CASE ServerAccepts \/ ServerHears \/ ServerCloses
  BY <1>2, <1>7 DEF ServerAccepts, ServerHears, ServerCloses, Serving
<1> QED
  BY <1>1, <1>4, <1>5, <1>6, <1>7 DEF Environment, Server

\* Reading moves text from the receive buffer into the handshake's.
LEMMA ReadHandshakeText ==
  ASSUME TypeOK, TextInv, pc \in DOMAIN Awaits, pc' \in {pc, Then[pc]},
         UNCHANGED <<connected, held, emitted, sock, peer, served>>,
         NEW text \in Seq(Atom), inbound = text \o inbound', inbound' \in Seq(Atom),
         \/ handshake' = handshake \o (accumulated \o text) /\ accumulated' = << >>
         \/ handshake' = handshake /\ accumulated' = accumulated \o text /\ pc' = pc
  PROVE  TextInv'
<1>1. handshake \in Seq(Atom) /\ accumulated \in Seq(Atom)
  BY DEF TypeOK, WorkerTypeOK
<1>2. handshake \o (accumulated \o inbound) = handshake' \o (accumulated' \o inbound')
  <2>1. CASE handshake' = handshake \o (accumulated \o text) /\ accumulated' = << >>
    <3>1. Cat(handshake, Cat(accumulated, Cat(text, inbound')))
            = Cat(Cat(handshake, Cat(accumulated, text)), inbound')
      BY <1>1, CatClosed, CatAssoc
    <3>2. << >> \o inbound' = inbound'
      BY Empty
    <3> QED
      BY <2>1, <3>1, <3>2 DEF Cat
  <2>2. CASE handshake' = handshake /\ accumulated' = accumulated \o text
    <3>1. Cat(handshake, Cat(accumulated, Cat(text, inbound')))
            = Cat(handshake, Cat(Cat(accumulated, text), inbound'))
      BY <1>1, CatClosed, CatAssoc
    <3> QED
      BY <2>2, <3>1 DEF Cat
  <2> QED
    BY <2>1, <2>2
<1>3. pc \in HandshakePositions /\ pc' \in HandshakePositions \cup {"handshaken"} /\ pc' # "connect"
  BY HandshakeOrder DEF HandshakePositions
<1>4. ~connected /\ held = << >> /\ emitted = << >>
  BY <1>3 DEF TextInv, BeforeGame
<1>5. BeforeGame'
  BY <1>2, <1>3, <1>4 DEF TextInv, BeforeGame
<1>6. Clear'
  <2>1. CASE accumulated' = << >>
    BY <2>1 DEF Clear
  <2>2. CASE pc' = pc
    <3>1. pc # "handshaken"  BY DEF Awaits
    <3> QED  BY <2>2, <3>1 DEF Clear
  <2> QED
    BY <2>1, <2>2
<1> QED
  BY <1>3, <1>4, <1>5, <1>6 DEF TextInv, BeforeConnect, TextKept

\* Feeding the filter splits what it held and the new text into a part emitted
\* and a part held, in this order.
LEMMA ReleaseText ==
  ASSUME WorkerTypeOK, NEW all \in Seq(Atom), Release(all)
  PROVE  \E out \in Seq(Atom) : emitted' = emitted \o out /\ out \o held' = all
<1> PICK n \in 0..Len(all) : /\ held' = SubSeq(all, n + 1, Len(all))
                             /\ emitted' = emitted \o SubSeq(all, 1, n)
  BY DEF Release
<1>1. /\ SubSeq(all, 1, n) \in Seq(Atom)
      /\ SubSeq(all, 1, n) \o SubSeq(all, n + 1, Len(all)) = all
  BY Cut
<1> QED
  BY <1>1

LEMMA ReceiveText == ASSUME TypeOK, TextInv, Receive PROVE TextInv'
<1> PICK n \in 1..Len(inbound) : ReadChunk(n) /\ Feed(Chunk(n))
  BY DEF Receive
<1> DEFINE chunk == Chunk(n)
<1>1. /\ chunk \in Seq(Atom) /\ inbound = chunk \o inbound'
      /\ LinkTypeOK'
  BY ReadTypes DEF TypeOK
<1>2. held \in Seq(Atom) /\ emitted \in Seq(Atom) /\ WorkerTypeOK /\ inbound' \in Seq(Atom)
  BY <1>1 DEF TypeOK, WorkerTypeOK, LinkTypeOK
<1>3. Release(held \o chunk) /\ held \o chunk \in Seq(Atom)
  BY <1>1, <1>2, Closed2 DEF Feed
<1> HIDE DEF chunk
<1>4. held' \in Seq(Atom)
  BY <1>2, <1>3, ReleaseTypes
<1> PICK out \in Seq(Atom) : emitted' = emitted \o out /\ out \o held' = held \o chunk
  BY <1>2, <1>3, ReleaseText
<1>5. emitted \o held \o inbound = emitted' \o held' \o inbound'
  <2>1. Cat(Cat(emitted, held), Cat(chunk, inbound')) = Cat(emitted, Cat(Cat(held, chunk), inbound'))
    BY <1>1, <1>2, CatClosed, CatAssoc
  <2>2. Cat(Cat(Cat(emitted, out), held'), inbound') = Cat(emitted, Cat(Cat(out, held'), inbound'))
    BY <1>2, <1>4, CatClosed, CatAssoc
  <2> QED
    BY <1>1, <2>1, <2>2 DEF Cat
<1>6. /\ pc' = "drain" /\ UNCHANGED <<sock, connected, peer, served>>
      /\ pc' \notin HandshakePositions \cup {"handshaken", "connect"}
  BY HandshakeOrder DEF Receive, ReadChunk, flagVars
<1> QED
  BY <1>5, <1>6 DEF TextInv, Clear, BeforeGame, BeforeConnect, TextKept

LEMMA StartText == ASSUME TypeOK, TextInv, Start PROVE TextInv'
<1>1. CASE Connect
  <2>1. /\ pc = "connect" /\ pc' = "sendKey"
        /\ UNCHANGED <<textVars, inbound, served, connected, peer>>
    BY <1>1 DEF Connect, Opened, Goto, flagVars
  <2>2. "sendKey" \in HandshakePositions  BY HandshakeOrder
  <2> QED
    BY <2>1, <2>2, Empty DEF TextInv, Clear, BeforeGame, BeforeConnect, TextKept, textVars
<1>2. CASE SendHandshake
  <2>1. /\ pc \in HandshakePositions \ DOMAIN Awaits
        /\ pc' \in HandshakePositions \cup {"handshaken"} /\ pc' # "connect"
        /\ UNCHANGED <<textVars, inbound, served, connected, peer>>
    BY <1>2, HandshakeOrder DEF SendHandshake, SendLine, Goto, flagVars, HandshakePositions,
       HandshakeLine, Awaits
  <2> QED
    BY <2>1 DEF TextInv, Clear, BeforeGame, BeforeConnect, TextKept, textVars
<1>3. CASE ReadHandshake
  <2> PICK n \in 1..Len(inbound) :
         /\ ReadChunk(n)
         /\ \/ BufferPlus(accumulated \o Chunk(n)) /\ Goto(Then[pc])
            \/ accumulated' = accumulated \o Chunk(n) /\ UNCHANGED handshake /\ Goto(pc)
    BY <1>3 DEF ReadHandshake
  <2>1. LinkTypeOK' /\ Chunk(n) \in Seq(Atom) /\ inbound = Chunk(n) \o inbound'
    BY ReadTypes DEF TypeOK
  <2>2. /\ pc \in DOMAIN Awaits /\ pc' \in {pc, Then[pc]} /\ inbound' \in Seq(Atom)
        /\ UNCHANGED <<connected, held, emitted, sock, peer, served>>
    BY <1>3, <2>1 DEF ReadHandshake, ReadChunk, Goto, flagVars, LinkTypeOK
  <2>3. \/ handshake' = handshake \o (accumulated \o Chunk(n)) /\ accumulated' = << >>
        \/ handshake' = handshake /\ accumulated' = accumulated \o Chunk(n) /\ pc' = pc
    BY DEF BufferPlus, Goto
  <2> QED
    BY <2>1, <2>2, <2>3, ReadHandshakeText
<1>4. CASE HandshakeEof
  <2>1. /\ pc \in DOMAIN Awaits /\ pc' \in {pc, Then[pc]} /\ inbound = << >> /\ inbound' = << >>
        /\ UNCHANGED <<connected, held, emitted, sock, peer, served>>
        /\ handshake' = handshake \o accumulated /\ accumulated' = << >>
    BY <1>4 DEF HandshakeEof, AtEof, BufferPlus, Goto, flagVars, linkVars
  <2>2. << >> \in Seq(Atom) /\ inbound = << >> \o inbound' /\ accumulated = accumulated \o << >>
    BY <2>1, Empty DEF TypeOK, WorkerTypeOK
  <2> QED
    BY <2>1, <2>2, ReadHandshakeText
<1>5. CASE EnterGame
  <2>1. /\ pc = "handshaken" /\ pc' = "check" /\ Release(held \o handshake)
        /\ UNCHANGED <<inbound, served, peer, sock>>
    BY <1>5 DEF EnterGame, Feed, linkVars
  <2>2. /\ accumulated = << >> /\ held = << >> /\ emitted = << >>
        /\ peer # "reset" => served = handshake \o (accumulated \o inbound)
    BY <2>1 DEF TextInv, Clear, BeforeGame
  <2>3. handshake \in Seq(Atom) /\ inbound \in Seq(Atom) /\ WorkerTypeOK
    BY DEF TypeOK, LinkTypeOK, WorkerTypeOK
  <2>4. held \o handshake = handshake /\ accumulated \o inbound = inbound
    BY <2>2, <2>3, Empty
  <2> PICK out \in Seq(Atom) : emitted' = emitted \o out /\ out \o held' = handshake
    BY <2>1, <2>3, <2>4, ReleaseText
  <2>5. emitted' = out
    BY <2>2, Empty
  <2>6. pc' \notin HandshakePositions \cup {"handshaken", "connect"}
    BY <2>1, HandshakeOrder
  <2> QED
    BY <2>1, <2>2, <2>4, <2>5, <2>6 DEF TextInv, Clear, BeforeGame, BeforeConnect, TextKept
<1>6. CASE Receive
  BY <1>6, ReceiveText
<1>7. CASE CheckStop \/ ReceiveTimesOut \/ ReceiveEof \/ DrainDone \/ TakeCommand \/ Pace \/ Raise
  <2>1. /\ UNCHANGED <<textVars, inbound, served, connected, peer, sock>>
        /\ pc' \in {"check", "recv", "drain", "pace", "send", "finally"}
    BY <1>7 DEF CheckStop, ReceiveTimesOut, ReceiveEof, ReceivesNothing, DrainDone, TakeCommand, Pace,
       Raise, Goto, flagVars, linkVars
  <2>2. pc' \notin HandshakePositions \cup {"handshaken", "connect"}
    BY <2>1, HandshakeOrder
  <2> QED
    BY <2>1, <2>2, SameText
<1>8. CASE Send
  <2>1. /\ UNCHANGED <<textVars, inbound, served, connected, peer, sock>> /\ pc' = "drain"
    BY <1>8 DEF Send, SendLine, Goto, flagVars
  <2>2. pc' \notin HandshakePositions \cup {"handshaken", "connect"}
    BY <2>1, HandshakeOrder
  <2> QED
    BY <2>1, <2>2, SameText
<1>9. CASE Finally
  <2>1. ~sock' /\ pc' = "returned"
    BY <1>9, Zenon DEF Finally, Closed
  <2>2. pc' \notin HandshakePositions \cup {"handshaken", "connect"}
    BY <2>1, HandshakeOrder
  <2> QED
    BY <2>1, <2>2 DEF TextInv, Clear, BeforeGame, BeforeConnect, TextKept
<1> QED
  BY <1>1, <1>2, <1>3, <1>4, <1>5, <1>6, <1>7, <1>8, <1>9 DEF Start

LEMMA TextStep == ASSUME TypeOK, TextInv, [Next]_vars PROVE TextInv'
<1>1. CASE Start
  BY <1>1, StartText
<1>2. CASE Environment
  BY <1>2, ServerText
<1>3. CASE ThreadFinishes \/ AppExits
  <2>1. /\ UNCHANGED <<textVars, inbound, served, connected, peer>>
        /\ pc' \in {"finished", "killed"}
    BY <1>3 DEF ThreadFinishes, AppExits, Closed, Goto, flagVars, linkVars
  <2>3. sock' => sock
    <3>1. CASE ThreadFinishes
      BY <3>1 DEF ThreadFinishes, linkVars
    <3>2. CASE AppExits
      BY <3>2, Zenon DEF AppExits, Closed
    <3> QED
      BY <1>3, <3>1, <3>2
  <2>2. pc' \notin HandshakePositions \cup {"handshaken", "connect"}
    BY <2>1, HandshakeOrder
  <2> QED
    BY <2>1, <2>2, <2>3, SameText
<1>4. CASE OnData \/ OnError \/ OnConnectionClosed \/ CloseEventReturns \/ User \/ Tick \/ UNCHANGED vars
  <2>1. UNCHANGED <<textVars, linkVars, connected, pc>>
    BY <1>4 DEF OnData, OnError, OnConnectionClosed, CloseEvent, CloseEventReturns, User,
       OnReturnPressed, UserCloses, Tick, flagVars, workerVars, vars
  <2> QED
    BY <2>1 DEF TextInv, Clear, BeforeGame, BeforeConnect, TextKept, textVars, linkVars
<1> QED
  BY <1>1, <1>2, <1>3, <1>4 DEF Next, Thread, Gui, Exited

LEMMA InitText == ASSUME Init PROVE TextInv
<1>1. "connect" \notin HandshakePositions \cup {"handshaken"}  BY HandshakeOrder
<1>2. ~sock /\ ~connected  BY Zenon DEF Init, LinkInit, WorkerInit
<1>3. pc = "connect" /\ served = << >> /\ inbound = << >> /\ handshake = << >>
      /\ accumulated = << >> /\ held = << >> /\ emitted = << >>
  BY DEF Init, LinkInit, WorkerInit
<1> QED
  BY <1>1, <1>2, <1>3 DEF TextInv, Clear, BeforeGame, BeforeConnect, TextKept

\* No text is lost, repeated or reordered from the server to the window, however
\* recv() cuts it and whatever the filter holds back.
THEOREM TextIsKept == Spec => []TextKept
<1>1. Init => TextInv
  BY InitText
<1>2. TypeOK /\ TextInv /\ [Next]_vars => TextInv'
  BY TextStep
<1>3. TextInv => TextKept
  BY DEF TextInv
<1> QED
  BY <1>1, <1>2, <1>3, TypeCorrect, PTL DEF Spec

-------------------------------------------------------------------------------
(* What the window shows and is told: the invariant. *)
Loop == {"check", "recv", "drain", "pace", "send"}
Over == {"returned", "finished", "killed"}

\* The worker is in its loop only in a session, and never in the handshake
\* once there is one; only the end of the process kills it.
Session == /\ pc \in Loop => connected
           /\ connected => pc \in Loop \cup Over \cup {"finally"}
           /\ pc = "killed" => window = "exited"

\* What the server sent is what was read, then what is unread; a reset takes the
\* unread text away, and nothing is read after it.
TextRead == IF connected THEN emitted \o held ELSE handshake \o accumulated
Reading == /\ ~connected => emitted = << >> /\ held = << >>
           /\ peer # "reset" => served = TextRead \o inbound
           /\ peer = "reset" => IsPrefix(TextRead, served) /\ inbound = << >>

\* A queue of signals takes the pane from one text to another: there is a text
\* for each moment in between.
Shows(from, queue, to) ==
  \E pane \in [0..Len(queue) -> Seq(Atom)] :
    /\ pane[0] = from /\ pane[Len(queue)] = to
    /\ \A i \in 1..Len(queue) : pane[i] = pane[i - 1] \o queue[i].text
    /\ \A i \in 0..Len(queue) : IsPrefix(pane[i], to)
Showing == Shows(shown, signals, emitted)

\* The end of a session is announced last, when the worker has nothing left to do
\* and the filter holds nothing back.
Done == pc \in Over /\ connected /\ held = << >>
OnlyDataHasText(queue) == \A i \in 1..Len(queue) : queue[i].kind # "data" => queue[i].text = << >>
Telling == /\ OnlyDataHasText(signals)
           /\ \A i \in 1..Len(signals) : signals[i].kind = "closed" => i = Len(signals) /\ Done
           /\ "closed" \in Range(notices) => signals = << >> /\ Done

-------------------------------------------------------------------------------
(* Where the worker is. *)
LEMMA Positions2 ==
  /\ HandshakePositions \cap (Loop \cup Over \cup {"connect", "handshaken", "finally"}) = {}
  /\ Loop \cap (Over \cup {"connect", "handshaken", "finally"}) = {}
  BY HandshakeOrder DEF Loop, Over

\* Where each step of start() begins and ends.
LEMMA StartMoves ==
  ASSUME Start
  PROVE  \/ Connect /\ pc = "connect" /\ pc' = "sendKey" /\ UNCHANGED connected
         \/ /\ SendHandshake \/ ReadHandshake \/ HandshakeEof
            /\ pc \in HandshakePositions /\ pc' \in HandshakePositions \cup {"handshaken"}
            /\ UNCHANGED connected
         \/ EnterGame /\ pc = "handshaken" /\ pc' = "check" /\ connected'
         \/ /\ CheckStop \/ Receive \/ ReceiveTimesOut \/ ReceiveEof \/ DrainDone \/ TakeCommand
               \/ Pace \/ Send
            /\ pc \in Loop /\ pc' \in Loop \cup {"finally"} /\ UNCHANGED connected
         \/ /\ Raise /\ pc' = "finally" /\ UNCHANGED connected
            /\ pc \in {"connect"} \cup HandshakePositions \cup Loop
         \/ Finally /\ pc = "finally" /\ pc' = "returned" /\ UNCHANGED connected
<1>1. CASE Connect
  BY <1>1 DEF Connect, Goto, flagVars
<1>2. CASE SendHandshake
  BY <1>2, HandshakeOrder DEF SendHandshake, Goto, flagVars, HandshakePositions
<1>3. CASE ReadHandshake
  BY <1>3, HandshakeOrder DEF ReadHandshake, Goto, flagVars, HandshakePositions
<1>4. CASE HandshakeEof
  BY <1>4, HandshakeOrder DEF HandshakeEof, Goto, flagVars, HandshakePositions
<1>5. CASE EnterGame
  <2>1. connected'  BY <1>5, Zenon DEF EnterGame
  <2> QED  BY <1>5, <2>1 DEF EnterGame
<1>6. CASE CheckStop \/ Receive \/ ReceiveTimesOut \/ ReceiveEof
  BY <1>6 DEF CheckStop, Receive, ReceiveTimesOut, ReceiveEof, ReceivesNothing, Goto, flagVars, Loop
<1>7. CASE DrainDone \/ TakeCommand \/ Pace \/ Send
  BY <1>7 DEF DrainDone, TakeCommand, Pace, Send, Goto, flagVars, Loop
<1>8. CASE Raise
  BY <1>8 DEF Raise, CallRaises, flagVars, HandshakePositions, Loop
<1>9. CASE Finally
  BY <1>9 DEF Finally, flagVars
<1> QED
  BY <1>1, <1>2, <1>3, <1>4, <1>5, <1>6, <1>7, <1>8, <1>9 DEF Start

LEMMA SessionStep == ASSUME TypeOK, Session, [Next]_vars PROVE Session'
<1>1. CASE Start /\ UNCHANGED windowVars
  <2>1. UNCHANGED window  BY <1>1 DEF windowVars
  <2>2. pc' # "killed"
    BY <1>1, StartMoves, HandshakeOrder DEF Loop
  <2>3. pc' \in Loop => connected'
    <3>1. "returned" \notin Loop  BY DEF Loop
    <3>2. CASE pc \in Loop /\ UNCHANGED connected
      BY <3>2 DEF Session
    <3>3. CASE pc' \notin Loop \/ connected'
      BY <3>3
    <3>4. (pc \in Loop /\ UNCHANGED connected) \/ pc' \notin Loop \/ connected'
      BY <1>1, StartMoves, Positions2, <3>1, HandshakeOrder DEF Loop
    <3> QED
      BY <3>2, <3>3, <3>4
  <2>4. connected' => pc' \in Loop \cup Over \cup {"finally"}
    <3>1. "check" \in Loop /\ "returned" \in Over  BY DEF Loop, Over
    <3>2. CASE EnterGame /\ pc' = "check"
      BY <3>1, <3>2
    <3>3. CASE pc' \in Loop \cup {"finally"}
      BY <3>3
    <3>4. CASE pc' = "returned"
      BY <3>1, <3>4
    <3>5. CASE pc \in HandshakePositions \cup {"connect"} /\ UNCHANGED connected
      BY <3>5, Positions2 DEF Session, Loop, Over
    <3> QED
      BY <1>1, StartMoves, <3>2, <3>3, <3>4, <3>5
  <2> QED
    BY <2>1, <2>2, <2>3, <2>4 DEF Session
<1>2. CASE ThreadFinishes
  BY <1>2 DEF ThreadFinishes, Goto, flagVars, windowVars, Session, Loop, Over
<1>3. CASE AppExits
  BY <1>3 DEF AppExits, flagVars, Session, Loop, Over
<1>4. CASE CloseEventReturns
  BY <1>4 DEF CloseEventReturns, workerVars, flagVars, Session
<1>5. CASE OnData \/ OnError \/ OnConnectionClosed \/ User
  BY <1>5 DEF OnData, OnError, OnConnectionClosed, Delivers, User, OnReturnPressed, UserCloses,
     CloseEvent, flagVars, Session
<1>6. CASE Environment \/ Tick \/ UNCHANGED vars
  BY <1>6 DEF Environment, Tick, vars, workerVars, flagVars, windowVars, Session
<1> QED
  BY <1>1, <1>2, <1>3, <1>4, <1>5, <1>6 DEF Next, Thread, Gui, Exited

-------------------------------------------------------------------------------
(* What was read. *)
LEMMA PrefixExtends ==
  \A s, t, u \in Seq(Atom) : IsPrefix(s, t) => IsPrefix(s, t \o u)
<1> SUFFICES ASSUME NEW s \in Seq(Atom), NEW t \in Seq(Atom), NEW u \in Seq(Atom), IsPrefix(s, t)
             PROVE  IsPrefix(s, t \o u)
  OBVIOUS
<1>0. Len(s) \in Nat /\ Len(t) \in Nat /\ Len(u) \in Nat /\ Len(t \o u) = Len(t) + Len(u)
  BY ConcatProperties, LenProperties
<1>1. Len(s) <= Len(t) /\ SubSeq(s, 1, Len(s)) = SubSeq(t, 1, Len(s))
  BY DEF IsPrefix
<1>2. SubSeq(t \o u, 1, Len(s)) = SubSeq(t, 1, Len(s))
  <2>1. CASE Len(s) = 0
    BY <2>1, SubSeqEmpty
  <2>2. CASE Len(s) > 0
    <3>1. 1 \in 1..Len(t) /\ Len(s) \in 1..Len(t)  BY <1>0, <1>1, <2>2
    <3> QED  BY <3>1, SubSeqOfConcat1
  <2>3. Len(s) = 0 \/ Len(s) > 0
    BY <1>0
  <2> QED
    BY <2>1, <2>2, <2>3, Zenon
<1> QED
  BY <1>0, <1>1, <1>2 DEF IsPrefix

LEMMA PrefixSelf == \A s \in Seq(Atom) : IsPrefix(s, s)
  BY DEF IsPrefix

\* A step that leaves the text alone.
LEMMA SameReading ==
  ASSUME Reading, UNCHANGED <<textVars, inbound, served, connected, peer>> PROVE Reading'
  BY DEF Reading, TextRead, textVars

LEMMA ReadingTypes ==
  ASSUME TypeOK
  PROVE  /\ handshake \in Seq(Atom) /\ accumulated \in Seq(Atom) /\ emitted \in Seq(Atom)
         /\ held \in Seq(Atom) /\ inbound \in Seq(Atom) /\ served \in Seq(Atom)
         /\ TextRead \in Seq(Atom)
<1>1. /\ handshake \in Seq(Atom) /\ accumulated \in Seq(Atom) /\ emitted \in Seq(Atom)
      /\ held \in Seq(Atom) /\ inbound \in Seq(Atom) /\ served \in Seq(Atom)
  BY DEF TypeOK, LinkTypeOK, WorkerTypeOK
<1> QED
  BY <1>1, Closed2 DEF TextRead

LEMMA ServerReading == ASSUME TypeOK, Reading, Environment PROVE Reading'
<1>0. UNCHANGED <<textVars, connected>> /\ TextRead' = TextRead
  BY DEF Environment, workerVars, flagVars, TextRead, textVars
<1>a. UNCHANGED <<held, emitted>>
  BY <1>0 DEF textVars
<1>1. CASE ConnectionResets
  <2>1. peer # "reset" /\ peer' = "reset" /\ inbound' = << >> /\ served' = served
    BY <1>1 DEF ConnectionResets
  <2>2. IsPrefix(TextRead, TextRead \o inbound)
    BY ReadingTypes, PrefixOfConcat
  <2> QED
    BY <1>0, <1>a, <2>1, <2>2 DEF Reading
<1>2. ASSUME NEW text \in Seq(Atom), Arrives(text), peer # "reset", peer' # "reset" PROVE Reading'
  <2>1. inbound' = inbound \o text /\ served' = served \o text
    BY <1>2 DEF Arrives
  <2>2. (TextRead \o inbound) \o text = TextRead \o (inbound \o text)
    <3>1. Cat(Cat(TextRead, inbound), text) = Cat(TextRead, Cat(inbound, text))
      BY ReadingTypes, CatAssoc
    <3> QED  BY <3>1 DEF Cat
  <2> QED
    BY <1>0, <1>a, <1>2, <2>1, <2>2 DEF Reading
<1>3. CASE ServerAnnounces
  BY <1>2, <1>3, LinesAndTexts DEF ServerAnnounces, Serving
<1>4. CASE ServerWrites
  <2>1. <<Text(Len(served))>> \in Seq(Atom)  BY ReadingTypes DEF Text, Atom
  <2> QED  BY <1>2, <1>4, <2>1 DEF ServerWrites, Serving
<1>5. CASE ServerRefuses
  <2>1. <<Refusal>> \in Seq(Atom)  BY DEF Refusal, Atom
  <2> QED  BY <1>2, <1>5, <2>1 DEF ServerRefuses, Serving
<1>6. CASE ServerAccepts \/ ServerHears \/ ServerCloses
  <2>1. UNCHANGED <<inbound, served>> /\ peer # "reset" /\ peer' # "reset"
    BY <1>6 DEF ServerAccepts, ServerHears, ServerCloses, Serving
  <2> QED
    BY <1>0, <1>a, <2>1 DEF Reading
<1> QED
  BY <1>1, <1>3, <1>4, <1>5, <1>6 DEF Environment, Server

\* Text moves from the receive buffer to the end of what was read.
LEMMA MoreRead ==
  ASSUME TypeOK, Reading, NEW text \in Seq(Atom), inbound = text \o inbound',
         inbound' \in Seq(Atom), UNCHANGED <<served, peer>>, text # << >> => peer # "reset",
         TextRead' = TextRead \o text,
         ~connected' => emitted' = << >> /\ held' = << >>
  PROVE  Reading'
<1>1. CASE peer = "reset"
  <2>1. text = << >> /\ TextRead' = TextRead /\ inbound' = << >>
    <3>1. text = << >> /\ inbound = << >>  BY <1>1 DEF Reading
    <3>2. << >> \o inbound' = inbound'  BY Empty
    <3>3. TextRead \o << >> = TextRead  BY ReadingTypes, Empty
    <3> QED  BY <3>1, <3>2, <3>3
  <2> QED
    BY <1>1, <2>1 DEF Reading
<1>2. CASE peer # "reset"
  <2>1. (TextRead \o text) \o inbound' = TextRead \o (text \o inbound')
    <3>1. Cat(Cat(TextRead, text), inbound') = Cat(TextRead, Cat(text, inbound'))
      BY ReadingTypes, CatAssoc
    <3> QED  BY <3>1 DEF Cat
  <2> QED
    BY <1>2, <2>1 DEF Reading
<1> QED
  BY <1>1, <1>2

LEMMA StartReading == ASSUME TypeOK, Session, TextInv, Reading, Start PROVE Reading'
<1>1. CASE Connect \/ SendHandshake \/ CheckStop \/ ReceiveTimesOut \/ ReceiveEof \/ DrainDone
           \/ TakeCommand \/ Pace \/ Raise \/ Send
  BY <1>1, SameReading DEF Connect, Opened, SendHandshake, SendLine, CheckStop, ReceiveTimesOut,
     ReceiveEof, ReceivesNothing, DrainDone, TakeCommand, Pace, Raise, Send, Goto, flagVars, linkVars
<1>2. CASE ReadHandshake
  <2> PICK n \in 1..Len(inbound) :
         /\ ReadChunk(n)
         /\ \/ BufferPlus(accumulated \o Chunk(n))
            \/ accumulated' = accumulated \o Chunk(n) /\ UNCHANGED handshake
    BY <1>2 DEF ReadHandshake
  <2>0. inbound # << >>  OBVIOUS
  <2> DEFINE text == Chunk(n)
  <2>1. LinkTypeOK' /\ text \in Seq(Atom) /\ inbound = text \o inbound'
    BY ReadTypes DEF TypeOK
  <2>2. inbound' \in Seq(Atom) /\ UNCHANGED <<served, peer>>
    BY <2>1 DEF LinkTypeOK, ReadChunk
  <2>3. \/ handshake' = handshake \o (accumulated \o text) /\ accumulated' = << >>
        \/ handshake' = handshake /\ accumulated' = accumulated \o text
    BY DEF BufferPlus
  <2>4. pc \in HandshakePositions /\ UNCHANGED <<connected, held, emitted>>
    BY <1>2 DEF ReadHandshake, HandshakePositions, Goto, flagVars
  <2>5. ~connected
    BY <2>4, Positions2 DEF TextInv, BeforeGame
  <2> HIDE DEF text
  <2>6. handshake' \o accumulated' = (handshake \o accumulated) \o text
    <3>0. accumulated \o text \in Seq(Atom)
      BY <2>1, ReadingTypes, Closed2
    <3>1. handshake \o (accumulated \o text) = (handshake \o accumulated) \o text
      <4>1. Cat(handshake, Cat(accumulated, text)) = Cat(Cat(handshake, accumulated), text)
        BY <2>1, ReadingTypes, CatAssoc
      <4> QED  BY <4>1 DEF Cat
    <3>2. (handshake \o (accumulated \o text)) \o << >> = handshake \o (accumulated \o text)
      BY <3>0, ReadingTypes, Closed2, Empty
    <3> QED
      BY <2>3, <3>1, <3>2
  <2>7. TextRead' = TextRead \o text
    BY <2>4, <2>5, <2>6 DEF TextRead
  <2>8. emitted' = << >> /\ held' = << >>
    BY <2>4, <2>5 DEF Reading
  <2> QED
    BY <2>0, <2>1, <2>2, <2>7, <2>8, MoreRead DEF Reading
<1>3. CASE HandshakeEof
  <2>1. /\ UNCHANGED <<connected, held, emitted, served, inbound, peer>>
        /\ handshake' = handshake \o accumulated /\ accumulated' = << >>
    BY <1>3 DEF HandshakeEof, BufferPlus, Goto, flagVars, linkVars
  <2>2. pc \in HandshakePositions
    BY <1>3 DEF HandshakeEof, HandshakePositions
  <2>3. ~connected
    BY <2>2, Positions2 DEF TextInv, BeforeGame
  <2>4. (handshake \o accumulated) \o << >> = handshake \o accumulated
    BY ReadingTypes, Closed2, Empty
  <2> QED
    BY <2>1, <2>3, <2>4 DEF Reading, TextRead
<1>4. CASE EnterGame
  <2>1. /\ pc = "handshaken" /\ Release(held \o handshake)
        /\ UNCHANGED <<inbound, served, peer>>
    BY <1>4 DEF EnterGame, Feed, linkVars
  <2>2. connected'  BY <1>4, Zenon DEF EnterGame
  <2>3. ~connected /\ accumulated = << >> /\ held = << >> /\ emitted = << >>
    BY <2>1 DEF TextInv, Clear, BeforeGame
  <2>4. held \o handshake = handshake /\ handshake \o accumulated = handshake /\ handshake \in Seq(Atom)
    BY <2>3, ReadingTypes, Empty
  <2> PICK out \in Seq(Atom) : emitted' = emitted \o out /\ out \o held' = handshake
    BY <2>1, <2>4, ReleaseText DEF TypeOK
  <2>5. emitted' = out
    BY <2>3, Empty
  <2>6. TextRead' = handshake /\ TextRead = handshake
    BY <2>2, <2>3, <2>4, <2>5 DEF TextRead
  <2> QED
    BY <2>1, <2>2, <2>6 DEF Reading
<1>5. CASE Receive
  <2> PICK n \in 1..Len(inbound) : ReadChunk(n) /\ Feed(Chunk(n))
    BY <1>5 DEF Receive
  <2>0. inbound # << >>  OBVIOUS
  <2> DEFINE chunk == Chunk(n)
  <2>1. /\ chunk \in Seq(Atom) /\ inbound = chunk \o inbound' /\ LinkTypeOK'
    BY ReadTypes DEF TypeOK
  <2>2. inbound' \in Seq(Atom) /\ UNCHANGED <<served, peer>>
    BY <2>1 DEF LinkTypeOK, ReadChunk
  <2>3. connected /\ UNCHANGED connected
    BY <1>5 DEF Receive, Session, Loop, flagVars
  <2>4. Release(held \o chunk) /\ held \o chunk \in Seq(Atom) /\ WorkerTypeOK
    BY <2>1, ReadingTypes, Closed2 DEF Feed, TypeOK
  <2> HIDE DEF chunk
  <2>5. held' \in Seq(Atom)
    BY <2>4, ReleaseTypes
  <2> PICK out \in Seq(Atom) : emitted' = emitted \o out /\ out \o held' = held \o chunk
    BY <2>4, ReleaseText
  <2>6. (emitted \o out) \o held' = (emitted \o held) \o chunk
    <3>1. Cat(Cat(emitted, out), held') = Cat(emitted, Cat(out, held'))
      BY <2>5, ReadingTypes, CatAssoc
    <3>2. Cat(Cat(emitted, held), chunk) = Cat(emitted, Cat(held, chunk))
      BY <2>1, ReadingTypes, CatAssoc
    <3> QED
      BY <3>1, <3>2 DEF Cat
  <2>7. TextRead' = TextRead \o chunk
    BY <2>3, <2>6 DEF TextRead
  <2> QED
    BY <2>0, <2>1, <2>2, <2>3, <2>7, MoreRead DEF Reading
<1>6. CASE Finally
  <2>1. /\ UNCHANGED <<handshake, accumulated, connected, inbound, served, peer>>
        /\ held' = << >> /\ emitted' = emitted \o held
    BY <1>6 DEF Finally, Closed, flagVars
  <2>2. (emitted \o held) \o << >> = emitted \o held
    BY ReadingTypes, Closed2, Empty
  <2>3. TextRead' = TextRead
    BY <2>1, <2>2 DEF TextRead
  <2>4. ~connected => emitted' = << >>
    <3>1. << >> \o << >> = << >>  BY Empty
    <3> QED  BY <2>1, <3>1 DEF Reading
  <2> QED
    BY <2>1, <2>3, <2>4 DEF Reading
<1> QED
  BY <1>1, <1>2, <1>3, <1>4, <1>5, <1>6 DEF Start

LEMMA ReadingStep == ASSUME TypeOK, Session, TextInv, Reading, [Next]_vars PROVE Reading'
<1>1. CASE Start
  BY <1>1, StartReading
<1>2. CASE Environment
  BY <1>2, ServerReading
<1>3. CASE ThreadFinishes \/ Gui \/ User \/ Tick \/ UNCHANGED vars
  BY <1>3, SameReading DEF ThreadFinishes, Gui, OnData, OnError, OnConnectionClosed, CloseEvent,
     CloseEventReturns, AppExits, Closed, User, OnReturnPressed, UserCloses, Tick, Goto, vars,
     workerVars, flagVars, linkVars
<1> QED
  BY <1>1, <1>2, <1>3 DEF Next, Thread, Exited

-------------------------------------------------------------------------------
(* What is shown. *)
LEMMA QueueOneMore ==
  ASSUME NEW queue \in Seq(SignalSet), NEW sig \in SignalSet
  PROVE  /\ queue \o <<sig>> \in Seq(SignalSet) /\ Len(queue \o <<sig>>) = Len(queue) + 1
         /\ Len(queue) \in Nat
         /\ \A i \in 1..Len(queue) : (queue \o <<sig>>)[i] = queue[i]
         /\ (queue \o <<sig>>)[Len(queue) + 1] = sig
<1>1. <<sig>> \in Seq(SignalSet) /\ Len(<<sig>>) = 1 /\ <<sig>>[1] = sig
  OBVIOUS
<1>2. Len(queue) \in Nat
  BY LenProperties
<1>3. /\ queue \o <<sig>> \in Seq(SignalSet) /\ Len(queue \o <<sig>>) = Len(queue) + 1
      /\ \A i \in 1..Len(queue) + 1 :
           (queue \o <<sig>>)[i] = IF i <= Len(queue) THEN queue[i] ELSE <<sig>>[i - Len(queue)]
  BY <1>1, ConcatProperties
<1>4. \A i \in 1..Len(queue) : i \in 1..Len(queue) + 1 /\ i <= Len(queue)
  BY <1>2
<1>5. /\ Len(queue) + 1 \in 1..Len(queue) + 1 /\ ~(Len(queue) + 1 <= Len(queue))
      /\ Len(queue) + 1 - Len(queue) = 1
  BY <1>2
<1>6. (queue \o <<sig>>)[Len(queue) + 1] = <<sig>>[1]
  BY <1>3, <1>5
<1> QED
  BY <1>1, <1>2, <1>3, <1>4, <1>6

LEMMA ShowsOneMore ==
  ASSUME NEW from \in Seq(Atom), NEW queue \in Seq(SignalSet), NEW to \in Seq(Atom),
         NEW sig \in SignalSet, Shows(from, queue, to)
  PROVE  Shows(from, queue \o <<sig>>, to \o sig.text)
<1> DEFINE n == Len(queue)
           more == queue \o <<sig>>
           end == to \o sig.text
<1>1. /\ n \in Nat /\ Len(more) = n + 1 /\ more[n + 1] = sig
      /\ \A i \in 1..n : more[i] = queue[i]
  BY QueueOneMore
<1>2. sig.text \in Seq(Atom) /\ end \in Seq(Atom)
  <2>1. sig.text \in Seq(Atom)  BY DEF SignalSet
  <2> QED  BY <2>1, Closed2
<1> PICK pane \in [0..n -> Seq(Atom)] :
      /\ pane[0] = from /\ pane[n] = to
      /\ \A i \in 1..n : pane[i] = pane[i - 1] \o queue[i].text
      /\ \A i \in 0..n : IsPrefix(pane[i], to)
  BY DEF Shows
<1> DEFINE next == [i \in 0..n + 1 |-> IF i = n + 1 THEN end ELSE pane[i]]
<1>0. \A i \in 0..n : pane[i] \in Seq(Atom) /\ IsPrefix(pane[i], end)
  BY <1>2, PrefixExtends
<1>a. IsPrefix(end, end)
  BY <1>2, PrefixSelf
<1>b. more[n + 1].text = sig.text
  BY <1>1
<1> HIDE DEF end, more
<1>c. end = pane[n] \o more[n + 1].text
  BY <1>b DEF end
<1> HIDE DEF n
<1>3. /\ \A i \in 0..n : next[i] = pane[i]
      /\ next[n + 1] = end
  BY <1>1
<1>4. next \in [0..n + 1 -> Seq(Atom)]
  <2>1. \A i \in 0..n + 1 : i # n + 1 => i \in 0..n  BY <1>1
  <2> QED  BY <1>0, <1>2, <2>1
<1> HIDE DEF next
<1>5. \A i \in 1..n + 1 : next[i] = next[i - 1] \o more[i].text
  <2> SUFFICES ASSUME NEW i \in 1..n + 1 PROVE next[i] = next[i - 1] \o more[i].text
    OBVIOUS
  <2>1. CASE i = n + 1
    <3>1. n \in 0..n /\ i - 1 = n  BY <1>1, <2>1
    <3>2. next[i - 1] = pane[n]  BY <1>3, <3>1
    <3>3. next[i] = end  BY <1>3, <2>1
    <3> QED  BY <1>c, <2>1, <3>2, <3>3
  <2>2. CASE i # n + 1
    <3>1. i \in 1..n /\ i \in 0..n /\ i - 1 \in 0..n  BY <1>1, <2>2
    <3>2. next[i] = pane[i] /\ next[i - 1] = pane[i - 1] /\ more[i] = queue[i]
      BY <1>1, <1>3, <3>1
    <3>3. pane[i] = pane[i - 1] \o queue[i].text  BY <3>1
    <3> QED  BY <3>2, <3>3
  <2> QED
    BY <2>1, <2>2
<1>6. \A i \in 0..n + 1 : IsPrefix(next[i], end)
  <2>1. \A i \in 0..n + 1 : i # n + 1 => i \in 0..n  BY <1>1
  <2> QED  BY <1>0, <1>a, <1>3, <2>1
<1>7. next[0] = from
  <2>1. 0 \in 0..n  BY <1>1
  <2> QED  BY <1>3, <2>1
<1>8. Shows(from, more, end)
  BY <1>1, <1>3, <1>4, <1>5, <1>6, <1>7 DEF Shows
<1> QED
  BY <1>8 DEF more, end

LEMMA ShowsData ==
  ASSUME NEW from \in Seq(Atom), NEW queue \in Seq(SignalSet), NEW to \in Seq(Atom),
         NEW text \in Seq(Atom), Shows(from, queue, to)
  PROVE  Shows(from, queue \o DataSignals(text), to \o text)
<1>1. CASE text = << >>
  <2>1. to \o << >> = to  BY Empty
  <2>2. queue \o << >> = queue  BY ConcatEmptySeq
  <2> QED  BY <1>1, <2>1, <2>2 DEF DataSignals
<1>2. CASE text # << >>
  <2>1. Signal("data", text) \in SignalSet /\ Signal("data", text).text = text
    BY DEF Signal, SignalSet
  <2>2. DataSignals(text) = <<Signal("data", text)>>
    BY <1>2 DEF DataSignals
  <2> QED
    BY <2>1, <2>2, ShowsOneMore
<1> QED
  BY <1>1, <1>2

LEMMA ShowsBare ==
  ASSUME NEW from \in Seq(Atom), NEW queue \in Seq(SignalSet), NEW to \in Seq(Atom),
         NEW kind \in {"error", "closed"}, Shows(from, queue, to)
  PROVE  Shows(from, queue \o <<Signal(kind, << >>)>>, to)
<1>1. Signal(kind, << >>) \in SignalSet /\ Signal(kind, << >>).text = << >>
  <2>1. << >> \in Seq(Atom)  OBVIOUS
  <2> QED  BY <2>1 DEF Signal, SignalSet
<1>2. to \o << >> = to
  BY Empty
<1> QED
  BY <1>1, <1>2, ShowsOneMore

LEMMA ShowsFirst ==
  ASSUME NEW from \in Seq(Atom), NEW queue \in Seq(SignalSet), NEW to \in Seq(Atom),
         queue # << >>, Shows(from, queue, to)
  PROVE  /\ Shows(from \o Head(queue).text, Tail(queue), to)
         /\ IsPrefix(from \o Head(queue).text, to)
<1> DEFINE n == Len(queue)
           rest == Tail(queue)
<1>1. /\ n \in Nat /\ n >= 1 /\ Len(rest) = n - 1 /\ Head(queue) = queue[1]
      /\ \A i \in 1..n - 1 : rest[i] = queue[i + 1]
  <2>1. n \in Nat /\ n # 0  BY EmptySeq, LenProperties
  <2>2. /\ rest \in Seq(SignalSet) /\ Len(rest) = n - 1 /\ Head(queue) = queue[1]
        /\ \A i \in 1..n - 1 : rest[i] = queue[i + 1]
    BY HeadTailProperties
  <2> QED  BY <2>1, <2>2
<1> PICK pane \in [0..n -> Seq(Atom)] :
      /\ pane[0] = from /\ pane[n] = to
      /\ \A i \in 1..n : pane[i] = pane[i - 1] \o queue[i].text
      /\ \A i \in 0..n : IsPrefix(pane[i], to)
  BY DEF Shows
<1> DEFINE next == [i \in 0..n - 1 |-> pane[i + 1]]
<1> HIDE DEF n, rest
<1>2. from \o Head(queue).text = pane[1] /\ IsPrefix(pane[1], to)
  <2>1. 1 \in 1..n /\ 1 \in 0..n /\ 1 - 1 = 0  BY <1>1
  <2>2. pane[1] = pane[0] \o queue[1].text
    <3>1. pane[1] = pane[1 - 1] \o queue[1].text  BY <2>1
    <3> QED  BY <2>1, <3>1
  <2> QED  BY <1>1, <2>1, <2>2
<1>3. \A i \in 0..n - 1 : i + 1 \in 0..n /\ next[i] = pane[i + 1]
  BY <1>1
<1>4. next \in [0..n - 1 -> Seq(Atom)]
  BY <1>3
<1> HIDE DEF next
<1>5. \A i \in 1..n - 1 : next[i] = next[i - 1] \o rest[i].text
  <2> SUFFICES ASSUME NEW i \in 1..n - 1 PROVE next[i] = next[i - 1] \o rest[i].text
    OBVIOUS
  <2>1. i \in 0..n - 1 /\ i - 1 \in 0..n - 1 /\ i + 1 \in 1..n /\ (i - 1) + 1 = i /\ (i + 1) - 1 = i
    BY <1>1
  <2>2. next[i] = pane[i + 1] /\ next[i - 1] = pane[i]
    BY <1>3, <2>1
  <2>3. pane[i + 1] = pane[i] \o queue[i + 1].text
    <3>1. pane[i + 1] = pane[(i + 1) - 1] \o queue[i + 1].text  BY <2>1
    <3> QED  BY <2>1, <3>1
  <2> QED
    BY <1>1, <2>2, <2>3
<1>6. \A i \in 0..n - 1 : IsPrefix(next[i], to)
  BY <1>3
<1>7. next[0] = pane[1] /\ next[n - 1] = to
  <2>1. 0 \in 0..n - 1 /\ n - 1 \in 0..n - 1 /\ 0 + 1 = 1 /\ (n - 1) + 1 = n  BY <1>1
  <2> QED  BY <1>3, <2>1
<1>8. Shows(pane[1], rest, to)
  BY <1>1, <1>4, <1>5, <1>6, <1>7 DEF Shows
<1> QED
  BY <1>2, <1>8 DEF rest

LEMMA ShowingTypes ==
  ASSUME TypeOK
  PROVE  shown \in Seq(Atom) /\ emitted \in Seq(Atom) /\ signals \in Seq(SignalSet)
  BY DEF TypeOK, WorkerTypeOK, WindowTypeOK, SignalSet

\* What the steps do to the queue of signals.
LEMMA StartSignals ==
  ASSUME TypeOK, Start
  PROVE  \/ UNCHANGED <<signals, emitted>> /\ pc # "finally"
         \/ /\ EnterGame \/ Receive
            /\ \E text \in Seq(Atom) : /\ signals' = signals \o DataSignals(text)
                                       /\ emitted' = emitted \o text
         \/ Raise /\ signals' = signals \o <<Signal("error", << >>)>> /\ UNCHANGED emitted
         \/ /\ Finally /\ signals' = (signals \o DataSignals(held)) \o IfConnected
            /\ emitted' = emitted \o held /\ held' = << >>
<1>1. CASE Connect \/ SendHandshake \/ ReadHandshake \/ HandshakeEof
  <2>1. UNCHANGED <<signals, emitted>>
    BY <1>1 DEF Connect, SendHandshake, ReadHandshake, HandshakeEof, Goto, textVars
  <2>2. pc \in {"connect"} \cup HandshakePositions
    BY <1>1 DEF Connect, SendHandshake, ReadHandshake, HandshakeEof, HandshakePositions
  <2> QED
    BY <2>1, <2>2, HandshakeOrder
<1>2. CASE CheckStop \/ ReceiveTimesOut \/ ReceiveEof \/ DrainDone \/ TakeCommand \/ Pace \/ Send
  BY <1>2 DEF CheckStop, ReceiveTimesOut, ReceiveEof, ReceivesNothing, DrainDone, TakeCommand,
     Pace, Send, Goto, textVars
<1>a. ASSUME NEW all, Release(all), all \in Seq(Atom)
      PROVE  \E text \in Seq(Atom) : /\ signals' = signals \o DataSignals(text)
                                     /\ emitted' = emitted \o text
  <2> PICK n \in 0..Len(all) : /\ emitted' = emitted \o SubSeq(all, 1, n)
                               /\ signals' = signals \o DataSignals(SubSeq(all, 1, n))
    BY <1>a DEF Release
  <2>1. SubSeq(all, 1, n) \in Seq(Atom)
    BY <1>a, Cut
  <2> QED
    BY <2>1
<1>3. CASE EnterGame
  <2>1. held \o handshake \in Seq(Atom)  BY ReadingTypes, Closed2
  <2> QED  BY <1>3, <1>a, <2>1 DEF EnterGame, Feed
<1>4. CASE Receive
  <2> PICK n \in 1..Len(inbound) : ReadChunk(n) /\ Feed(Chunk(n))
    BY <1>4 DEF Receive
  <2>1. Chunk(n) \in Seq(Atom)  BY ReadTypes DEF TypeOK
  <2>2. held \o Chunk(n) \in Seq(Atom)  BY <2>1, ReadingTypes, Closed2
  <2> QED  BY <1>4, <1>a, <2>2 DEF Feed
<1>5. CASE Raise
  <2>1. signals' = Append(signals, Signal("error", << >>)) /\ UNCHANGED emitted
    BY <1>5 DEF Raise, textVars
  <2>2. Signal("error", << >>) \in SignalSet  BY SignalTypes
  <2>3. signals' = signals \o <<Signal("error", << >>)>>
    BY <2>1, <2>2, ShowingTypes, AppendIsConcat
  <2> QED
    BY <1>5, <2>1, <2>3
<1>6. CASE Finally
  <2>1. signals' = signals \o (DataSignals(held) \o IfConnected) /\ emitted' = emitted \o held
        /\ held' = << >>
    BY <1>6 DEF Finally, FinalSignals
  <2>2. DataSignals(held) \in Seq(SignalSet) /\ IfConnected \in Seq(SignalSet)
    BY SignalTypes, ReadingTypes
  <2>3. (signals \o DataSignals(held)) \o IfConnected = signals \o (DataSignals(held) \o IfConnected)
    BY <2>2, ShowingTypes, ConcatAssociative
  <2> QED
    BY <1>6, <2>1, <2>3
<1> QED
  BY <1>1, <1>2, <1>3, <1>4, <1>5, <1>6 DEF Start

LEMMA StartShowing == ASSUME TypeOK, Showing, Start, UNCHANGED shown PROVE Showing'
<1>1. CASE UNCHANGED <<signals, emitted>>
  BY <1>1 DEF Showing
<1>2. ASSUME NEW text \in Seq(Atom), signals' = signals \o DataSignals(text), emitted' = emitted \o text
      PROVE  Showing'
  BY <1>2, ShowingTypes, ShowsData DEF Showing
<1>3. CASE signals' = signals \o <<Signal("error", << >>)>> /\ UNCHANGED emitted
  BY <1>3, ShowingTypes, ShowsBare DEF Showing
<1>4. CASE /\ signals' = (signals \o DataSignals(held)) \o IfConnected
           /\ emitted' = emitted \o held
  <2> DEFINE queue == signals \o DataSignals(held)
             to == emitted \o held
  <2>1. Shows(shown, queue, to)
    BY ShowingTypes, ReadingTypes, ShowsData DEF Showing
  <2>2. queue \in Seq(SignalSet)
    BY ShowingTypes, ReadingTypes, SignalTypes, ConcatProperties
  <2>3. to \in Seq(Atom)
    BY ReadingTypes, Closed2
  <2>4. signals' = queue \o IfConnected /\ emitted' = to
    BY <1>4
  <2> HIDE DEF queue, to
  <2>5. CASE connected
    <3>1. IfConnected = <<Signal("closed", << >>)>>  BY <2>5 DEF IfConnected
    <3>2. Shows(shown, queue \o <<Signal("closed", << >>)>>, to)
      BY <2>1, <2>2, <2>3, ShowingTypes, ShowsBare
    <3> QED
      BY <2>4, <3>1, <3>2 DEF Showing
  <2>6. CASE ~connected
    <3>1. IfConnected = << >>  BY <2>6 DEF IfConnected
    <3>2. queue \o << >> = queue  BY <2>2, ConcatEmptySeq
    <3> QED
      BY <2>1, <2>4, <3>1, <3>2 DEF Showing
  <2> QED
    BY <2>5, <2>6
<1> QED
  BY <1>1, <1>2, <1>3, <1>4, StartSignals

\* A signal is delivered: the pane grows by its text, which for a notice is empty.
LEMMA DeliveryShows ==
  ASSUME TypeOK, Showing, Telling, NEW kind \in {"data", "error", "closed"}, Delivers(kind)
  PROVE  /\ Head(signals) \in SignalSet
         /\ Shows(shown \o Head(signals).text, Tail(signals), emitted)
         /\ IsPrefix(shown \o Head(signals).text, emitted)
         /\ kind # "data" => shown \o Head(signals).text = shown
<1>1. signals # << >> /\ Head(signals).kind = kind
  BY DEF Delivers
<1>2. Head(signals) \in SignalSet /\ Head(signals) = signals[1] /\ 1 \in 1..Len(signals)
  <2>1. signals \in Seq(SignalSet)  BY ShowingTypes
  <2>2. Len(signals) \in Nat /\ Len(signals) # 0  BY <1>1, <2>1, EmptySeq, LenProperties
  <2> QED  BY <1>1, <2>1, <2>2, HeadTailProperties
<1>3. kind # "data" => shown \o Head(signals).text = shown
  <2>1. kind # "data" => Head(signals).text = << >>
    BY <1>1, <1>2 DEF Telling, OnlyDataHasText
  <2>2. shown \o << >> = shown  BY ShowingTypes, Empty
  <2> QED  BY <2>1, <2>2
<1> QED
  BY <1>1, <1>2, <1>3, ShowingTypes, ShowsFirst DEF Showing

LEMMA ShowingStep == ASSUME TypeOK, Showing, Telling, [Next]_vars PROVE Showing'
<1>1. CASE Start /\ UNCHANGED windowVars
  BY <1>1, StartShowing DEF windowVars
<1>2. CASE OnData
  <2>1. Delivers("data") /\ signals' = Tail(signals) /\ shown' = shown \o Head(signals).text
        /\ UNCHANGED emitted
    BY <1>2 DEF OnData, Delivers, textVars
  <2> QED
    BY <2>1, DeliveryShows DEF Showing
<1>3. CASE OnError \/ OnConnectionClosed
  <2>1. /\ Delivers("error") \/ Delivers("closed")
        /\ signals' = Tail(signals) /\ UNCHANGED <<emitted, shown>>
    BY <1>3 DEF OnError, OnConnectionClosed, CloseEvent, Delivers, textVars
  <2>2. Shows(shown, Tail(signals), emitted)
    BY <2>1, DeliveryShows
  <2> QED
    BY <2>1, <2>2 DEF Showing
<1>4. CASE UNCHANGED <<signals, emitted, shown>>
  BY <1>4 DEF Showing
<1>5. CASE ThreadFinishes \/ CloseEventReturns \/ AppExits \/ Environment \/ User \/ Tick \/ UNCHANGED vars
  <2>1. UNCHANGED <<signals, emitted, shown>>
    BY <1>5 DEF ThreadFinishes, CloseEventReturns, AppExits, Environment, User, OnReturnPressed,
       UserCloses, CloseEvent, Tick, Goto, vars, workerVars, textVars, windowVars
  <2> QED
    BY <1>4, <2>1
<1> QED
  BY <1>1, <1>2, <1>3, <1>5 DEF Next, Thread, Gui, Exited

-------------------------------------------------------------------------------
(* What the window is told. *)
NoneClosed(queue) == \A i \in 1..Len(queue) : queue[i].kind # "closed"

\* While the worker is not done, nothing closed the session yet.
LEMMA NotDone ==
  ASSUME Telling, ~Done PROVE NoneClosed(signals) /\ "closed" \notin Range(notices)
  BY DEF Telling, NoneClosed

LEMMA TellingOneMore ==
  ASSUME NEW queue \in Seq(SignalSet), NEW sig \in SignalSet,
         OnlyDataHasText(queue), sig.kind # "data" => sig.text = << >>
  PROVE  /\ OnlyDataHasText(queue \o <<sig>>)
         /\ NoneClosed(queue) /\ sig.kind # "closed" => NoneClosed(queue \o <<sig>>)
         /\ NoneClosed(queue) => \A i \in 1..Len(queue \o <<sig>>) :
              (queue \o <<sig>>)[i].kind = "closed" => i = Len(queue \o <<sig>>)
<1>1. \A i \in 1..Len(queue \o <<sig>>) : i \in 1..Len(queue) \/ i = Len(queue) + 1
  BY QueueOneMore
<1> QED
  BY <1>1, QueueOneMore DEF OnlyDataHasText, NoneClosed

LEMMA TellingData ==
  ASSUME NEW queue \in Seq(SignalSet), NEW text \in Seq(Atom), OnlyDataHasText(queue), NoneClosed(queue)
  PROVE  /\ OnlyDataHasText(queue \o DataSignals(text)) /\ NoneClosed(queue \o DataSignals(text))
         /\ queue \o DataSignals(text) \in Seq(SignalSet)
<1>1. CASE text = << >>
  <2>1. queue \o << >> = queue  BY ConcatEmptySeq
  <2> QED  BY <1>1, <2>1 DEF DataSignals
<1>2. CASE text # << >>
  <2>1. Signal("data", text) \in SignalSet /\ Signal("data", text).kind = "data"
    BY DEF Signal, SignalSet
  <2>2. DataSignals(text) = <<Signal("data", text)>>
    BY <1>2 DEF DataSignals
  <2> QED
    BY <2>1, <2>2, TellingOneMore, QueueOneMore
<1> QED
  BY <1>1, <1>2

LEMMA BareSignals ==
  ASSUME NEW kind \in {"error", "closed"}
  PROVE  /\ Signal(kind, << >>) \in SignalSet
         /\ Signal(kind, << >>).kind = kind /\ Signal(kind, << >>).text = << >>
<1>1. << >> \in Seq(Atom)  OBVIOUS
<1> QED
  BY <1>1 DEF Signal, SignalSet

LEMMA StartTelling == ASSUME TypeOK, Session, Telling, Start, UNCHANGED notices PROVE Telling'
<1>0. ~Done /\ NoneClosed(signals) /\ "closed" \notin Range(notices) /\ OnlyDataHasText(signals)
  <2>1. pc \notin Over
    BY StartMoves, Positions2, HandshakeOrder DEF Over, Loop
  <2> QED
    BY <2>1, NotDone DEF Done, Telling
<1>a. ASSUME OnlyDataHasText(signals'), NoneClosed(signals') PROVE Telling'
  BY <1>0, <1>a DEF Telling, NoneClosed
<1>1. CASE UNCHANGED <<signals, emitted>>
  BY <1>0, <1>1, <1>a
<1>2. ASSUME NEW text \in Seq(Atom), signals' = signals \o DataSignals(text) PROVE Telling'
  BY <1>0, <1>2, <1>a, ShowingTypes, TellingData
<1>3. CASE signals' = signals \o <<Signal("error", << >>)>>
  <2>1. "error" \in {"error", "closed"} /\ "error" # "closed"  OBVIOUS
  <2>2. OnlyDataHasText(signals') /\ NoneClosed(signals')
    BY <1>0, <1>3, <2>1, BareSignals, ShowingTypes, TellingOneMore
  <2> QED
    BY <1>a, <2>2
<1>4. CASE Finally /\ signals' = (signals \o DataSignals(held)) \o IfConnected /\ held' = << >>
  <2> DEFINE queue == signals \o DataSignals(held)
  <2>1. OnlyDataHasText(queue) /\ NoneClosed(queue) /\ queue \in Seq(SignalSet)
    BY <1>0, ShowingTypes, ReadingTypes, TellingData
  <2>2. signals' = queue \o IfConnected /\ held' = << >> /\ pc' = "returned" /\ UNCHANGED connected
    BY <1>4 DEF Finally, flagVars
  <2> HIDE DEF queue
  <2>3. CASE connected
    <3>1. IfConnected = <<Signal("closed", << >>)>>  BY <2>3 DEF IfConnected
    <3>2. Done'  BY <2>2, <2>3 DEF Done, Over
    <3>3. /\ OnlyDataHasText(signals')
          /\ \A i \in 1..Len(signals') : signals'[i].kind = "closed" => i = Len(signals')
      BY <2>1, <2>2, <3>1, BareSignals, TellingOneMore
    <3> QED
      BY <1>0, <3>2, <3>3 DEF Telling
  <2>4. CASE ~connected
    <3>1. IfConnected = << >>  BY <2>4 DEF IfConnected
    <3>2. queue \o << >> = queue  BY <2>1, ConcatEmptySeq
    <3> QED
      BY <1>a, <2>1, <2>2, <3>1, <3>2
  <2> QED
    BY <2>3, <2>4
<1> QED
  BY <1>1, <1>2, <1>3, <1>4, StartSignals

\* One notice more.
LEMMA NoticeOneMore ==
  ASSUME NEW list \in Seq({"error", "closed"}), NEW notice \in {"error", "closed"}
  PROVE  Range(Append(list, notice)) = Range(list) \cup {notice}
<1>1. /\ Len(list) \in Nat /\ DOMAIN list = 1..Len(list)
      /\ DOMAIN Append(list, notice) = 1..Len(list) + 1
      /\ \A i \in 1..Len(list) : Append(list, notice)[i] = list[i]
      /\ Append(list, notice)[Len(list) + 1] = notice
  BY LenProperties, AppendProperties
<1>2. \A i \in 1..Len(list) + 1 : i \in 1..Len(list) \/ i = Len(list) + 1
  BY <1>1
<1>3. \A i \in 1..Len(list) : i \in 1..Len(list) + 1
  BY <1>1
<1>4. Len(list) + 1 \in 1..Len(list) + 1
  BY <1>1
<1> QED
  BY <1>1, <1>2, <1>3, <1>4 DEF Range

LEMMA DeliveryTells ==
  ASSUME TypeOK, Telling, NEW kind \in {"data", "error", "closed"}, Delivers(kind)
  PROVE  /\ "closed" \notin Range(notices)
         /\ OnlyDataHasText(signals')
         /\ \A i \in 1..Len(signals') : signals'[i].kind = "closed" => i = Len(signals') /\ Done
         /\ kind = "closed" => signals' = << >> /\ Done
<1> DEFINE n == Len(signals)
<1>1. /\ signals # << >> /\ Head(signals).kind = kind /\ signals' = Tail(signals)
      /\ signals \in Seq(SignalSet)
  BY ShowingTypes DEF Delivers
<1>2. /\ n \in Nat /\ n >= 1 /\ Len(signals') = n - 1 /\ Head(signals) = signals[1]
      /\ \A i \in 1..n - 1 : signals'[i] = signals[i + 1]
      /\ signals' \in Seq(SignalSet)
  <2>1. n \in Nat /\ n # 0  BY <1>1, EmptySeq, LenProperties
  <2>2. /\ Tail(signals) \in Seq(SignalSet) /\ Len(Tail(signals)) = n - 1 /\ Head(signals) = signals[1]
        /\ \A i \in 1..n - 1 : Tail(signals)[i] = signals[i + 1]
    BY <1>1, HeadTailProperties
  <2> QED  BY <1>1, <2>1, <2>2
<1>3. "closed" \notin Range(notices)
  BY <1>1 DEF Telling
<1>4. /\ \A i \in 1..n : signals[i].kind # "data" => signals[i].text = << >>
      /\ \A i \in 1..n : signals[i].kind = "closed" => i = n /\ Done
  BY DEF Telling, OnlyDataHasText
<1> HIDE DEF n
<1>5. \A i \in 1..n - 1 : i + 1 \in 1..n /\ (i + 1 = n => i = n - 1)
  BY <1>2
<1>6. OnlyDataHasText(signals')
  BY <1>2, <1>4, <1>5 DEF OnlyDataHasText
<1>7. \A i \in 1..Len(signals') : signals'[i].kind = "closed" => i = Len(signals') /\ Done
  BY <1>2, <1>4, <1>5
<1>8. kind = "closed" => signals' = << >> /\ Done
  <2> SUFFICES ASSUME kind = "closed" PROVE signals' = << >> /\ Done
    OBVIOUS
  <2>1. 1 \in 1..n /\ signals[1].kind = "closed"
    BY <1>1, <1>2
  <2>2. 1 = n /\ Done
    BY <1>4, <2>1
  <2>3. Len(signals') = 0
    BY <1>2, <2>2
  <2> QED
    BY <1>2, <2>2, <2>3, EmptySeq
<1> QED
  BY <1>3, <1>6, <1>7, <1>8

LEMMA TellingStep == ASSUME TypeOK, Session, Telling, [Next]_vars PROVE Telling'
<1>1. CASE Start /\ UNCHANGED windowVars
  BY <1>1, StartTelling DEF windowVars
<1>0. notices \in Seq({"error", "closed"})
  BY DEF TypeOK, WindowTypeOK
<1>2. CASE OnData
  <2>1. Delivers("data") /\ UNCHANGED <<notices, pc, connected, held>>
    BY <1>2 DEF OnData, flagVars, textVars
  <2>2. Done' = Done  BY <2>1 DEF Done
  <2> QED
    BY <2>1, <2>2, DeliveryTells DEF Telling
<1>3. CASE OnError
  <2>1. Delivers("error") /\ notices' = Append(notices, "error") /\ UNCHANGED <<pc, connected, held>>
    BY <1>3 DEF OnError, flagVars, textVars
  <2>2. Done' = Done  BY <2>1 DEF Done
  <2>3. Range(notices') = Range(notices) \cup {"error"}
    BY <1>0, <2>1, NoticeOneMore
  <2>4. "closed" \notin Range(notices')
    BY <2>1, <2>3, DeliveryTells
  <2> QED
    BY <2>1, <2>2, <2>4, DeliveryTells DEF Telling
<1>4. CASE OnConnectionClosed
  <2>1. Delivers("closed") /\ UNCHANGED <<pc, connected, held>>
    BY <1>4 DEF OnConnectionClosed, CloseEvent, textVars
  <2>2. Done' = Done  BY <2>1 DEF Done
  <2> QED
    BY <2>1, <2>2, DeliveryTells DEF Telling
<1>5. CASE ThreadFinishes \/ AppExits
  <2>1. UNCHANGED <<signals, notices, connected, held>> /\ pc' \in Over
    BY <1>5 DEF ThreadFinishes, AppExits, Goto, flagVars, textVars, windowVars, Over
  <2>2. Done => Done'  BY <2>1 DEF Done
  <2> QED
    BY <2>1, <2>2 DEF Telling
<1>6. CASE CloseEventReturns \/ Environment \/ User \/ Tick \/ UNCHANGED vars
  <2>1. UNCHANGED <<signals, notices, pc, connected, held>>
    BY <1>6 DEF CloseEventReturns, Environment, User, OnReturnPressed, UserCloses, CloseEvent, Tick,
       vars, workerVars, flagVars, textVars, windowVars
  <2>2. Done' = Done  BY <2>1 DEF Done
  <2> QED
    BY <2>1, <2>2 DEF Telling
<1> QED
  BY <1>1, <1>2, <1>3, <1>4, <1>5, <1>6 DEF Next, Thread, Gui, Exited

-------------------------------------------------------------------------------
(* The theorems. *)
PaneInv == /\ TypeOK /\ InHandOK /\ TextInv
           /\ Session /\ Reading /\ Showing /\ Telling

LEMMA InitPane == ASSUME Init PROVE PaneInv
<1>1. TypeOK /\ TextInv
  BY InitTypeOK, InitText
<1>2. ~connected
  BY Zenon DEF Init, WorkerInit
<1>3. /\ pc = "connect" /\ inHand = << >> /\ signals = << >> /\ emitted = << >> /\ held = << >>
      /\ handshake = << >> /\ accumulated = << >> /\ shown = << >> /\ notices = << >>
      /\ peer = "open" /\ inbound = << >> /\ served = << >>
  BY DEF Init, WorkerInit, LinkInit
<1>4. InHandOK
  BY <1>3 DEF InHandOK
<1>5. Session
  BY <1>2, <1>3 DEF Session, Loop
<1>6. Reading
  BY <1>2, <1>3 DEF Reading, TextRead
<1>7. Showing
  <2>0. << >> \in Seq(Atom)
    OBVIOUS
  <2>1. << >> \in Seq(Atom) /\ IsPrefix(<< >>, << >>)
    BY <2>0, PrefixSelf
  <2>2. Len(signals) = 0  BY <1>3
  <2> DEFINE pane == [i \in 0..0 |-> << >>]
  <2>3. pane \in [0..0 -> Seq(Atom)] /\ \A i \in 0..0 : pane[i] = << >>
    BY <2>1
  <2> HIDE DEF pane
  <2>4. pane[0] = << >> /\ 1..0 = {}
    BY <2>3
  <2>5. Shows(<< >>, signals, << >>)
    BY <2>1, <2>2, <2>3, <2>4 DEF Shows
  <2> QED
    BY <1>3, <2>5 DEF Showing
<1>8. Telling
  <2>1. Range(<< >>) = {}  BY DEF Range
  <2> QED  BY <1>3, <2>1 DEF Telling, OnlyDataHasText
<1> QED
  BY <1>1, <1>4, <1>5, <1>6, <1>7, <1>8 DEF PaneInv

LEMMA PaneStep == ASSUME PaneInv, [Next]_vars PROVE PaneInv'
  BY StepTypeOK, TextStep, SessionStep, ReadingStep, ShowingStep, TellingStep DEF PaneInv

\* What was read, what is shown of it and what the window was told, at every
\* moment of a session.
THEOREM PaneInvariance == Spec => []PaneInv
  BY InitPane, PaneStep, PTL DEF Spec

LEMMA ClosedLastFromInv == ASSUME PaneInv PROVE ClosedNoticeIsLast
<1> SUFFICES ASSUME "closed" \in Range(notices), peer # "reset" PROVE served = shown \o inbound
  BY DEF ClosedNoticeIsLast
<1>1. signals = << >> /\ connected /\ held = << >>
  BY DEF PaneInv, Telling, Done
<1>2. shown = emitted
  BY <1>1 DEF PaneInv, Showing, Shows
<1>3. emitted \o << >> = emitted
  BY ReadingTypes, Empty DEF PaneInv
<1>4. served = TextRead \o inbound /\ TextRead = emitted
  BY <1>1, <1>3 DEF PaneInv, Reading, TextRead
<1> QED
  BY <1>2, <1>4

\* When the window says that the connection is closed it has shown all that was
\* read, for any text, filter and order in which the threads run.
THEOREM ClosedNoticeComesLast == Spec => []ClosedNoticeIsLast
<1>1. PaneInv => ClosedNoticeIsLast
  BY ClosedLastFromInv
<1> QED
  BY <1>1, PaneInvariance, PTL

LEMMA ClosedStep ==
  ASSUME PaneInv, [Next]_vars, "closed" \in Range(notices) PROVE UNCHANGED <<shown, notices>>
<1>1. signals = << >>
  BY DEF PaneInv, Telling
<1>2. ~(OnData \/ OnError \/ OnConnectionClosed)
  BY <1>1 DEF OnData, OnError, OnConnectionClosed, Delivers
<1>3. CASE ThreadFinishes \/ (Start /\ UNCHANGED windowVars) \/ CloseEventReturns \/ AppExits
           \/ Environment \/ User \/ Tick \/ UNCHANGED vars
  BY <1>3 DEF ThreadFinishes, CloseEventReturns, AppExits, Environment, User, OnReturnPressed,
     UserCloses, CloseEvent, Tick, vars, windowVars
<1> QED
  BY <1>2, <1>3 DEF Next, Thread, Gui, Exited

\* After the notice that ends a session the pane does not change again.
THEOREM NothingFollowsClosed == Spec => NothingAfterClosed
<1>1. PaneInv /\ [Next]_vars => ["closed" \in Range(notices) => UNCHANGED <<shown, notices>>]_vars
  BY ClosedStep
<1> QED
  BY <1>1, PaneInvariance, PTL DEF Spec, NothingAfterClosed

-------------------------------------------------------------------------------
(* The transcript. *)
LEMMA PrefixRest ==
  ASSUME NEW s \in Seq(Atom), NEW t \in Seq(Atom), IsPrefix(s, t)
  PROVE  \E rest \in Seq(Atom) : t = s \o rest
<1>1. Len(s) \in Nat /\ Len(s) <= Len(t) /\ SubSeq(s, 1, Len(s)) = SubSeq(t, 1, Len(s))
  BY LenProperties DEF IsPrefix
<1>2. Len(s) \in 0..Len(t)
  BY <1>1, LenProperties
<1>3. /\ SubSeq(t, Len(s) + 1, Len(t)) \in Seq(Atom)
      /\ SubSeq(t, 1, Len(s)) \o SubSeq(t, Len(s) + 1, Len(t)) = t
  BY <1>2, Cut
<1>4. SubSeq(s, 1, Len(s)) = s
  BY SubSeqFull
<1> QED
  BY <1>1, <1>3, <1>4

LEMMA PrefixChain ==
  ASSUME NEW s \in Seq(Atom), NEW t \in Seq(Atom), NEW u \in Seq(Atom),
         IsPrefix(s, t), IsPrefix(t, u)
  PROVE  IsPrefix(s, u)
<1> PICK rest \in Seq(Atom) : u = t \o rest
  BY PrefixRest
<1> QED
  BY PrefixExtends

\* All that was emitted is at the front of what the server sent, also after a
\* reset.
LEMMA EmittedWasServed == ASSUME PaneInv PROVE IsPrefix(emitted, served)
<1>0. /\ TextRead \in Seq(Atom) /\ emitted \in Seq(Atom) /\ held \in Seq(Atom)
      /\ served \in Seq(Atom) /\ inbound \in Seq(Atom) /\ Reading
  BY ReadingTypes DEF PaneInv
<1>1. IsPrefix(TextRead, served)
  BY <1>0, PrefixOfConcat DEF Reading
<1>2. IsPrefix(emitted, TextRead)
  <2>1. CASE connected
    BY <1>0, <2>1, PrefixOfConcat DEF TextRead
  <2>2. CASE ~connected
    <3>1. emitted = << >>  BY <1>0, <2>2 DEF Reading
    <3>2. << >> \o TextRead = TextRead /\ << >> \in Seq(Atom)  BY <1>0, Empty
    <3>3. IsPrefix(<< >>, << >> \o TextRead)  BY <1>0, <3>2, PrefixOfConcat
    <3> QED  BY <3>1, <3>2, <3>3
  <2> QED
    BY <2>1, <2>2
<1> QED
  BY <1>0, <1>1, <1>2, PrefixChain

\* The steps that move text: the server's, and the delivery to the pane.
LEMMA TranscriptSteps ==
  ASSUME TypeOK, [Next]_vars
  PROVE  \/ OnData /\ UNCHANGED served
         \/ UNCHANGED shown /\ \E text \in Seq(Atom) : served' = served \o text
         \/ UNCHANGED <<shown, served>>
<1>1. CASE Start /\ UNCHANGED windowVars
  BY <1>1 DEF Start, Connect, Opened, SendHandshake, SendLine, ReadHandshake, ReadChunk, HandshakeEof,
     EnterGame, CheckStop, Receive, ReceiveTimesOut, ReceiveEof, ReceivesNothing, DrainDone,
     TakeCommand, Pace, Send, Raise, Finally, Closed, linkVars, windowVars
<1>2. CASE Environment
  <2>0. UNCHANGED shown
    BY <1>2 DEF Environment, windowVars
  <2>1. CASE ServerAnnounces
    BY <2>0, <2>1, LinesAndTexts DEF ServerAnnounces, Arrives
  <2>2. CASE ServerWrites
    <3>1. <<Text(Len(served))>> \in Seq(Atom)  BY ReadingTypes DEF Text, Atom
    <3> QED  BY <2>0, <2>2, <3>1 DEF ServerWrites, Arrives
  <2>3. CASE ServerRefuses
    <3>1. <<Refusal>> \in Seq(Atom)  BY DEF Refusal, Atom
    <3> QED  BY <2>0, <2>3, <3>1 DEF ServerRefuses, Arrives
  <2>4. CASE ServerAccepts \/ ServerHears \/ ServerCloses \/ ConnectionResets
    BY <2>0, <2>4 DEF ServerAccepts, ServerHears, ServerCloses, ConnectionResets
  <2> QED
    BY <1>2, <2>1, <2>2, <2>3, <2>4 DEF Environment, Server
<1>3. CASE OnData
  BY <1>3 DEF OnData, linkVars
<1>4. CASE OnError \/ OnConnectionClosed \/ CloseEventReturns \/ AppExits \/ ThreadFinishes \/ User
           \/ Tick \/ UNCHANGED vars
  BY <1>4 DEF OnError, OnConnectionClosed, CloseEvent, CloseEventReturns, AppExits, Closed,
     ThreadFinishes, User, OnReturnPressed, UserCloses, Tick, vars, linkVars, windowVars
<1> QED
  BY <1>1, <1>2, <1>3, <1>4 DEF Next, Thread, Gui, Exited

LEMMA TranscriptStep ==
  ASSUME PaneInv, [Next]_vars PROVE [Transcript!Next]_<<served, shown>>
<1>0. /\ served \in Seq(Atom) /\ shown \in Seq(Atom) /\ emitted \in Seq(Atom)
      /\ signals \in Seq(SignalSet) /\ TypeOK /\ Showing /\ Telling
  BY ReadingTypes, ShowingTypes DEF PaneInv
<1>1. CASE OnData /\ UNCHANGED served
  <2>1. Delivers("data") /\ shown' = shown \o Head(signals).text
    BY <1>1 DEF OnData
  <2>2. Head(signals).text \in Seq(Atom) /\ IsPrefix(shown', emitted)
    BY <1>0, <2>1, DeliveryShows DEF SignalSet
  <2>3. IsPrefix(shown, shown') /\ shown' \in Seq(Atom)
    BY <1>0, <2>1, <2>2, PrefixOfConcat, Closed2
  <2>4. IsPrefix(shown', served)
    BY <1>0, <2>2, <2>3, EmittedWasServed, PrefixChain
  <2> QED
    BY <1>1, <2>3, <2>4 DEF Transcript!Next, Transcript!Take, Transcript!IsPrefix, IsPrefix
<1>2. ASSUME NEW text \in Seq(Atom), served' = served \o text, UNCHANGED shown
      PROVE  Transcript!Next
  <2>1. IsPrefix(served, served')
    BY <1>0, <1>2, PrefixOfConcat
  <2> QED
    BY <1>2, <2>1 DEF Transcript!Next, Transcript!Put, Transcript!IsPrefix, IsPrefix
<1> QED
  BY <1>0, <1>1, <1>2, TranscriptSteps

\* From the server to the pane, rift-client implements a FIFO link.
THEOREM TranscriptImplementsFifo == Spec => TranscriptIsFifo
<1>1. Init => Transcript!Init
  BY DEF Init, LinkInit, Transcript!Init
<1>2. PaneInv /\ [Next]_vars => [Transcript!Next]_<<served, shown>>
  BY TranscriptStep
<1> QED
  BY <1>1, <1>2, PaneInvariance, PTL DEF Spec, TranscriptIsFifo, Transcript!Spec
===============================================================================
