----------------------------- MODULE StreamWorker -----------------------------
(***************************************************************************)
(* StreamWorker (client/stream_worker.py) on its own thread: start()       *)
(* connects, performs the handshake of game_socket.py, then alternates     *)
(* reads with draining the queue of commands.  It reports to the window    *)
(* through Qt signals, delivered in order.                                 *)
(*                                                                         *)
(* Time is counted in ticks of 0.2 s, the poll timeout.  The worker's      *)
(* steps take no time except where it waits; Tick is in ClientWindow.      *)
(* A definition marked "fault" is not part of the model: it is a plausible *)
(* mistake in the definition below it, which some property must notice.    *)
(***************************************************************************)
EXTENDS GameLink

CONSTANTS PollTimeout,  \* _POLL_TIMEOUT_SECONDS, in ticks
          MinInterval   \* _MIN_SEND_INTERVAL_SECONDS, in ticks

ASSUME TimesAssumption == PollTimeout \in Nat \ {0} /\ MinInterval \in Nat

VARIABLES pc,             \* the call start() is at
          handshake,      \* `buffer` of perform_handshake
          accumulated,    \* `accumulated` of _read_until
          connected,      \* `connected` of start
          held,           \* text StreamingDisplayFilter has not released
          outgoing,       \* _outgoing
          inHand,         \* the command taken from _outgoing and not yet sent
          stopRequested,  \* _stop_requested
          timer,          \* ticks before the blocking call raises TimeoutError
          sinceSend,      \* ticks since _last_send_time, capped at MinInterval
          signals,        \* emitted to the window and not yet delivered
          emitted,        \* history: all text emitted with data_received
          sent,           \* history: all commands given to the socket
          wireGap         \* history: ticks since the last of them, capped

textVars  == <<handshake, accumulated, held, emitted>>
queueVars == <<outgoing, inHand, sent, sinceSend, wireGap>>
flagVars  == <<connected, stopRequested>>
workerVars == <<pc, timer, signals, flagVars, textVars, queueVars>>

Signal(kind, text) == [kind |-> kind, text |-> text]
DataSignals(text) == IF text = << >> THEN << >> ELSE <<Signal("data", text)>>

Goto(next) == pc' = next /\ UNCHANGED <<timer, signals, flagVars>>

-------------------------------------------------------------------------------
(* perform_handshake *)
HandshakeLine == [sendKey |-> Key, sendIdent |-> Ident, sendC1 |-> Ready, sendC2 |-> Ready]
Awaits        == [readSettings |-> SettingsInfo, readMode |-> ModeTag]
Then == [sendKey |-> "sendIdent", sendIdent |-> "readSettings",
         readSettings |-> "sendC1", sendC1 |-> "readMode",
         readMode |-> "sendC2", sendC2 |-> "handshaken"]

Connect == pc = "connect" /\ Opened /\ Goto("sendKey") /\ UNCHANGED <<textVars, queueVars>>

SendHandshake == /\ pc \in DOMAIN HandshakeLine
                 /\ CanSend /\ SendLine(HandshakeLine[pc])
                 /\ Goto(Then[pc]) /\ UNCHANGED <<textVars, queueVars>>

\* _read_until ends when it has the marker, or at EOF.
IsDoneOnMode(text) == HasMarker(text, ModeTag)                       \* fault
IsDone(text) == HasMarker(text, Awaits[pc])

BufferOnly(text) == handshake' = text /\ accumulated' = << >>        \* fault
BufferPlus(text) == handshake' = handshake \o text /\ accumulated' = << >>

ReadHandshake ==
  /\ pc \in DOMAIN Awaits
  /\ \E n \in 1..Len(inbound) :
       LET text == accumulated \o Chunk(n)
       IN /\ ReadChunk(n)
          /\ \/ IsDone(text) /\ BufferPlus(text) /\ Goto(Then[pc])
             \/ ~IsDone(text) /\ accumulated' = text /\ UNCHANGED handshake /\ Goto(pc)
  /\ UNCHANGED <<held, emitted, queueVars>>

HandshakeEof == /\ pc \in DOMAIN Awaits /\ AtEof
                /\ BufferPlus(accumulated) /\ Goto(Then[pc])
                /\ UNCHANGED <<linkVars, held, emitted, queueVars>>

-------------------------------------------------------------------------------
(* feed() releases some of what it holds and of the new text, in order; an *)
(* empty release is not emitted.                                           *)
Release(all) == \E n \in 0..Len(all) :
                  /\ held' = SubSeq(all, n + 1, Len(all))
                  /\ emitted' = emitted \o SubSeq(all, 1, n)
                  /\ signals' = signals \o DataSignals(SubSeq(all, 1, n))

FeedAhead(chunk) == Release(chunk \o held)                           \* fault
Feed(chunk) == Release(held \o chunk)

\* set_timeout(_POLL_TIMEOUT_SECONDS) holds for every later call on the socket.
StartLongTimer == timer' = MinInterval                               \* fault
StartTimer == timer' = PollTimeout

EnterGame == /\ pc = "handshaken" /\ pc' = "check"
             /\ connected' = TRUE
             /\ Feed(handshake) /\ handshake' = << >>
             /\ UNCHANGED <<linkVars, accumulated, queueVars, stopRequested, timer>>

CheckStop == /\ pc = "check"
             /\ \/ stopRequested /\ Goto("finally")
                \/ ~stopRequested /\ pc' = "recv" /\ StartTimer /\ UNCHANGED <<signals, flagVars>>
             /\ UNCHANGED <<linkVars, textVars, queueVars>>

Receive == /\ pc = "recv" /\ pc' = "drain"
           /\ \E n \in 1..Len(inbound) : ReadChunk(n) /\ Feed(Chunk(n))
           /\ UNCHANGED <<handshake, accumulated, queueVars, flagVars, timer>>

\* No text: after a timeout the queue is drained, EOF ends the loop.
ReceivesNothing(next) == pc = "recv" /\ Goto(next) /\ UNCHANGED <<linkVars, textVars, queueVars>>

ReceiveRetries  == /\ NoData /\ timer = 0 /\ pc = "recv" /\ StartTimer   \* fault
                   /\ UNCHANGED <<linkVars, pc, signals, flagVars, textVars, queueVars>>
ReceiveSkips    == NoData /\ timer = 0 /\ ReceivesNothing("check")   \* fault
ReceiveTimesOut == NoData /\ timer = 0 /\ ReceivesNothing("drain")

ReceiveEofAsNoData == AtEof /\ ReceivesNothing("drain")              \* fault
ReceiveEof == AtEof /\ ReceivesNothing("finally")

-------------------------------------------------------------------------------
(* _drain_outgoing: it returns only when the queue is empty. *)
DrainDone == /\ pc = "drain" /\ outgoing = << >>
             /\ Goto("check") /\ UNCHANGED <<linkVars, textVars, queueVars>>

Peek == inHand' = <<Head(outgoing)>> /\ UNCHANGED outgoing           \* fault
GetNowait == inHand' = <<Head(outgoing)>> /\ outgoing' = Tail(outgoing)

TakeCommand == /\ pc = "drain" /\ outgoing # << >>
               /\ GetNowait
               /\ Goto("pace") /\ UNCHANGED <<linkVars, textVars, sent, sinceSend, wireGap>>

Pace == /\ pc = "pace" /\ sinceSend = MinInterval /\ pc' = "send"
        /\ StartTimer
        /\ UNCHANGED <<linkVars, signals, flagVars, textVars, queueVars>>

\* _last_send_time is the time after sendall() returned.
StampBefore == sinceSend' = PollTimeout - timer                      \* fault
Stamp == sinceSend' = 0

Send == /\ pc = "send"
        /\ CanSend /\ SendLine(Head(inHand)) /\ Stamp
        /\ sent' = sent \o inHand /\ inHand' = << >> /\ wireGap' = 0
        /\ Goto("drain") /\ UNCHANGED <<textVars, outgoing>>

-------------------------------------------------------------------------------
(* Any call on the socket may raise: connect() when the host refuses, a    *)
(* send when the server is gone or when it stays blocked for the timeout   *)
(* that was set for reads, a read after a reset.                           *)
CallRaises == \/ pc = "connect"
              \/ pc \in DOMAIN HandshakeLine \cup {"send"} /\ peer # "open"
              \/ pc = "send" /\ timer = 0
              \/ pc \in DOMAIN Awaits \cup {"recv"} /\ peer = "reset"

Raise == /\ CallRaises /\ pc' = "finally"
         /\ signals' = Append(signals, Signal("error", << >>))
         /\ UNCHANGED <<linkVars, textVars, queueVars, flagVars, timer>>

IfConnected == IF connected THEN <<Signal("closed", << >>)>> ELSE << >>
UnflushedSignals == IfConnected                                      \* fault
ClosedFirstSignals == IfConnected \o DataSignals(held)               \* fault
FinalSignals == DataSignals(held) \o IfConnected

Finally == /\ pc = "finally" /\ pc' = "returned"
           /\ held' = << >> /\ emitted' = emitted \o held
           /\ signals' = signals \o FinalSignals
           /\ Closed
           /\ UNCHANGED <<handshake, accumulated, queueVars, flagVars, timer>>

Start == \/ Connect \/ SendHandshake \/ ReadHandshake \/ HandshakeEof \/ EnterGame
         \/ CheckStop \/ Receive \/ ReceiveTimesOut \/ ReceiveEof
         \/ DrainDone \/ TakeCommand \/ Pace \/ Send \/ Raise \/ Finally

\* Where start() waits: for the host, for text, for the pacing interval, for
\* room in the send buffer.  Elsewhere its next step takes no time.
Waiting == \/ pc = "connect"
           \/ pc \in DOMAIN Awaits /\ NoData
           \/ pc = "recv" /\ NoData /\ timer > 0
           \/ pc = "pace" /\ sinceSend < MinInterval
           \/ pc = "send" /\ peer = "open" /\ timer > 0
           \/ pc = "returned"

-------------------------------------------------------------------------------
(* What the window calls from its own thread. *)
QueueFirst(cmd) == outgoing' = <<cmd>> \o outgoing                   \* fault
QueueLine(cmd) == outgoing' = Append(outgoing, cmd)
Stop == stopRequested' = TRUE

WorkerInit == /\ pc = "connect" /\ timer = 0 /\ signals = << >>
              /\ connected = FALSE /\ stopRequested = FALSE
              /\ handshake = << >> /\ accumulated = << >> /\ held = << >> /\ emitted = << >>
              /\ outgoing = << >> /\ inHand = << >> /\ sent = << >>
              /\ sinceSend = MinInterval /\ wireGap = MinInterval

Positions == {"connect", "handshaken", "check", "recv", "drain", "pace", "send",
              "finally", "returned", "finished", "killed"}
                \cup DOMAIN HandshakeLine \cup DOMAIN Awaits

WorkerTypeOK ==
  /\ pc \in Positions /\ timer \in 0..PollTimeout
  /\ connected \in BOOLEAN /\ stopRequested \in BOOLEAN
  /\ signals \in Seq([kind: {"data", "error", "closed"}, text: Seq(Atom)])
  /\ handshake \in Seq(Atom) /\ accumulated \in Seq(Atom)
  /\ held \in Seq(Atom) /\ emitted \in Seq(Atom)
  /\ outgoing \in Seq(Atom) /\ inHand \in Seq(Atom) /\ sent \in Seq(Atom)
  /\ sinceSend \in 0..MinInterval /\ wireGap \in 0..MinInterval
===============================================================================
