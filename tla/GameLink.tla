------------------------------- MODULE GameLink -------------------------------
(***************************************************************************)
(* The TCP connection of a play session (client/game_socket.py) and the    *)
(* game server at its far end.  The server is not in the repository: it is *)
(* modelled from the exchange game_socket.py drives and its docstring      *)
(* records.  Server text is a sequence of atoms; each of the two markers   *)
(* the handshake waits for is two atoms, so that a recv() may return half  *)
(* of one.                                                                 *)
(***************************************************************************)
EXTENDS Naturals, Sequences

CONSTANT MaxServed      \* bound: atoms of text the server sends in a session

ASSUME ServedAssumption == MaxServed \in Nat

VARIABLES sock,         \* GameSocket._sock is not None
          peer,         \* the server's end: "open", "closed" (FIN), "reset" (RST)
          phase,        \* what the server waits for, or is about to send
          inbound,      \* text in the client's receive buffer, not yet read
          outbound,     \* lines on their way to the server
          served        \* history: all text the server has sent

linkVars == <<sock, peer, phase, inbound, outbound, served>>

Key     == <<"key", 0>>
Ident   == <<"ident", 0>>
Ready   == <<"c", 0>>
Cmd(i)  == <<"cmd", i>>
Text(n) == <<"text", n>>
Refusal == <<"refusal", 0>>

ModeTag      == << <<"mode", 1>>, <<"mode", 2>> >>
SettingsInfo == << <<"settings", 1>>, <<"settings", 2>> >>

\* A marker is found only when all of it is there, side by side.
HasMarker(text, tag) == \E i \in 1..Len(text) - 1 : <<text[i], text[i + 1]>> = tag

-------------------------------------------------------------------------------
(* The server's side: the line it waits for in a phase of the handshake,   *)
(* the text it sends in another, and the phase that follows.               *)
Expects   == [key |-> Key, ident |-> Ident, ready1 |-> Ready, ready2 |-> Ready]
Announces == [greeting |-> ModeTag, settings |-> SettingsInfo, mode2 |-> ModeTag]
After     == [key |-> "ident", ident |-> "greeting", greeting |-> "settings",
              settings |-> "ready1", ready1 |-> "mode2", mode2 |-> "ready2",
              ready2 |-> "game"]

Serving == sock /\ peer = "open"
Arrives(text) == /\ Len(served) + Len(text) <= MaxServed
                 /\ inbound' = inbound \o text
                 /\ served' = served \o text

ServerAccepts == /\ Serving /\ phase \in DOMAIN Expects
                 /\ outbound # << >> /\ Head(outbound) = Expects[phase]
                 /\ outbound' = Tail(outbound) /\ phase' = After[phase]
                 /\ UNCHANGED <<sock, peer, inbound, served>>

ServerAnnounces == /\ Serving /\ phase \in DOMAIN Announces
                   /\ Arrives(Announces[phase]) /\ phase' = After[phase]
                   /\ UNCHANGED <<sock, peer, outbound>>

ServerHears == /\ Serving /\ phase = "game" /\ outbound # << >>
               /\ outbound' = Tail(outbound)
               /\ UNCHANGED <<sock, peer, phase, inbound, served>>

ServerWrites == /\ Serving /\ phase = "game"
                /\ Arrives(<<Text(Len(served))>>)
                /\ UNCHANGED <<sock, peer, phase, outbound>>

\* "Invalid login key. Please relogin to the web site.", then it hangs up.
ServerRefuses == /\ Serving /\ phase \in {"greeting", "settings", "mode2"}
                 /\ Arrives(<<Refusal>>) /\ peer' = "closed"
                 /\ UNCHANGED <<sock, phase, outbound>>

ServerCloses == /\ Serving /\ peer' = "closed"
                /\ UNCHANGED <<sock, phase, inbound, outbound, served>>

\* A reset may also follow a FIN; text that was not read yet is gone.
ConnectionResets == /\ sock /\ peer # "reset"
                    /\ peer' = "reset" /\ inbound' = << >>
                    /\ UNCHANGED <<sock, phase, outbound, served>>

Server == \/ ServerAccepts \/ ServerAnnounces \/ ServerHears \/ ServerWrites
          \/ ServerRefuses \/ ServerCloses \/ ConnectionResets

-------------------------------------------------------------------------------
(* The client's calls on the socket. *)
Opened == sock' = TRUE /\ UNCHANGED <<peer, phase, inbound, outbound, served>>
Closed == sock' = FALSE /\ UNCHANGED <<peer, phase, inbound, outbound, served>>

\* A line may still be accepted after the server's FIN, and is lost.
CanSend == peer # "reset"
SendLine(line) == /\ outbound' = IF peer = "open" THEN Append(outbound, line) ELSE outbound
                  /\ UNCHANGED <<sock, peer, phase, inbound, served>>

\* read_chunk returns the first n atoms there are, n as recv() chooses.
Chunk(n) == SubSeq(inbound, 1, n)
ReadChunk(n) == /\ inbound' = SubSeq(inbound, n + 1, Len(inbound))
                /\ UNCHANGED <<sock, peer, phase, outbound, served>>

AtEof  == inbound = << >> /\ peer = "closed"
NoData == inbound = << >> /\ peer = "open"

LinkInit == /\ sock = FALSE /\ peer = "open" /\ phase = "key"
            /\ inbound = << >> /\ outbound = << >> /\ served = << >>

\* A piece of server text, or a line of the client's.
Atom == {"key", "ident", "c", "cmd", "mode", "settings", "text", "refusal"} \X Nat

LinkTypeOK == /\ sock \in BOOLEAN
              /\ peer \in {"open", "closed", "reset"}
              /\ phase \in DOMAIN After \cup {"game"}
              /\ inbound \in Seq(Atom) /\ outbound \in Seq(Atom) /\ served \in Seq(Atom)
===============================================================================
