------------------------------ MODULE EasSession ------------------------------
(***************************************************************************)
(* The connection to the authentication server (login/tls_transport.py),   *)
(* and that server, which is not in the repository: it is modelled from    *)
(* the exchange eas_client.py drives and docs/eas-protocol.md records.     *)
(* A message is one line [verb, arg] or one reply; recv_packet() reads one *)
(* reply.  The server answers each line, or refuses it, or hangs up.       *)
(***************************************************************************)
EXTENDS Naturals, Sequences

CONSTANTS Credentials,  \* pairs <<account, password>> the player may enter
          Valid,        \* those the server accepts
          Games,        \* game codes of the M reply
          Storm,        \* those whose N reply has the STORM flag
          Roster,       \* the characters of each game
          None

ASSUME AccountAssumption == Valid \subseteq Credentials
ASSUME GamesAssumption == /\ Storm \subseteq Games
                          /\ DOMAIN Roster = Games
                          /\ None \notin Games

VARIABLES sock,         \* TLSTransport._sock: "none", "open", or "closed" but not yet None
          conn,         \* the server's end: "up", "eof" (closed, or none yet), "reset"
          requests,     \* lines the server has not read
          replies,      \* replies not yet read with recv_packet
          serverGame    \* the game the session of the server is at

easVars == <<sock, conn, requests, replies, serverGame>>

Line(verb, arg) == [verb |-> verb, arg |-> arg]
Reply(verb, ok, body) == [verb |-> verb, ok |-> ok, body |-> body]

\* What a read at EOF returns.
EofReply == Reply("eof", FALSE, {})

-------------------------------------------------------------------------------
(* The server. *)

\* A line that names a game moves the session to it.
GameAfter(line) == IF line.verb \in {"N", "F", "G", "P"} THEN line.arg ELSE serverGame

\* C and L are about that game, whatever the client has in mind.
Bodies(line) == CASE line.verb = "M" -> Games
                  [] line.verb = "C" /\ serverGame # None -> Roster[serverGame]
                  [] line.verb = "L" -> {<<serverGame, line.arg>>}
                  [] OTHER -> {}

Refuses(line) == \/ line.verb \in {"A", "M", "C", "L"}
                 \/ line.verb = "N" /\ line.arg \notin Storm
Grants(line) == \/ line.verb \in {"K", "M", "F", "G", "P", "L"}
                \/ line.verb = "A" /\ line.arg \in Valid
                \/ line.verb = "N" /\ line.arg \in Storm
                \/ line.verb = "C" /\ serverGame # None

ServerAnswers ==
  /\ conn = "up" /\ requests # << >>
  /\ LET line == Head(requests)
     IN /\ \/ Grants(line) /\ replies' = Append(replies, Reply(line.verb, TRUE, Bodies(line)))
           \/ Refuses(line) /\ replies' = Append(replies, Reply(line.verb, FALSE, {}))
        /\ serverGame' = GameAfter(line)
  /\ requests' = Tail(requests)
  /\ UNCHANGED <<sock, conn>>

ServerCloses == /\ conn = "up" /\ conn' = "eof"
                /\ UNCHANGED <<sock, requests, replies, serverGame>>

ConnectionResets == /\ sock # "none" /\ conn # "reset" /\ conn' = "reset" /\ replies' = << >>
                    /\ UNCHANGED <<sock, requests, serverGame>>

EasServer == ServerAnswers \/ ServerCloses \/ ConnectionResets

-------------------------------------------------------------------------------
(* TLSTransport. *)

\* connect() replaces the socket, also when the certificate then fails the pin
\* check; when the host or the TLS handshake fails it leaves the old one.
NewSocket == /\ sock' = "open" /\ conn' = "up"
             /\ requests' = << >> /\ replies' = << >> /\ serverGame' = None

CanSend == sock = "open" /\ conn # "reset"
SendRaises == sock # "open" \/ conn # "up"
SendLine(line) == /\ requests' = IF conn = "up" THEN Append(requests, line) ELSE requests
                  /\ UNCHANGED <<sock, conn, replies, serverGame>>

\* recv() on a socket closed before the call raises; one that is already
\* blocked in the call goes on reading.
RecvStarts == sock = "open"

AtEof == replies = << >> /\ conn = "eof"
RecvPacket == /\ replies # << >> /\ replies' = Tail(replies)
              /\ UNCHANGED <<sock, conn, requests, serverGame>>

\* close(), called from either thread, in the three steps it takes: the check
\* of _sock, its use, and its reset.  The use reads _sock again: where the other
\* thread has reset it meanwhile, None has no close() and AttributeError is raised.
CloseChecks(done, next) == /\ next = (IF sock = "none" THEN done ELSE "closeUse")
                           /\ UNCHANGED easVars
CloseUses == /\ sock # "none" /\ sock' = "closed"
             /\ UNCHANGED <<conn, requests, replies, serverGame>>
CloseRaises == sock = "none" /\ UNCHANGED easVars
CloseSets == sock' = "none" /\ UNCHANGED <<conn, requests, replies, serverGame>>

EasInit == /\ sock = "none" /\ conn = "eof"
           /\ requests = << >> /\ replies = << >> /\ serverGame = None
===============================================================================
