# A verification model of rift-nexus

rift-nexus has two programs. `rift-login` authenticates an account with the EAS
server over TLS, lists its characters, obtains a handoff for one of them, writes
it to a SAL file and starts a front-end. `rift-client`, the default front-end,
reads that file, connects to the game server, performs the handshake of
`docs/decisions.md` and then carries text to a window and commands from it. Each
program is a Qt window on the GUI thread and a worker object on a `QThread`;
the two talk through signals, a queue and a few plain calls. This directory
models both programs, the files they share and the servers at their far ends,
checks the models with TLC and proves theorems with TLAPS: about the client, its
display filter, the login, the handoff between the programs, the stores and the
contents of the messages.

Paths below are relative to `src/src/rift/`.

## Inventory

| Component | State | Operations | Talks to |
|---|---|---|---|
| game connection, `client/game_socket.py` | the socket | connect, perform_handshake, send_line, read_chunk, close | game server |
| stream worker, `client/stream_worker.py` | `_outgoing`, `_stop_requested`, `_last_send_time`, `connected`, the handshake's buffers | start (its loop), _drain_outgoing, send_line, stop | connection, filter, window (signals) |
| client window, `client/window.py`, `client/app.py` | pane, thread, queue of signals | _on_return_pressed, _append_output, _on_error, _on_connection_closed, closeEvent | worker (send_line, stop), thread (quit, wait) |
| display filter, `client/display_filter.py` | held text, count of trailing newlines | feed, flush | worker |
| SAL reader, `client/sal_reader.py` | the file | read, delete, parse | client entry point; shares the directory with SAL writers |
| EAS transport, `login/tls_transport.py`, `login/cert_pinning.py` | `_sock` | connect, send_line, recv_packet, close | EAS server; closed from two threads |
| EAS client, `login/eas_client.py`, `login/eas_wire.py` | where it is in the exchange | authenticate, list_games, enumerate_all, select_character | transport |
| login worker, `login/worker.py` | the call it runs | login, select_character, close | EAS client, SAL writer, launcher, window (signals) |
| login window, `login/ui.py`, `login/app.py` | fields, list, selection, enabled controls, status | its nine slots, closeEvent | worker (queued signals; `close()` directly) |
| SAL writer and launcher, `login/sal.py`, `login/launcher.py`, `login/models.py` | the file, the process | write_sal_file, launch | login worker |
| config and credentials, `login/config.py`, `login/credentials.py` | JSON file, OS keyring | load, save, delete | login window; shared by all runs of `rift-login` |
| `protocol`, `engine`, `mapdb`, `pkgmanager` | none: empty packages | none | none |

What makes them hard, and what makes them right:

* Two threads share the worker. Commands are queued at any moment, a close may
  find the worker in connect, in the handshake, in a read, between two paced
  sends or already gone. Right: no command is lost, repeated or overtaken on its
  way to the socket; closing the front-end always ends its process; a worker that
  can be joined in time is joined.
* The server may stall, close or reset between any two steps, and `recv()` cuts
  its text anywhere, inside a handshake marker too. Right: all text reaches the
  pane, once and in order, and before the notice that the session is over.
* One timeout, set for reads, governs sends as well, and pacing, polling and
  joining each have their own time. Right: commands stay paced and are sent also
  while the server is silent.
* EAS is request and reply with no identifiers, and the server keeps a current
  game. Right: each reply is read as the answer to its own line, and the game
  launched is the one chosen.
* The connection to EAS is closed from two threads, without a lock. Right: neither
  close upsets the other, nor the exchange under way.
* The login window enables and disables its controls by hand, in nine slots.
  Right: the player is never left without a way on, and every login comes to an
  end the player sees.
* A handoff is a file with a single-use key. Several runs of both programs work in
  one directory, and each may be killed at any step. Right: no key is presented
  twice, each front-end presents its own, no key stays behind its front-end.
* Config and keyring outlive a run and are shared by runs that overlap. Right:
  they can be read again, and remember no password the server has not accepted.
* Errors are ordinary: every call on a socket may raise, and an empty read means
  something different to each parser.

## Modules

| Module | Models | Built on |
|---|---|---|
| `FifoLink` | what one direction of a play session promises (abstract) | |
| `GameLink` | TCP connection and game server; the calls of `GameSocket` | |
| `StreamWorker` | `StreamWorker.start()` and what it calls, on its thread | `GameLink` |
| `ClientWindow` | `ClientWindow` on the GUI thread, the clock, the whole `rift-client` | `StreamWorker` |
| `ClientWindowProofs` | theorems: types, commands and text are kept, what the window shows and is told | `ClientWindow` |
| `ClientSessionProofs` | theorems: handshake, pacing and the join | `ClientWindowProofs` |
| `DisplayText` | `strip_display_noise` and the five holdbacks, as operators on text | |
| `DisplayFilter` | `StreamingDisplayFilter`: feed in chunks cut anywhere, flush | `DisplayText` |
| `DisplayFilterProofs` | theorems about `DisplayText` and `DisplayFilter` | `DisplayFilter`, `RecursionLemmas` |
| `MCDisplayFilter` | what a server sends, for small instances of `DisplayFilter` | `DisplayFilter` |
| `EasSession` | EAS server; the calls of `TLSTransport` | |
| `LoginWorker` | `LoginWorker` and `EASClient` on their thread | `EasSession` |
| `LoginWindow` | `LoginWindow` on the GUI thread, the whole `rift-login` | `LoginWorker` |
| `LoginWindowProofs` | theorems about `LoginWindow` | `LoginWindow` |
| `MCLoginWindow` | values for small instances of `LoginWindow` | `LoginWindow` |
| `SingleUse` | what the handoff of a key promises (abstract) | |
| `SalHandoff` | SAL writer, launcher and SAL reader: any number of runs on one directory | `SingleUse` |
| `SalHandoffProofs` | theorems about `SalHandoff` | `SalHandoff` |
| `LoginStore` | `config.json` and the keyring, and the runs of `rift-login` that load and save them | |
| `LoginStoreProofs` | theorems about `LoginStore` | `LoginStore` |
| `MCLoginStore` | the clicks of small instances of `LoginStore` | `LoginStore` |
| `EasWire` | contents: the scrambled password, the lists, the handoff from the reply to the front-end, the command line | |
| `EasWireProofs` | theorems about `EasWire` | `EasWire`, `RecursionLemmas` |
| `MCEasWire` | values for a small instance of `EasWire` | `EasWire` |
| `RecursionLemmas` | lemmas: induction over numbers and texts, `FlattenSeq`, `Min`, `Max` | |

A definition marked `fault` is a plausible mistake in the definition below it. No
specification uses it; it is there to show that some property notices it.

### rift-client

`pc` is the call `start()` is at; each action is the code from one call that can
block or raise to the next. `SendHandshake`, `ReadHandshake` and `HandshakeEof`
are `perform_handshake` with `_read_until`; a marker is two atoms, and
`ReadChunk(n)` takes any number of atoms, so a marker may be read in halves.
`EnterGame` feeds the text read so far to the filter. `CheckStop`, `Receive`,
`ReceiveTimesOut` and `ReceiveEof` are the read loop; `DrainDone`, `TakeCommand`,
`Pace` and `Send` are `_drain_outgoing`; `Raise` is any exception of the socket
and `Finally` the `finally` block. The filter is here only a buffer: `Feed`
releases any prefix of what it holds and the new text. That over-approximates
when it releases and leaves out what it drops.

`signals` is the queue of Qt events to the GUI thread. Handlers run while the
event loop does (`window` open or closed), not inside `closeEvent`, which is
`CloseEvent` followed, when `wait()` returns, by `CloseEventReturns`.
`AppExits` ends the process with whatever is still running.

`Tick` is 0.2 s, the poll timeout. It can happen only when the worker is where it
waits (`Waiting`) and the GUI thread is not in a step of its own, so code takes no
time except where it blocks. `timer` is what is left of the socket timeout,
`sinceSend` the pacing clock, `joinLeft` what is left of `wait(2000)`. `served`,
`emitted`, `sent`, `wireGap` and `backlog` are history: no guard reads them.

The game server is not in the repository. It accepts the lines and sends the
markers the docstring of `perform_handshake` records, and it may refuse the key,
write at any time, close or reset. It is never obliged to do anything.

### display filter

A text is a sequence of pieces, the places where `recv()` may cut it: words,
spaces, CR, NL, the two parts of an entity, the two parts of a tag. A tag is one
piece and its `>`; where inside the tag the cut falls makes no difference to the
code, which only looks for the `>`. `InBlock` is a lazy regular expression
`start.*?shut`: a position between a start and the first shut after it.
`FirstUnclosed` walks openings and closings as `_first_unclosed_position` does.
`Cutoff` applies the five holdbacks in the order of `feed`. `Feed` is one call
with any chunk, `Flush` the call in the worker's `finally` block, which may come
after any chunk. One tag stands for each kind: `dialogData` and `prompt` for the
seven names of `_DROP_WITH_CONTENT`, `objs` for the two components, `&gt;` for
the five entities. Every piece of a tag is followed by its `>`, and `;` and `&`
occur only in entities, as in well-formed text.

`StreamWorker` does not use this module: its properties hold for every filter
that releases what it is fed in order.

### rift-login

`LoginWorker` serves one queued call at a time. `step` is the EAS line it is at
and `pc` whether it is about to send (`ask`), to read (`listen`) or is inside
`recv()` (`blocked`); the last two differ because a socket closed by the GUI
thread fails a read that has not begun and not one that has. `Parse` is what the
code does with a reply: `Fits` says which replies each parser accepts, and
`NextGame`, `SkipGame` and `AfterC` are the loop of `enumerate_all`. The order of
games in the M reply is left open. `HearEof` parses the empty string.

`LoginWindow` has one action per slot. `TLSTransport.close()` takes three steps,
the check of `_sock`, its use and its reset (`CloseChecks`, `CloseUses`,
`CloseSets`), and the worker (`Close`) and the window (`WorkerClose`) may be in it
at the same time. Where one has reset `_sock` between the check and the use of the
other, the use raises (`CloseRaises`): in the worker past the handlers of its slot,
in `closeEvent` past `quit()` and `wait()`, and the window closes all the same.
`WaitReturns` may come at any time: the two seconds of `wait(2000)` are not counted
here. Calls still queued when `quit()` is called may or may not be served.

The EAS server moves its session to the game any of N, F, G, P names, and C and L
are about that game, as `eas_client.py` 62-71 reports. It may hang up or reset at
every line, and refuse A, M, C and L, and N of a game without the STORM flag; it
never refuses K, F, G, P, or N of a STORM game. A reply is assumed to fit in one
read, as the docstring of `tls_transport.py` says; `EasWire` has what a cut one is read as.

### the SAL file

`SalHandoff` takes over where `LoginWorker` has `WriteSal` and `Launch`.
`launcher[l].at` is the system call `select_character` of run `l` is at and
`front[f].at` the one `rift-client` run `f` is at. `Mkstemp`, `WriteSome`,
`WriteAll` with `Chmod`, and `WriteRaises` with `UnlinkPartial` are
`write_sal_file`; `Popen` and `PopenRaises` are `launch`; `ReadText` and
`DeleteAfter` are `read_sal_file`, `Connect` and `FieldMissing` the use `main`
makes of it. A text is its key and how much of it is there. `MkstempRaises`
stands also for the directory that is not there, and `PopenRaises` for a template on
which `build_command` raises. `PlayerStarts` is
`rift-client --sal` from a shell, on a file at any stage. `LauncherKilled` and
`FrontEndKilled` may come between any two steps, and a player closing the window
of `rift-login` is the first of them. The front-end is always `rift-client`.

### config.json and the keyring

`LoginStore` is several runs of the login window over the two stores. The
constructor is `Start` (`load()`) and `Prefill`; `config.save()` is `Truncate` and
`Write`, since `write_text()` truncates before it writes; `StorePassword` is the
rest of `_on_authenticated`, and `SaveRaises` and `KeyringRaises` end the slot
where the exception does. The worker is only its queue of calls and, for each
call, the signals it ends in (`Endings`, from `LoginWorker`). `EditsConfig` is the
player setting a launch command in `config.json`, as `docs/usage.md` says.
`accepted`, `cut`, `wanted`, `overwritten`, `unverified` and the field `reopened` of
a run are history. They end when what they record does: `cut` with the next save of
a single run, `overwritten` with the next edit, an account of `unverified` with its
next login, `reopened` with the next login begun while no other is pending.

### contents on the wire

A behaviour of `EasWire` is one computation: the scrambling of one password, the
parsing of one list, the way of one handoff through `parse_handoff_kv`,
`from_kv`, `_sal_lines` and `read_sal_file`, or the making of one command line
(`build_command`, with `shlex` as external: `Scan` is its splitter, one character at
a time). Codes are integers and the arithmetic is modulo 256 as in the code; a list
reply may be cut at any character. A template with braces other than `{sal_path}`,
on which `format()` raises, is left out. `ObscurePassword` is the client's half only.
Whether the server also begins a short key again is not known (`docs/decisions.md`
69-73, `docs/eas-protocol.md` 42), and no definition presumes it.

## Runs

| Run | Question | Bounds |
|---|---|---|
| `client_safety` | is a session's text and are its commands whole, in order and paced, what does the window learn last, and is the worker joined within `wait(2000)` whenever what is queued fits? | 8 atoms of server text, 3 commands, a join of 10 ticks |
| `client_liveness` | does every disconnect and every close end the process, is a command sent? | 7 atoms, 1 command, a join of 4 ticks |
| `handshake_eof` | finding: a server that closes in mid-handshake counts as a session | 7 atoms, 1 command |
| `send_stall` | finding: a stalled send ends a live session | 7 atoms, 1 command |
| `filter_chunks` | whatever the chunks, is the same text shown, nothing of a dropped block, nothing else lost or withheld, no run of blank lines? | texts of up to 3 of 13 units, all their cuts |
| `filter_listing` | finding: a listing and a prompt on one line | 2 units |
| `login` | are lines and replies paired, is the chosen character launched, is the player ever stuck, does every login come to an end the player sees? | 3 clicks, 2 games, one of them without STORM |
| `login_partial` | finding: a hang-up at N gives a short list and no error | 1 click |
| `login_close` | finding: after a launch the two closes of the connection upset each other | 2 clicks, 1 game |
| `sal_handoff` | with runs of both programs on one directory, is each key presented once, by the front-end it is for, and deleted? | 2 runs of `rift-login`, 2 of `rift-client`, 2 handoffs |
| `login_store` | with runs that follow, overlap and are killed, what do config and keyring hold? | 2 runs, up to 4 clicks in one or 2 in one and 1 in the other; 1 account, 2 passwords |
| `wire` | does the scrambling lose any of the password, does the player read the list that was sent, and the front-end the handoff and the path of its file? | passwords, keys, lists and handoffs of up to 3 elements; templates of up to 4 signs, paths of up to 2 |

Why the bounds are enough. The handshake takes six atoms (three markers of two),
so seven reach one atom of game text after a full handshake and eight allow two,
enough for text to be reordered, held and flushed. Two commands are the fewest
that can be overtaken or sent too close; three, at the real ratio of poll (0.2 s),
pacing (0.4 s) and join (2 s), are the fewest whose sending need not fit in the
join, so both sides of `FitsInJoin` occur. Three clicks on Log In and Launch are
the fewest with which one session is asked for two launches, or a second login
overlaps a launch; all but the liveness is also proved for any number. Two games are
enough for a session that is at the wrong one. A run of blank lines needs three
line ends. Three units are also the fewest with which a closing tag left over from
one block stands before another block and text follows, the shape of the two bugs
the source records at 91-100 and 188-194. Two launchers and two front-ends are the
fewest that can share a name or a file; two handoffs let a launcher retry after a
failure. In `login_close` the two clicks are a login and a launch, after which both
threads close. In `login_store` four clicks (log in, launch, launch again, log in)
are the fewest for a login to be running when another call's
error enables its fields, and one click in each of two runs lets two saves overlap. The codes in
`wire` are the edges of the printable, 7-bit and 8-bit ranges; three elements let
a key be shorter than the password, as long or longer, and an entry be repeated
and replaced. Four signs are the fewest for a pair of quotes, or an escaped quote,
around or beside `{sal_path}` and a word.

Deadlock is checked in every run but `wire`, whose behaviours are computations
that end. Elsewhere the only states without a step of their own are those in which
every process has ended, and `Exited` and `Stopped` say so.

## Fairness

`FairSpec` of `ClientWindow`: weak fairness of the worker's thread, of the GUI
thread and of `Tick`. The operating system schedules both threads and time
passes; each step of a thread is enabled until it is taken, or blocks on
something that has a timeout. Nothing is assumed of the server or of the player,
who may stay silent for ever. `FairSpec` of `LoginWindow` is the same without a
clock and without fairness for `connect()`, which has no timeout there. Nothing in it
is about the server. `LoginIsAnswered` is therefore a conditional: `ServerKeepsUp`, its
premise, says that no `connect()` takes for ever and that the server answers a line or
the connection ends. Without it a login can wait for ever, since the TLS socket has no
timeout. Closing the window then still works, but the model has no more to say of that
than the one step `WaitReturns`.
`FairSpec` of `SalHandoff` is weak fairness of each front-end that was started: its
steps are system calls on a local file, and none waits for another process. Nothing
is assumed of the launchers, of the player or of who is killed.

## What the checks show

Holds, in the model of the client: the texts and commands are kept
(`CommandsKept`, `TextKept`) and each direction implements `FifoLink`
(`CommandsAreFifo`, `TranscriptIsFifo`); the notice of the end comes after all
text (`ClosedNoticeIsLast`, `NothingAfterClosed`); the handshake stays in step
(`HandshakeInStep`); sends are paced (`Pacing`); a close that can join joins
(`JoinInTime`); disconnect and close end the process; a command typed in a live
session is sent or the session ends.

Holds, in the model of the display filter: two blank lines in a row are never
shown (`NoBlankRuns`); once all of some whole units has arrived and ended a line,
nothing of it is kept back (`NothingWithheld`); in a stream whose listings end
their line and whose panels are not empty tags, whatever the chunks and wherever
the connection ends, the player is shown what the filter makes of the whole text,
but for spaces at the ends of lines (`SameAsWhole`), nothing of a dropped block is
shown (`BlocksAreDropped`) and no other word is lost (`NarrativeKept`). Both
conditions are needed. Without the first the listing below is shown, which the
filter drops from the whole text. Without the second text is lost: the expression
that drops a panel also starts at an empty tag (`display_filter.py` 77), which the
function that counts open tags leaves out (217), and an empty component, which it
does not leave out (229), holds back all text until a component closes. No
document says that the game sends such tags.

Holds, in the model of the login: `RepliesInStep`, `LaunchedAsAsked`,
`OneFrontEndPerSession`, `ListIsWhole`, `Settled` and, from a server that keeps up,
`LoginIsAnswered`. What they leave out is so in the code:

* An empty list of characters leaves only the close button. It is the list of an
  account without characters, of games that are all refused, and of a server that
  hung up at the first N; `Settled` and `LoginIsAnswered` count all three as an end.
* After a hang-up games may be missing from the list (`ListIsWhole` asks for all of
  them while the connection is up, and always for whole ones).

Holds, in the model of the SAL file: no key is presented twice
(`KeyPresentedOnce`) and a key's whole way implements `SingleUse`
(`KeysAreSingleUse`); a front-end started by `rift-login` presents its own whole
handoff (`PresentsItsOwn`); a cut file is being written, about to be deleted, or
left by a run that was killed (`NoCutFileLeft`); the file of a started front-end
is deleted unless the front-end is killed first (`KeyGoesAway`). What the
properties leave out is so in the code: the whole file of a handoff for which no
front-end could be started stays, with a key that is still good, and each retry
adds one; a front-end started by hand on a file being written may present a cut
key.

Holds, in the model of the stores, with the exceptions the properties name:

* A password in the keyring is one the server accepted for its account
  (`RememberedWasAccepted`), unless it was stored by a login during which the error
  of another call had enabled the fields: then it is what the fields held.
* The config can be read at the next start (`ConfigReadable`), unless the last save
  was killed or failed after `write_text()` truncated the file, or overlapped with
  another. `load()` raises on such a file and `rift-login` does not start; a run that
  has its window already puts it right with its next save.
* A configured launch command stays (`TemplateKept`), unless a run that had loaded
  the config before saves over it.

Holds, in the model of the wire: for any key what is sent tells any two passwords
apart, as far as latin-1 goes, a password no longer than the key is read back with
it, and with a printable password and a 7-bit key the A line keeps its three fields
(`ObscuringLosesNothing`; with a key byte of 128 or more a scrambled character can be
a tab, and nothing says what keys the server sends). Whether the server can read a
password longer than the key is an open question of the repository, and stays one
here. A cut list is read as its first entries
(`CutListIsPrefix`); the front-end reads the handoff the server sent
(`FrontEndReadsHandoff`), unless a field has a line break in it or a name has
blanks around it, which only `read_sal_file` strips; it is started
with the path as one argument, whatever is in it (`PathIsOneArgument`), unless the
template has quotes or a backslash of its own around `{sal_path}`: then a path that
needs quoting arrives with quotes in it or as two arguments, and one that does not
still arrives as it is.

Where code and documentation differ. All but the last two have a run that shows it;
those are steps of the model that no property forbids.

* EOF inside the handshake ends `_read_until` as if the marker had come, so a
  server that closes in mid-handshake closes the window (`stream_worker.py`
  57-60 and `docs/decisions.md` 67 say it stays open).
* `set_timeout(0.2)` also limits `sendall()`: a send blocked for 0.2 s ends a
  session whose connection is alive (`window.py` 75-76: the trigger is the actual
  disconnect).
* The holdback of a line that would show as blank parts a `<popStream/>` from its
  listing when a prompt follows it on the line, and the listing is shown
  (`display_filter.py` 325-327: such a block is dropped correctly).
* EOF at an N step gives a shorter list and no error (`worker.py` 40-43: every
  character on the account is enumerated, and `error` for connection failures).
* The worker and `closeEvent` both close the connection right after a launch
  (`worker.py` 88, `ui.py` 179). `close()` reads `_sock` at `tls_transport.py` 67 and
  again at 68; when the other thread resets it in between, `AttributeError` skips
  `quit()` and `wait()` in `closeEvent` (`ui.py` 3-11: the window talks to signals and
  slots only, and calls no plain methods across threads).
* The error of an earlier launch enables the login controls while a login runs, and
  `_on_authenticated` then stores what the fields hold, not what was accepted
  (`tests/login/test_ui.py` 86-95 asserts they are disabled).
* EOF at the A step is `auth_failed` (`HearEof` with `step` A; `worker.py` 40-43).

## Proofs

Every theorem holds for every value of the constants. The assumptions on them ask
no more than that bounds are natural numbers and that a "none" is not one of the
values it is told from; where one asks more, it is named below. The invariants were
checked by TLC on the instances of the runs before they were proved.

### the client

Assumed: `ServedAssumption`, `WindowAssumption` and `TimesAssumption`, by which the
poll timeout is not zero. The proofs go from module to module, each adding to the
invariant of the one before.

`ClientWindowProofs`:

* `TypeCorrect`: `TypeOK`, together with `InHandOK`, the position of a command
  between queue and socket, is an inductive invariant. `InHandOK` is what makes
  `Head(inHand)` a line when `Send` sends it.
* `CommandsAreKept`: `CommandsKept`. Only three actions move a command
  (`CommandSteps`); for each, the concatenation `sent \o inHand \o outgoing` is
  regrouped. `InHandOK` is needed for `TakeCommand`, which would overwrite a
  command in hand.
* `CommandsImplementFifo`: each step maps to `Put`, `Take` or a stutter of
  `FifoLink`, from `CommandsKept`: what is sent is a prefix of what was typed.
* `TextIsKept`: `TextKept`. It is not inductive alone: before the game text is in
  the handshake's two buffers. `TextInv` adds `BeforeGame` (there what was served
  is `handshake \o accumulated \o inbound`, and nothing was emitted), `Clear`
  (outside `_read_until` its buffer is empty, so entering the game forgets
  nothing) and `BeforeConnect`.

Its second part has the invariant `PaneInv`, which adds four:

* `Session`: where the worker can be while `connected` holds. `Reading`: what was
  served is what was read and then what is unread, until a reset takes the unread
  text away; after one, what was read is a prefix.
* `Showing`: delivering the queued signals in order makes what was emitted of what
  is shown. It is stated as the existence of a text for each moment in between, not
  as a recursive concatenation of the queue, so that a signal put at the end or
  taken from the front changes it at one place and no induction is needed.
* `Telling`: a "closed" signal is the last of the queue, and it is there, or its
  notice in the pane, only when the worker is over (`Done`): in a session, with
  nothing held back.
* `ClosedNoticeComesLast` (`ClosedNoticeIsLast`) and `NothingFollowsClosed`
  (`NothingAfterClosed`) follow from `Telling` with `Showing`.
  `TranscriptImplementsFifo`: from the server to the pane, each step is `Put`,
  `Take` or a stutter of `FifoLink`; a reset loses the end of the text, never the
  middle.

`ClientSessionProofs`, whose invariant adds three more:

* `Pacer`: the time since the last command went out is the worker's own
  `sinceSend`, and `Send` is reached only at `MinInterval`. Hence `CommandsArePaced`
  (`Pacing`), however long a send takes.
* `Join`: while the window waits, what is left of the wait is more than `Cost`, the
  ticks the worker still needs: what is left of the call it is in, and
  `MinInterval + PollTimeout` for each queued command. A tick lowers both by one and
  no other step raises `Cost`. Hence `JoinIsInTime` (`JoinInTime`).
* `Shaking`: for each position of the worker, the phases the server may be in and
  the lines that may be under way, as a table. The worker learns of a phase only
  from text, so the lemmas `SettingsAreLast` and `SecondModeTag` are needed: when
  the marker is found in what the server has sent by then (`ServedBy`), the server
  is at the phase that sends nothing before the next line. Hence
  `HandshakeIsInStep` (`HandshakeInStep`): while the server has not closed, the ready
  lines are never early. After an EOF they go out without their marker, which is the
  finding of `handshake_eof`.

### the display filter

Assumed: `ItemsAssumption`, by which what the server sends is a text, and, for
`NothingIsWithheld` alone, `ItemsAreWhole`: each unit of it ends behind a tag or a
character, not inside a tag, and leaves none of the droppable tags open. Without it
the property is false: when a server opens a panel and never closes it, what follows
is kept back. TLC evaluates it on the units of both filter runs.

Text is data and `Keep`, `StillOpen` and `FlattenSeq` are recursive functions of it.
The induction theorems of the library cannot be applied, so `RecursionLemmas` proves
its own from `WFMin`, whose statement is about sets: a set of natural numbers has a
least element (`LeastOf`), so a set that holds 0 and each next number holds all
(`Counting`), so a function can be made step by step (`Recursion`) and a set that
holds the empty text and each text with one more piece holds every text
(`Spelling`). `InOrder`, the positions kept, each once and in order, is the first
use of them.

* `CutoffIsThere`: for every text, the cutoff the five holdbacks leave one after the
  other lies within the text, so `feed()` parts its buffer in two.
* `FoldedHasNoRun`: what `_BLANK_LINES_RE` leaves has no three line ends in a row. A
  position between two kept ones was dropped, so it and the two before it are line
  ends; a third in a row would have been dropped too.
* `Invariance`: `CountIsExact`. `_trailing_newlines` is the number of line ends with
  which the text shown so far ends, and that text has no run of three. Exactness is
  needed in both directions: a count too low lets a run through, and a count too
  high would not stay the number of line ends when a call shows only line ends. From
  it `TypeCorrect` and `NoBlankRunIsShown` (`NoBlankRuns`).
* `NothingIsWithheld`: `NothingWithheld`, from the invariant `Whole`. For each
  droppable tag, `Depth` is how many are open after a text, and `StillOpen` is empty
  exactly when it is 0. A cut of the text adds up (the depth of two parts is the depth
  of the second begun at that of the first), so what is held and what is to come leave
  none open together, however a chunk cuts them. When the last chunk is in, what is
  held leaves none open; if it also ends a line, each of the five holdbacks finds
  nothing and the cutoff is the end of the buffer.

### the login

Assumed: `GamesAssumption` (each game has a roster, the supported games are among
them), `AccountAssumption` (the valid accounts are accounts) and `ClicksAssumption`.

`LoginWindowProofs` has one inductive invariant, `Inv`. Its first part, `Exchange`, is
about the worker and the server:

* `OneLine`, `Synced`, `Answered`: at most one line or reply is under way, it is
  the line of this step or the answer to it, and between two exchanges, on a
  connection that is open, nothing is. Without `Synced` the second call of a session
  could read the answer to the first; this is what the early return of every
  parser on an error threatens. Hence `RepliesAreInStep` (`RepliesInStep`).
* `AtWork`, `AtGame`, `Walked`: which call the worker serves and at which game the
  server is for it; past F, the one the call names. Hence `LaunchesAreAsAsked`
  (`LaunchedAsAsked`).
* `Spent`: a session that started its front-end has no connection any more. Hence
  `OneFrontEnd` (`OneFrontEndPerSession`).
* `Whole`: what was found is made of whole supported games and, while the connection
  is up, of all of them that are done. Hence `ListsAreWhole` (`ListIsWhole`), for any
  number of games in any order.

The second part is about the window: `WindowTypeOK`, `Ended` (when no call is at
work the last queued signal is one that ends a call), `Hope` (an open window has an
enabled control, or there is a call, or a signal still to come) and `KilledAtExit`.
`Ended` is needed because `Hope` counts on a queue whose last slot enables
something. Hence `PlayersCanGoOn` (`Settled`), with its exception of the
empty list, from whatever cause. `TypeCorrect` is `TypeOK`.

### the handoff

`SalHandoffProofs` proves, for any set of launchers and any number of front-ends
and handoffs (`HandoffsAssumption` asks that the two bounds are natural numbers):

* `Invariance`: `Inv` is inductive. Its argument is where a key can be. `KeysIssued`
  and `KeysApart` give each call its own key, and `Fresh` says that nothing holds it
  before its file is made. `OneFile` and `FilesAreNamed` then leave one file with
  the key and no second file under its name, so that `OwnFile` is preserved by what
  other runs create and delete. `Reading` is the crux: between reading and deleting,
  the path still has the text that was read, or nothing. So the front-end that
  deletes a file is the only place left with its key (`Deleted`), and one that finds
  it deleted dies. `Presented`, `Started` and `AtWork` carry that to the properties.
* `TypeCorrect`: `TypeOK`.
* `KeysArePresentedOnce`: `KeyPresentedOnce`, from `Presented` and `Deleted`.
* `HandoffImplementsSingleUse`: each step is `Issue`, `Use` or a stutter of
  `SingleUse`; a key that is presented is one that was issued, and never issued again.
* `FrontEndsPresentTheirOwn`: `PresentsItsOwn`, from `Started`, which rests on
  `OwnFile`.
* `CutFilesAreCleanedUp`: `NoCutFileLeft`, a conjunct of `Inv`.

### the config and the keyring

Assumed: `BoundsAssumption`, `NoneAssumption`.

`LoginStoreProofs` proves, for any number of runs that follow or overlap:

* `Windows`: for each run, `Shape` (one slot at a time, and none before the window
  is open) and `FieldsHeld`: until the fields are enabled again while a login is
  pending, they are disabled, hold what that login was called with and, when its
  signal comes, what the server accepted. `_on_authenticated` reads the fields, not
  the call; this is why it stores the right password, and `reopened` is when it may
  not. Hence `RememberedPasswordsWereAccepted` (`RememberedWasAccepted`).
* `Saving`: when the last saves were neither cut short nor overlapping,
  `config.json` is empty exactly while a run is between `Truncate` and `Write`, and
  never garbled. Hence `ConfigsAreReadable` (`ConfigReadable`).
* `Template`: until an older run saves over it, the command the player wants is in the
  file, if that can be read, and in every run that loaded it since. Hence
  `TemplatesAreKept` (`TemplateKept`).
* `Files` and `TypeCorrect`: the types.

### contents on the wire

Assumed: `PasswordsAssumption` and `ListsAssumption` (the types of the inputs),
`PathsAssumption` (a path has a character: the shortest `pathlib` makes is `.`),
`HandoffsAssumption` (a field is a text) and `CaseAssumption`: changing the case turns
one character into one, neither makes a separator nor takes one away, and lower case
comes back from upper case. That is so for the ASCII names of the protocol; of
latin-1, in which the reply is decoded, it would fail for a sharp s, whose upper case
is two letters.

`EasWireProofs` has the invariant `Right`: what `parse_handoff_kv` and
`write_sal_file` hand on is made of the fields of the reply (`Handed`), and what every
function returned is right. Each computation is a few steps; the work is in the
functions, for inputs of any length:

* `ObscuringIsLossless` (`ObscuringLosesNothing`). `Xor` is a sum of eight digits; a
  byte is determined by its digits (`XorDigits`), so the exclusive or with the same
  byte twice gives back the byte (`XorTwice`), also below zero and through the two
  folds modulo 256 (`ScrambledIs`). So each byte sent determines its character
  (`SentIsRead`), and two passwords with the same text sent are one (`SentIsOfOne`);
  the byte of the key is the one at the character's place while the key lasts
  (`KeyByteIs`), which is all the reading of a password uses. Of two 7-bit numbers it is one (`XorIsSevenBits`), and what is
  then added puts it above the control characters.
* `ListIsPrefix` (`CutListIsPrefix`). The pairs of a list stand at known places of the
  reply (`FlatList`), what was received is a prefix with at most one cut field behind
  it (`ReceivedIs`), and pairing up such a prefix gives a prefix of the pairs
  (`PairsArePrefix`).
* `PathIsArgument` (`PathIsOneArgument`). The scan of the template and the scan of the
  command line run side by side: `Inserted` relates their states, equal but for the
  path in place of `{sal_path}` in the current and the finished arguments. One common
  character keeps it (`InsertedStep`), and so does `{sal_path}` against the quoted path
  in the two cases of the property: outside quotes the scan of any quoted path adds
  exactly the path to the current argument (`PathRead`, `InsertedPath`), and a path
  with nothing to quote is read as it is also inside quotes and after a backslash
  (`PlainPath`, `InsertedPlain`).
* `HandoffIsRead` (`FrontEndReadsHandoff`). A field ends its name at the first `=`
  (`PartitionIs`), and the dict keeps the last value of each name (`HandoffKvIs`). The
  SAL text is one line for each name with a value (`SalTextIs`); `splitlines` gives the
  same lines back because none has a break in it (`LinesAre`, by adding one line at a
  time); of each, the reader finds the name and the value without its blanks
  (`LineRead`). Names in upper case come back as they were, and two names never become
  one, so the dict that is read has the entries that were meant (`DictAgrees`).

### what is not proved

Only model-checked:

* all liveness, which needs ENABLED and is out of the prover's reach;
* of the display filter, `SameAsWhole`, `NarrativeKept` and `BlocksAreDropped`. They
  depend on what the server sends, as said above: the listing and the prompt of
  `filter_listing` refute the first and the last of them. A proof needs a condition on
  the units that rules such lines out and, for each of the seven functions a text goes
  through, a lemma on how it splits at a cutoff. What is proved of all texts is what
  such a proof would begin with: `CutoffIsThere`, `FoldedHasNoRun` and `Depth`.

## Plan

In order of what a failure would cost:

1. Client session (`GameLink`, `StreamWorker`, `ClientWindow`, `FifoLink`): done, its
   safety properties, action properties and both refinements proved.
2. Login session (`EasSession`, `LoginWorker`, `LoginWindow`): done, its safety and
   action properties proved.
3. `DisplayText`, `DisplayFilter`: modelled and checked; `NoBlankRuns`,
   `NothingWithheld`, the types and the cutoff proved. Left: the condition on the units
   under which `SameAsWhole` can be proved, and how each of the five holdbacks and
   each substitution splits at a cutoff.
4. `SalHandoff`, `SingleUse`: done, the safety properties and the refinement proved.
5. `LoginStore`: done, its safety properties proved.
6. `EasWire`: done, all its properties proved.

## Not modelled

Widgets, layout and wording; argument parsing and logging; UTF-8 decoding of
chunks; the hash key, session key, error code and flags of a reply, each one field
picked by position; JSON as such and file permissions; what front-ends other than
`rift-client` do with their file; the comparison of certificates. `protocol`, `engine`, `mapdb` and `pkgmanager` have no code.
