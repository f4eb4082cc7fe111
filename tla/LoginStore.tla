------------------------------ MODULE LoginStore ------------------------------
(***************************************************************************)
(* What rift-login keeps from one run to the next: config.json             *)
(* (login/config.py) and the passwords in the OS keyring                   *)
(* (login/credentials.py), with the runs of the program that read and save *)
(* them (the constructor and the slots of LoginWindow, login/ui.py).  Runs *)
(* follow one another or overlap, and each may be killed between any two   *)
(* of its steps.  The player also edits the launch command in config.json, *)
(* as docs/usage.md says.                                                  *)
(*                                                                         *)
(* The worker answers a queued call with the signals that call ends in;    *)
(* LoginWorker has what happens in between.                                *)
(*                                                                         *)
(* A definition marked "fault" is not part of the model: it is a plausible *)
(* mistake in the definition below it, which some property must notice.    *)
(***************************************************************************)
EXTENDS Naturals, Sequences, SequencesExt

CONSTANTS MaxRuns,      \* bound: runs of rift-login
          MaxClicks,    \* bound: clicks on Log In and Launch of each run, any of these
          Accounts, Passwords,
          Characters,   \* those of every account
          Commands,     \* launch commands the player may configure
          None          \* the empty string of a config field, no password, no selection

ASSUME BoundsAssumption == MaxRuns \in Nat /\ MaxClicks \subseteq [1..MaxRuns -> Nat]
ASSUME NoneAssumption == None \notin Accounts \cup Passwords \cup Characters \cup Commands

Runs == 1..MaxRuns      \* in the order in which they are started

VARIABLES config,       \* config.json: how it reads, and its data
          keyring,      \* the password of each account, or None
          run,          \* the window of each run
          accepted,     \* history: the accounts and passwords the server accepted
          cut,          \* history: of the last saves, one was cut short or two overlapped
          wanted,       \* history: the launch command the player configured last
          overwritten,  \* history: saved over since, by a run that began earlier
          unverified    \* history: accounts stored last while the fields could be edited

fileVars    == <<config, keyring>>
historyVars == <<accepted, cut, wanted, overwritten, unverified>>
vars == <<fileVars, run, historyVars>>

LoginConfig == [account_name |-> None, last_char_code |-> None, launch_command_template |-> None]
Unreadable  == {"empty", "garbled"}

LoginCall(cred) == [kind |-> "login", arg |-> cred]
SelectCall(char) == [kind |-> "select", arg |-> char]
Signal(kind) == [kind |-> kind, arg |-> None]
Handoff(char) == [kind |-> "handoff", arg |-> char]

\* Nothing but one run's window changes.
Window(r, next) == /\ run' = [run EXCEPT ![r] = next]
                   /\ UNCHANGED <<fileVars, historyVars>>

Running(r) == run[r].at \notin {"off", "gone"}

NoWindow(at) == [at |-> at, slot |-> "none", data |-> LoginConfig, fields |-> <<None, None>>,
                 remember |-> FALSE, enabled |-> FALSE, listed |-> FALSE, selected |-> None,
                 launchable |-> FALSE, calls |-> << >>, signals |-> << >>, clicks |-> 0,
                 older |-> FALSE, reopened |-> FALSE]

-------------------------------------------------------------------------------
(* The constructor of LoginWindow. *)

LoadWithoutTemplate(r) == [config.data EXCEPT !.launch_command_template = None]   \* fault
LoadData(r) == config.data

\* load(): a file that is not JSON raises, and there is no window.
Start(r) ==
  /\ run[r].at = "off" /\ \A q \in 1..r-1 : run[q].at # "off"
  /\ Window(r, IF config.is \in Unreadable THEN NoWindow("gone")
               ELSE [NoWindow("prefill") EXCEPT !.data = IF config.is = "absent" THEN LoginConfig
                                                         ELSE LoadData(r)])

\* A keyring that raises here ends the run like a kill.
Prefill(r) ==
  /\ run[r].at = "prefill"
  /\ LET account == run[r].data.account_name
         saved == IF account = None THEN None ELSE keyring[account]
     IN Window(r, [run[r] EXCEPT !.at = "open", !.fields = <<account, saved>>,
                                 !.remember = saved # None, !.enabled = TRUE])

-------------------------------------------------------------------------------
(* The player. *)

\* A login is queued, running, or its `authenticated` not delivered yet.
LoginPending(r) == \/ \E call \in ToSet(run[r].calls) : call.kind = "login"
                   \/ \E s \in ToSet(run[r].signals) : s.kind = "authenticated"

Typed == {[fields |-> cred, remember |-> tick] : cred \in Accounts \X Passwords, tick \in BOOLEAN}
Filled(r, typed) == [run[r] EXCEPT !.fields = typed.fields, !.remember = typed.remember]

\* What the fields hold matters at the click on Log In, which has it typed, and
\* during a login: it is here only that the player may change them without one.
EditsFields(r) ==
  /\ run[r].at = "open" /\ run[r].enabled /\ LoginPending(r)
  /\ \E typed \in Typed : run[r] # Filled(r, typed) /\ Window(r, Filled(r, typed))

Clicks(r, next) == /\ \E bound \in MaxClicks : /\ run[r].clicks < bound[r]
                                               /\ \A q \in Runs : run[q].clicks <= bound[q]
                   /\ Window(r, [next EXCEPT !.clicks = @ + 1])

KeepEnabled(filled) == filled                                        \* fault
DisableControls(filled) == [filled EXCEPT !.enabled = FALSE]

OnLoginClicked(r) ==
  /\ run[r].at = "open" /\ run[r].enabled
  /\ \E typed \in Typed :
       Clicks(r, [DisableControls(Filled(r, typed)) EXCEPT
                    !.listed = FALSE, !.selected = None, !.launchable = FALSE,
                    !.reopened = @ /\ LoginPending(r),
                    !.calls = Append(@, LoginCall(typed.fields))])

OnSelectionChanged(r) ==
  /\ run[r].at = "open" /\ run[r].listed
  /\ \E char \in (Characters \cup {None}) \ {run[r].selected} :
       Window(r, [run[r] EXCEPT !.selected = char, !.launchable = char # None])

OnLaunchClicked(r) ==
  /\ run[r].at = "open" /\ run[r].launchable /\ run[r].selected # None
  /\ Clicks(r, [run[r] EXCEPT !.launchable = FALSE,
                              !.calls = Append(@, SelectCall(run[r].selected))])

Closes(r) == run[r].at = "open" /\ Window(r, NoWindow("gone"))

\* With an editor, in config.json; a run that has read the file does not see it.
EditsConfig ==
  /\ config.is \in {"absent", "whole"}
  /\ \E command \in Commands \ {config.data.launch_command_template} :
       /\ config' = [is |-> "whole",
                     data |-> [config.data EXCEPT !.launch_command_template = command]]
       /\ wanted' = command
  /\ overwritten' = FALSE
  /\ run' = [r \in Runs |-> [run[r] EXCEPT !.older = @ \/ Running(r)]]
  /\ UNCHANGED <<keyring, accepted, cut, unverified>>

Player(r) == \/ EditsFields(r) \/ OnLoginClicked(r) \/ OnSelectionChanged(r)
             \/ OnLaunchClicked(r) \/ Closes(r)

-------------------------------------------------------------------------------
(* The worker's thread: login() and select_character(), each by its signals. *)
Endings(call) == IF call.kind = "login"
                 THEN {<<Signal("auth_failed")>>, <<Signal("error")>>,
                       <<Signal("authenticated"), Signal("characters")>>,
                       <<Signal("authenticated"), Signal("error")>>}
                 ELSE {<<Signal("error")>>, <<Handoff(call.arg), Signal("launched")>>,
                       <<Handoff(call.arg), Signal("error")>>}

Serve(r) ==
  /\ Running(r) /\ run[r].calls # << >>
  /\ \E ending \in Endings(Head(run[r].calls)) :
       /\ run' = [run EXCEPT ![r].calls = Tail(@), ![r].signals = @ \o ending]
       /\ accepted' = IF Head(ending).kind = "authenticated"
                      THEN accepted \cup {Head(run[r].calls).arg} ELSE accepted
  /\ UNCHANGED <<fileVars, cut, wanted, overwritten, unverified>>

-------------------------------------------------------------------------------
(* The signals, delivered while no other slot runs. *)
Delivers(r, kind) == /\ run[r].at = "open" /\ run[r].signals # << >>
                     /\ Head(run[r].signals).kind = kind
Heard(r) == [run[r] EXCEPT !.signals = Tail(@)]

\* The slot runs on through config.save(), the steps below.
Saves(r, slot, data) == Window(r, [Heard(r) EXCEPT !.at = "truncate", !.slot = slot, !.data = data])

StorePasswordInConfig(r) == [run[r].data EXCEPT !.account_name = run[r].fields[2]]   \* fault
AccountStored(r) == [run[r].data EXCEPT !.account_name = run[r].fields[1]]

OnAuthenticated(r) == /\ Delivers(r, "authenticated")
                      /\ Saves(r, "authenticated", AccountStored(r))

OnHandoffReady(r) ==
  /\ Delivers(r, "handoff")
  /\ IF run[r].selected = None THEN Window(r, Heard(r))
     ELSE Saves(r, "handoff", [run[r].data EXCEPT !.last_char_code = run[r].selected])

OnCharactersReady(r) ==
  /\ Delivers(r, "characters")
  /\ Window(r, [Heard(r) EXCEPT !.listed = TRUE, !.selected = None, !.launchable = FALSE])

OnError(r) ==
  /\ Delivers(r, "error")
  /\ Window(r, [Heard(r) EXCEPT !.enabled = TRUE,
                                !.launchable = run[r].selected # None,
                                !.reopened = @ \/ LoginPending(r)])

OnAuthFailed(r) ==
  /\ Delivers(r, "auth_failed")
  /\ Window(r, [Heard(r) EXCEPT !.enabled = TRUE, !.reopened = @ \/ LoginPending(r)])

OnLaunched(r) == Delivers(r, "launched") /\ Window(r, NoWindow("gone"))

-------------------------------------------------------------------------------
(* config.save(): write_text() truncates the file, then writes all of it.  *)
SlotDone(r) == run' = [run EXCEPT ![r].at = "open", ![r].slot = "none"]

\* Opening the file for appending.
NoTruncation == UNCHANGED config                                     \* fault
Truncation == config' = [is |-> "empty", data |-> LoginConfig]

Truncate(r) == /\ run[r].at = "truncate" /\ Truncation
               /\ run' = [run EXCEPT ![r].at = "write"]
               /\ cut' = (cut /\ \E q \in Runs \ {r} : run[q].at = "write")
               /\ UNCHANGED <<keyring, accepted, wanted, overwritten, unverified>>

\* Over what another run wrote since the truncation: the end of a longer text
\* remains.
Write(r) ==
  /\ run[r].at = "write"
  /\ config' \in {[is |-> "whole", data |-> run[r].data]}
                 \cup IF config.is = "empty" THEN {} ELSE {[is |-> "garbled", data |-> LoginConfig]}
  /\ cut' = (cut \/ \E q \in Runs \ {r} : run[q].at = "write")
  /\ overwritten' = (overwritten \/ run[r].older)
  /\ IF run[r].slot = "authenticated" THEN run' = [run EXCEPT ![r].at = "keyring"]
     ELSE SlotDone(r)
  /\ UNCHANGED <<keyring, accepted, wanted, unverified>>

\* An exception ends the slot: the keyring is not touched.
SaveRaises(r) == /\ run[r].at \in {"truncate", "write"} /\ SlotDone(r)
                 /\ cut' = (cut \/ run[r].at = "write")
                 /\ UNCHANGED <<fileVars, accepted, wanted, overwritten, unverified>>

\* The rest of _on_authenticated: save_password or delete_password.
StorePassword(r) ==
  /\ run[r].at = "keyring" /\ SlotDone(r)
  /\ keyring' = [keyring EXCEPT ![run[r].fields[1]] =
                   IF run[r].remember THEN run[r].fields[2] ELSE None]
  /\ unverified' = IF run[r].reopened THEN unverified \cup {run[r].fields[1]}
                   ELSE unverified \ {run[r].fields[1]}
  /\ UNCHANGED <<config, accepted, cut, wanted, overwritten>>

KeyringRaises(r) == /\ run[r].at = "keyring" /\ SlotDone(r)
                    /\ UNCHANGED <<fileVars, historyVars>>

Killed(r) == /\ Running(r) /\ run' = [run EXCEPT ![r] = NoWindow("gone")]
             /\ cut' = (cut \/ run[r].at = "write")
             /\ UNCHANGED <<fileVars, accepted, wanted, overwritten, unverified>>

LoginWindow(r) == \/ Start(r) \/ Prefill(r) \/ Serve(r)
                  \/ OnAuthenticated(r) \/ OnHandoffReady(r) \/ OnCharactersReady(r)
                  \/ OnAuthFailed(r) \/ OnError(r) \/ OnLaunched(r)
                  \/ Truncate(r) \/ Write(r) \/ SaveRaises(r)
                  \/ StorePassword(r) \/ KeyringRaises(r)

Stopped == (\A r \in Runs : run[r].at = "gone") /\ UNCHANGED vars

Init == /\ config = [is |-> "absent", data |-> LoginConfig]
        /\ keyring = [a \in Accounts |-> None]
        /\ run = [r \in Runs |-> NoWindow("off")]
        /\ accepted = {} /\ cut = FALSE /\ wanted = None /\ overwritten = FALSE /\ unverified = {}

Next == EditsConfig \/ Stopped \/ \E r \in Runs : LoginWindow(r) \/ Player(r) \/ Killed(r)

Spec == Init /\ [][Next]_vars

-------------------------------------------------------------------------------
\* Every variable has its type; what is saved in config.json is an account, a
\* character and a command, and never a password.
Stored == [account_name : Accounts \cup {None}, last_char_code : Characters \cup {None},
           launch_command_template : Commands \cup {None}]
TypeOK ==
  /\ config \in [is : {"absent", "whole"} \cup Unreadable, data : Stored]
  /\ keyring \in [Accounts -> Passwords \cup {None}]
  /\ \A r \in Runs :
       /\ run[r].at \in {"off", "prefill", "open", "truncate", "write", "keyring", "gone"}
       /\ run[r].data \in Stored
       /\ run[r].fields \in (Accounts \cup {None}) \X (Passwords \cup {None})
       /\ run[r].selected \in Characters \cup {None}
       /\ run[r].launchable => run[r].selected # None
       /\ run[r].slot # "none" <=> run[r].at \in {"truncate", "write", "keyring"}
  /\ accepted \subseteq Accounts \X Passwords /\ unverified \subseteq Accounts

\* A password in the keyring, which the next run fills in, is one the server
\* accepted for that account.  Exempt is only an account whose last login came to
\* be stored with `reopened`: the error of another call had enabled the fields
\* while a login was pending, and _on_authenticated stores what they hold when the
\* signal arrives.
RememberedWasAccepted ==
  \A a \in Accounts : keyring[a] # None /\ a \notin unverified => <<a, keyring[a]>> \in accepted

\* The config can be read at the next start, unless a run is just saving it, or
\* the last save was killed, failed half way, or overlapped with another: the next
\* save of a single run puts it right.
ConfigReadable ==
  config.is \in Unreadable => cut \/ \E r \in Runs : run[r].at = "write"

\* The launch command the player has configured stays, whatever runs load and
\* save the file after that, in whatever order, at the same time, or are killed in
\* it; only a run that had loaded the file before saves the old one over it.
TemplateKept ==
  config.is = "whole" /\ ~overwritten => config.data.launch_command_template = wanted
===============================================================================
