--------------------------- MODULE LoginStoreProofs ---------------------------
(***************************************************************************)
(* Theorems about LoginStore for every value of its constants: any number  *)
(* of runs of rift-login, one after another or overlapping, killed         *)
(* anywhere, any accounts and passwords and any number of clicks.          *)
(***************************************************************************)
EXTENDS LoginStore, SequenceTheorems, TLAPS

USE BoundsAssumption, NoneAssumption

-------------------------------------------------------------------------------
(* A run's window. *)
Positions == {"off", "prefill", "open", "truncate", "write", "keyring", "gone"}
InSlot == {"truncate", "write", "keyring"}
Credentials == Accounts \X Passwords
Calls == [kind : {"login"}, arg : Credentials] \cup [kind : {"select"}, arg : Characters]
SignalKinds == {"authenticated", "auth_failed", "characters", "handoff", "launched", "error"}
Signals == [kind : SignalKinds, arg : Characters \cup {None}]

WindowRecord ==
  [at : Positions, slot : {"none", "authenticated", "handoff"}, data : Stored,
   fields : (Accounts \cup {None}) \X (Passwords \cup {None}),
   remember : BOOLEAN, enabled : BOOLEAN, listed : BOOLEAN,
   selected : Characters \cup {None}, launchable : BOOLEAN,
   calls : Seq(Calls), signals : Seq(Signals), clicks : Nat,
   older : BOOLEAN, reopened : BOOLEAN]

LoginQueued(w) == \E call \in ToSet(w.calls) : call.kind = "login"
Authenticating(w) == \E s \in ToSet(w.signals) : s.kind = "authenticated"
Pending(w) == LoginQueued(w) \/ Authenticating(w)

\* A run begins with nothing queued, and only one slot runs at a time.
Shape(w) == /\ w.slot # "none" <=> w.at \in InSlot
            /\ w.at = "keyring" => w.slot = "authenticated"
            /\ w.launchable => w.selected # None
            /\ w.at \in {"off", "prefill", "gone"} => w.calls = << >> /\ w.signals = << >>
            /\ Pending(w) \/ w.slot = "authenticated" => w.fields \in Credentials

\* Until the fields are enabled again during a login, they hold what that login
\* was called with, and when its signal comes the server has accepted them.
FieldsHeld(w, acc) ==
  ~w.reopened => /\ Pending(w) => ~w.enabled
                 /\ \A call \in ToSet(w.calls) : call.kind = "login" => call.arg = w.fields
                 /\ Authenticating(w) \/ w.slot = "authenticated" => w.fields \in acc

Windows == /\ run \in [Runs -> WindowRecord]
           /\ \A r \in Runs : Shape(run[r]) /\ FieldsHeld(run[r], accepted)

-------------------------------------------------------------------------------
(* The files. *)
Files == /\ config \in [is : {"absent", "whole"} \cup Unreadable, data : Stored]
         /\ keyring \in [Accounts -> Passwords \cup {None}]
         /\ accepted \subseteq Credentials /\ unverified \subseteq Accounts
         /\ cut \in BOOLEAN /\ overwritten \in BOOLEAN /\ wanted \in Commands \cup {None}

\* Without a cut save, config.json is empty exactly while a run is about to
\* write it, and never garbled.
Saving == ~cut => /\ config.is # "garbled"
                  /\ config.is = "empty" <=> \E r \in Runs : run[r].at = "write"

\* The command the player wants is in the file, and in every run that has not
\* loaded the file before it was there.
Template == ~overwritten =>
  /\ config.is = "whole" => config.data.launch_command_template = wanted
  /\ config.is = "absent" => wanted = None
  /\ \A r \in Runs : Running(r) /\ ~run[r].older => run[r].data.launch_command_template = wanted

Inv == /\ Windows /\ Files /\ RememberedWasAccepted
       /\ Saving /\ Template

-------------------------------------------------------------------------------
(* Lemmas about sequences as queues. *)
LEMMA NothingIn == ToSet(<< >>) = {}
  BY DEF ToSet

LEMMA OnesIn == /\ \A x : ToSet(<<x>>) = {x}
                /\ \A x, y : ToSet(<<x, y>>) = {x, y}
  BY DEF ToSet

LEMMA AppendedIn ==
  ASSUME NEW S, NEW q \in Seq(S), NEW x \in S
  PROVE  Append(q, x) \in Seq(S) /\ ToSet(Append(q, x)) = ToSet(q) \cup {x}
<1>1. /\ Append(q, x) \in Seq(S) /\ Len(q) \in Nat /\ Len(Append(q, x)) = Len(q) + 1
      /\ Append(q, x)[Len(q) + 1] = x /\ \A i \in 1..Len(q) : Append(q, x)[i] = q[i]
      /\ DOMAIN q = 1..Len(q) /\ DOMAIN Append(q, x) = 1..Len(q) + 1
  OBVIOUS
<1>2. 1..Len(q) + 1 = 1..Len(q) \cup {Len(q) + 1}
  BY <1>1
<1> QED
  BY <1>1, <1>2 DEF ToSet

LEMMA HeadAndTailIn ==
  ASSUME NEW S, NEW q \in Seq(S), q # << >>
  PROVE  /\ Head(q) \in S /\ Tail(q) \in Seq(S)
         /\ Head(q) \in ToSet(q) /\ ToSet(Tail(q)) \subseteq ToSet(q)
<1>1. /\ Head(q) \in S /\ Tail(q) \in Seq(S)
      /\ Len(Tail(q)) = Len(q) - 1 /\ \A i \in 1..Len(Tail(q)) : Tail(q)[i] = q[i + 1]
  BY HeadTailProperties
<1>2. Len(q) \in Nat \ {0} /\ Head(q) = q[1] /\ DOMAIN q = 1..Len(q) /\ DOMAIN Tail(q) = 1..Len(q) - 1
  BY <1>1, EmptySeq, LenProperties
<1>3. 1 \in DOMAIN q /\ \A i \in DOMAIN Tail(q) : i + 1 \in DOMAIN q /\ Tail(q)[i] = q[i + 1]
  BY <1>1, <1>2
<1> QED
  BY <1>1, <1>2, <1>3 DEF ToSet

LEMMA ConcatenatedIn ==
  ASSUME NEW S, NEW q \in Seq(S), NEW t \in Seq(S)
  PROVE  q \o t \in Seq(S) /\ ToSet(q \o t) = ToSet(q) \cup ToSet(t)
<1>1. /\ q \o t \in Seq(S) /\ Len(q) \in Nat /\ Len(t) \in Nat /\ Len(q \o t) = Len(q) + Len(t)
      /\ \A i \in 1..Len(q) : (q \o t)[i] = q[i]
      /\ \A i \in 1..Len(t) : (q \o t)[Len(q) + i] = t[i]
      /\ DOMAIN q = 1..Len(q) /\ DOMAIN t = 1..Len(t) /\ DOMAIN (q \o t) = 1..Len(q) + Len(t)
  OBVIOUS
<1>2. \A i \in DOMAIN (q \o t) : i \in DOMAIN q \/ (i - Len(q) \in DOMAIN t /\ i = Len(q) + (i - Len(q)))
  BY <1>1
<1>3. /\ \A i \in DOMAIN q : i \in DOMAIN (q \o t)
      /\ \A i \in DOMAIN t : Len(q) + i \in DOMAIN (q \o t)
  BY <1>1
<1>4. ToSet(q \o t) \subseteq ToSet(q) \cup ToSet(t)
  <2> SUFFICES ASSUME NEW i \in DOMAIN (q \o t) PROVE (q \o t)[i] \in ToSet(q) \cup ToSet(t)
    BY DEF ToSet
  <2>1. CASE i \in DOMAIN q
    BY <1>1, <2>1 DEF ToSet
  <2>2. CASE i - Len(q) \in DOMAIN t /\ i = Len(q) + (i - Len(q))
    BY <1>1, <2>2 DEF ToSet
  <2> QED
    BY <1>2, <2>1, <2>2
<1>5. ToSet(q) \cup ToSet(t) \subseteq ToSet(q \o t)
  BY <1>1, <1>3 DEF ToSet
<1> QED
  BY <1>1, <1>4, <1>5

-------------------------------------------------------------------------------
(* One run's window changes. *)
LEMMA MoreAccepted ==
  ASSUME NEW w, NEW acc, NEW more, acc \subseteq more, FieldsHeld(w, acc) PROVE FieldsHeld(w, more)
  BY DEF FieldsHeld

LEMMA OneWindow ==
  ASSUME Windows, NEW r \in Runs, NEW w \in WindowRecord, run' = [run EXCEPT ![r] = w],
         Shape(w), FieldsHeld(w, accepted'), accepted \subseteq accepted'
  PROVE  Windows' /\ run'[r] = w /\ \A q \in Runs \ {r} : run'[q] = run[q]
<1>1. run' \in [Runs -> WindowRecord] /\ run'[r] = w /\ \A q \in Runs \ {r} : run'[q] = run[q]
  BY DEF Windows
<1>2. \A q \in Runs : Shape(run'[q]) /\ FieldsHeld(run'[q], accepted')
  <2> SUFFICES ASSUME NEW q \in Runs \ {r} PROVE Shape(run'[q]) /\ FieldsHeld(run'[q], accepted')
    BY <1>1
  <2>1. Shape(run[q]) /\ FieldsHeld(run[q], accepted)
    BY DEF Windows
  <2> QED
    BY <1>1, <2>1, MoreAccepted
<1> QED
  BY <1>1, <1>2 DEF Windows

\* What a step of one window that leaves the files alone has to keep.
LEMMA WindowStep ==
  ASSUME Inv, NEW r \in Runs, NEW w \in WindowRecord, Window(r, w),
         Shape(w), FieldsHeld(w, accepted), w.at = "write" <=> run[r].at = "write",
         ~overwritten /\ w.at \notin {"off", "gone"} /\ ~w.older
           => w.data.launch_command_template = wanted
  PROVE  Inv'
<1>0. run' = [run EXCEPT ![r] = w] /\ UNCHANGED <<fileVars, historyVars>>
  BY DEF Window
<1> USE DEF fileVars, historyVars
<1>1. Windows' /\ run'[r] = w /\ \A q \in Runs \ {r} : run'[q] = run[q]
  BY <1>0, OneWindow DEF Inv
<1>2. Files' /\ RememberedWasAccepted'
  BY <1>0 DEF Inv, Files, RememberedWasAccepted
<1>3. Saving'
  BY <1>0, <1>1 DEF Inv, Saving
<1>4. Template'
  BY <1>0, <1>1 DEF Inv, Template, Running
<1> QED
  BY <1>1, <1>2, <1>3, <1>4 DEF Inv

-------------------------------------------------------------------------------
(* The records. *)
LEMMA NoWindowIs ==
  ASSUME NEW at \in {"off", "prefill", "gone"}
  PROVE  LET w == NoWindow(at)
         IN /\ w \in WindowRecord /\ w.at = at /\ ~w.older
            /\ Shape(w) /\ \A acc : FieldsHeld(w, acc)
<1> DEFINE w == NoWindow(at)
<1>1. << >> \in Seq(Calls) /\ << >> \in Seq(Signals)
  BY EmptySeq
<1>2. LoginConfig \in Stored
  BY DEF LoginConfig, Stored
<1>3. w \in WindowRecord /\ w.at = at
  BY <1>1, <1>2 DEF NoWindow, WindowRecord, Positions
<1>4. w.slot = "none" /\ w.calls = << >> /\ w.signals = << >>
  BY DEF NoWindow
<1>5. ~w.older /\ ~w.enabled /\ ~w.launchable
  BY DEF NoWindow
<1> HIDE DEF w
<1>6. ~Pending(w) /\ ~Authenticating(w)
  BY <1>4, NothingIn DEF Pending, LoginQueued, Authenticating
<1>7. Shape(w)
  BY <1>3, <1>4, <1>5, <1>6 DEF Shape, InSlot
<1>8. \A acc : FieldsHeld(w, acc)
  BY <1>4, <1>6, NothingIn DEF FieldsHeld
<1> QED
  BY <1>3, <1>5, <1>7, <1>8 DEF w

LEMMA RunIs ==
  ASSUME Inv, NEW r \in Runs
  PROVE  /\ run[r] \in WindowRecord /\ Shape(run[r]) /\ FieldsHeld(run[r], accepted)
         /\ ~overwritten /\ Running(r) /\ ~run[r].older
              => run[r].data.launch_command_template = wanted
  BY DEF Inv, Windows, Template

LEMMA DataIs == \A d \in Stored : /\ d.account_name \in Accounts \cup {None}
                                  /\ d.launch_command_template \in Commands \cup {None}
  BY DEF Stored

-------------------------------------------------------------------------------
(* The constructor. *)
LEMMA StartInv == ASSUME Inv, NEW r \in Runs, Start(r) PROVE Inv'
<1>0. run[r].at = "off"
  BY DEF Start
<1>1. CASE config.is \in Unreadable
  <2>1. Window(r, NoWindow("gone"))
    BY <1>1 DEF Start
  <2> QED
    BY <1>0, <2>1, NoWindowIs, WindowStep
<1>2. CASE config.is \notin Unreadable
  <2> DEFINE data == IF config.is = "absent" THEN LoginConfig ELSE LoadData(r)
             v == NoWindow("prefill")
             w == [v EXCEPT !.data = data]
  <2>1. Window(r, w)
    BY <1>2 DEF Start
  <2>2. data \in Stored
    BY DEF LoadData, LoginConfig, Stored, Inv, Files
  <2>3. ~overwritten => data.launch_command_template = wanted
    <3>1. config.is \in {"absent", "whole"}
      BY <1>2 DEF Inv, Files
    <3>2. LoginConfig.launch_command_template = None
      BY DEF LoginConfig
    <3> QED
      BY <3>1, <3>2 DEF Inv, Template, LoadData
  <2>4. v \in WindowRecord /\ v.at = "prefill" /\ Shape(v) /\ FieldsHeld(v, accepted)
    BY NoWindowIs
  <2> HIDE DEF v, data
  <2>5. /\ w \in WindowRecord /\ w.data = data /\ w.at = v.at /\ w.slot = v.slot /\ w.fields = v.fields
        /\ w.selected = v.selected /\ w.calls = v.calls /\ w.signals = v.signals
        /\ w.enabled = v.enabled /\ w.launchable = v.launchable /\ w.reopened = v.reopened
    BY <2>2, <2>4 DEF WindowRecord
  <2> HIDE DEF w
  <2>6. Shape(w) /\ FieldsHeld(w, accepted)
    BY <2>4, <2>5 DEF Shape, FieldsHeld, Pending, LoginQueued, Authenticating
  <2> QED
    BY <1>0, <2>1, <2>3, <2>4, <2>5, <2>6, WindowStep
<1> QED
  BY <1>1, <1>2

LEMMA PrefillInv == ASSUME Inv, NEW r \in Runs, Prefill(r) PROVE Inv'
<1> DEFINE v == run[r]
           account == v.data.account_name
           saved == IF account = None THEN None ELSE keyring[account]
           w == [v EXCEPT !.at = "open", !.fields = <<account, saved>>,
                          !.remember = saved # None, !.enabled = TRUE]
<1>0. v.at = "prefill" /\ Window(r, w)
  BY DEF Prefill
<1>1. v \in WindowRecord /\ Shape(v)
  BY RunIs
<1>2. account \in Accounts \cup {None} /\ saved \in Passwords \cup {None}
  <2>1. v.data \in Stored
    BY <1>1 DEF WindowRecord
  <2> QED
    BY <2>1, DataIs DEF Inv, Files
<1>3. v.calls = << >> /\ v.signals = << >> /\ v.slot = "none"
  BY <1>0, <1>1 DEF Shape, InSlot, WindowRecord
<1> HIDE DEF v, account, saved
<1>4. (saved # None) \in BOOLEAN
  OBVIOUS
<1>5. /\ w \in WindowRecord /\ w.at = "open" /\ w.slot = v.slot /\ w.data = v.data
      /\ w.selected = v.selected /\ w.calls = v.calls /\ w.signals = v.signals
      /\ w.launchable = v.launchable /\ w.older = v.older
  BY <1>1, <1>2, <1>4 DEF WindowRecord, Positions
<1> HIDE DEF w
<1>6. ~Pending(w) /\ ~Authenticating(w)
  BY <1>3, <1>5, NothingIn DEF Pending, LoginQueued, Authenticating
<1>7. Shape(w)
  BY <1>1, <1>3, <1>5, <1>6 DEF Shape, InSlot
<1>8. FieldsHeld(w, accepted)
  BY <1>3, <1>5, <1>6, NothingIn DEF FieldsHeld
<1>9. ~overwritten /\ ~w.older => w.data.launch_command_template = wanted
  BY <1>0, <1>5, RunIs DEF Running, v
<1> QED
  BY <1>0, <1>5, <1>7, <1>8, <1>9, WindowStep DEF v

-------------------------------------------------------------------------------
(* The player. *)
LEMMA TypedIs == \A typed \in Typed : typed.fields \in Credentials /\ typed.remember \in BOOLEAN
  BY DEF Typed, Credentials

LEMMA FilledIs ==
  ASSUME Inv, NEW r \in Runs, NEW typed \in Typed
  PROVE  LET v == run[r]
             w == Filled(r, typed)
         IN /\ w \in WindowRecord /\ w.fields = typed.fields
            /\ w.at = v.at /\ w.slot = v.slot /\ w.data = v.data /\ w.selected = v.selected
            /\ w.launchable = v.launchable /\ w.calls = v.calls /\ w.signals = v.signals
            /\ w.older = v.older /\ w.reopened = v.reopened
<1>1. typed.fields \in Credentials /\ typed.remember \in BOOLEAN
  BY TypedIs
<1>2. typed.fields \in (Accounts \cup {None}) \X (Passwords \cup {None})
  BY <1>1 DEF Credentials
<1> DEFINE v == run[r]
           w == [v EXCEPT !.fields = typed.fields, !.remember = typed.remember]
<1>3. Filled(r, typed) = w
  BY DEF Filled
<1>4. v \in WindowRecord
  BY RunIs
<1> HIDE DEF v
<1>5. /\ w \in WindowRecord /\ w.fields = typed.fields
      /\ w.at = v.at /\ w.slot = v.slot /\ w.data = v.data /\ w.selected = v.selected
      /\ w.launchable = v.launchable /\ w.calls = v.calls /\ w.signals = v.signals
      /\ w.older = v.older /\ w.reopened = v.reopened
  BY <1>1, <1>2, <1>4 DEF WindowRecord
<1> QED
  BY <1>3, <1>5 DEF v

LEMMA EditsFieldsInv == ASSUME Inv, NEW r \in Runs, EditsFields(r) PROVE Inv'
<1> DEFINE v == run[r]
<1>0. PICK typed \in Typed : Window(r, Filled(r, typed))
  BY DEF EditsFields
<1> DEFINE w == Filled(r, typed)
<1>1. v \in WindowRecord /\ Shape(v) /\ FieldsHeld(v, accepted)
  BY RunIs
<1>2. v.at = "open" /\ v.enabled /\ Pending(v)
  BY DEF EditsFields, LoginPending, Pending, LoginQueued, Authenticating
<1>3. v.reopened
  BY <1>1, <1>2 DEF FieldsHeld
<1>4. w \in WindowRecord /\ w.fields = typed.fields
      /\ w.at = v.at /\ w.slot = v.slot /\ w.data = v.data /\ w.selected = v.selected
      /\ w.launchable = v.launchable /\ w.calls = v.calls /\ w.signals = v.signals
      /\ w.older = v.older /\ w.reopened = v.reopened
  BY FilledIs
<1> HIDE DEF w
<1>5. Shape(w)
  BY <1>1, <1>4, TypedIs DEF Shape
<1>6. FieldsHeld(w, accepted)
  BY <1>3, <1>4 DEF FieldsHeld
<1>7. ~overwritten /\ ~w.older => w.data.launch_command_template = wanted
  BY <1>2, <1>4, RunIs DEF Running
<1> QED
  BY <1>0, <1>4, <1>5, <1>6, <1>7, WindowStep DEF w

LEMMA OnLoginClickedInv == ASSUME Inv, NEW r \in Runs, OnLoginClicked(r) PROVE Inv'
<1> DEFINE v == run[r]
<1>0. PICK typed \in Typed :
        Clicks(r, [DisableControls(Filled(r, typed)) EXCEPT
                    !.listed = FALSE, !.selected = None, !.launchable = FALSE,
                    !.reopened = @ /\ LoginPending(r),
                    !.calls = Append(@, LoginCall(typed.fields))])
  BY DEF OnLoginClicked
<1> DEFINE f == Filled(r, typed)
           pending == LoginPending(r)
           c == LoginCall(typed.fields)
           d == [f EXCEPT !.enabled = FALSE]
           u == [d EXCEPT !.listed = FALSE, !.selected = None, !.launchable = FALSE,
                          !.reopened = @ /\ pending, !.calls = Append(@, c)]
           w == [u EXCEPT !.clicks = @ + 1]
<1>1. v \in WindowRecord /\ Shape(v) /\ FieldsHeld(v, accepted) /\ v.at = "open" /\ v.enabled
  BY RunIs DEF OnLoginClicked
<1>p. pending <=> Pending(v)
  BY DEF LoginPending, Pending, LoginQueued, Authenticating
<1>2. Window(r, w)
  BY <1>0 DEF Clicks, DisableControls
<1>3. f \in WindowRecord /\ f.fields = typed.fields
      /\ f.at = v.at /\ f.slot = v.slot /\ f.data = v.data
      /\ f.calls = v.calls /\ f.signals = v.signals
      /\ f.older = v.older /\ f.reopened = v.reopened
  BY FilledIs
<1>4. c \in Calls /\ c.kind = "login" /\ c.arg = typed.fields
  BY TypedIs DEF LoginCall, Calls
<1>5. Append(f.calls, c) \in Seq(Calls) /\ ToSet(Append(f.calls, c)) = ToSet(f.calls) \cup {c}
  <2>1. f.calls \in Seq(Calls)
    BY <1>3 DEF WindowRecord
  <2> QED
    BY <1>4, <2>1, AppendedIn
<1> HIDE DEF f, c, pending
<1>6. /\ d \in WindowRecord /\ ~d.enabled /\ d.fields = f.fields /\ d.at = f.at /\ d.slot = f.slot
      /\ d.data = f.data /\ d.calls = f.calls /\ d.signals = f.signals
      /\ d.older = f.older /\ d.reopened = f.reopened
  BY <1>3 DEF WindowRecord
<1> HIDE DEF d
<1>7. /\ u \in WindowRecord /\ u.enabled = d.enabled /\ ~u.launchable /\ u.fields = d.fields
      /\ u.at = d.at /\ u.slot = d.slot /\ u.data = d.data /\ u.signals = d.signals
      /\ u.calls = Append(f.calls, c) /\ u.older = d.older
      /\ (u.reopened <=> d.reopened /\ pending)
  BY <1>5, <1>6 DEF WindowRecord
<1> HIDE DEF u
<1>c. u.clicks + 1 \in Nat
  BY <1>7 DEF WindowRecord
<1>8. /\ w \in WindowRecord /\ w.enabled = u.enabled /\ w.launchable = u.launchable /\ w.fields = u.fields
      /\ w.at = u.at /\ w.slot = u.slot /\ w.data = u.data /\ w.signals = u.signals
      /\ w.calls = u.calls /\ w.older = u.older /\ w.reopened = u.reopened
  BY <1>7, <1>c DEF WindowRecord
<1> HIDE DEF w
<1>9. Shape(w)
  BY <1>1, <1>3, <1>6, <1>7, <1>8, TypedIs DEF Shape
<1>10. ASSUME ~w.reopened PROVE ~Pending(v)
  BY <1>p, <1>1, <1>3, <1>6, <1>7, <1>8, <1>10 DEF FieldsHeld
<1>11. FieldsHeld(w, accepted)
  <2> SUFFICES ASSUME ~w.reopened PROVE FieldsHeld(w, accepted)
    BY DEF FieldsHeld
  <2>1. ~Authenticating(w) /\ w.slot = "none" /\ ~w.enabled
    BY <1>1, <1>3, <1>6, <1>7, <1>8, <1>10 DEF Pending, Authenticating, Shape, InSlot
  <2>2. \A call \in ToSet(w.calls) : call.kind = "login" => call.arg = w.fields
    BY <1>3, <1>4, <1>5, <1>6, <1>7, <1>8, <1>10 DEF Pending, LoginQueued
  <2> QED
    BY <2>1, <2>2 DEF FieldsHeld
<1>12. ~overwritten /\ ~w.older => w.data.launch_command_template = wanted
  BY <1>1, <1>3, <1>6, <1>7, <1>8, RunIs DEF Running
<1> QED
  BY <1>1, <1>2, <1>3, <1>6, <1>7, <1>8, <1>9, <1>11, <1>12, WindowStep

LEMMA OnSelectionChangedInv == ASSUME Inv, NEW r \in Runs, OnSelectionChanged(r) PROVE Inv'
<1> DEFINE v == run[r]
<1>0. PICK char \in Characters \cup {None} :
        Window(r, [run[r] EXCEPT !.selected = char, !.launchable = char # None])
  BY DEF OnSelectionChanged
<1> DEFINE w == [v EXCEPT !.selected = char, !.launchable = char # None]
<1>1. v \in WindowRecord /\ Shape(v) /\ FieldsHeld(v, accepted) /\ v.at = "open"
  BY RunIs DEF OnSelectionChanged
<1> HIDE DEF v
<1>2. (char # None) \in BOOLEAN
  OBVIOUS
<1>3. /\ w \in WindowRecord /\ w.selected = char /\ (w.launchable <=> char # None)
      /\ w.fields = v.fields /\ w.at = v.at /\ w.slot = v.slot /\ w.data = v.data
      /\ w.calls = v.calls /\ w.signals = v.signals /\ w.enabled = v.enabled
      /\ w.older = v.older /\ w.reopened = v.reopened
  BY <1>1, <1>2 DEF WindowRecord
<1> HIDE DEF w
<1>4. Shape(w) /\ FieldsHeld(w, accepted)
  BY <1>1, <1>3 DEF Shape, FieldsHeld, Pending, LoginQueued, Authenticating
<1>5. ~overwritten /\ ~w.older => w.data.launch_command_template = wanted
  BY <1>1, <1>3, RunIs DEF Running, v
<1> QED
  BY <1>0, <1>1, <1>3, <1>4, <1>5, WindowStep DEF v, w

LEMMA OnLaunchClickedInv == ASSUME Inv, NEW r \in Runs, OnLaunchClicked(r) PROVE Inv'
<1> DEFINE v == run[r]
           c == SelectCall(v.selected)
           u == [v EXCEPT !.launchable = FALSE, !.calls = Append(@, c)]
           w == [u EXCEPT !.clicks = @ + 1]
<1>0. Window(r, w)
  BY DEF OnLaunchClicked, Clicks
<1>1. v \in WindowRecord /\ Shape(v) /\ FieldsHeld(v, accepted) /\ v.at = "open" /\ v.selected # None
  BY RunIs DEF OnLaunchClicked
<1> HIDE DEF v
<1>2. c \in Calls /\ c.kind = "select"
  BY <1>1 DEF SelectCall, Calls, WindowRecord
<1>3. Append(v.calls, c) \in Seq(Calls) /\ ToSet(Append(v.calls, c)) = ToSet(v.calls) \cup {c}
  <2>1. v.calls \in Seq(Calls)
    BY <1>1 DEF WindowRecord
  <2> QED
    BY <1>2, <2>1, AppendedIn
<1> HIDE DEF c
<1>4. /\ u \in WindowRecord /\ ~u.launchable /\ u.fields = v.fields /\ u.enabled = v.enabled
      /\ u.at = v.at /\ u.slot = v.slot /\ u.data = v.data /\ u.signals = v.signals
      /\ u.calls = Append(v.calls, c) /\ u.older = v.older /\ u.reopened = v.reopened
  BY <1>1, <1>3 DEF WindowRecord
<1> HIDE DEF u
<1>c. u.clicks + 1 \in Nat
  BY <1>4 DEF WindowRecord
<1>5. /\ w \in WindowRecord /\ w.launchable = u.launchable /\ w.fields = u.fields /\ w.enabled = u.enabled
      /\ w.at = u.at /\ w.slot = u.slot /\ w.data = u.data /\ w.signals = u.signals
      /\ w.calls = u.calls /\ w.older = u.older /\ w.reopened = u.reopened
  BY <1>4, <1>c DEF WindowRecord
<1> HIDE DEF w
<1>6. /\ Pending(w) <=> Pending(v)
      /\ Authenticating(w) <=> Authenticating(v)
  BY <1>2, <1>3, <1>4, <1>5 DEF Pending, LoginQueued, Authenticating
<1>7. Shape(w)
  BY <1>1, <1>4, <1>5, <1>6 DEF Shape
<1>8. FieldsHeld(w, accepted)
  BY <1>1, <1>2, <1>3, <1>4, <1>5, <1>6 DEF FieldsHeld
<1>9. ~overwritten /\ ~w.older => w.data.launch_command_template = wanted
  BY <1>1, <1>4, <1>5, RunIs DEF Running, v
<1> QED
  BY <1>0, <1>1, <1>4, <1>5, <1>7, <1>8, <1>9, WindowStep DEF v, w

\* The window closes, by the player or when the front-end has been launched.
LEMMA ClosesInv == ASSUME Inv, NEW r \in Runs, Closes(r) \/ OnLaunched(r) PROVE Inv'
<1>1. run[r].at = "open" /\ Window(r, NoWindow("gone"))
  BY DEF Closes, OnLaunched, Delivers
<1> QED
  BY <1>1, NoWindowIs, WindowStep

-------------------------------------------------------------------------------
(* The signals. *)

\* What a slot finds, and what the queue is without its signal.
LEMMA HeardIs ==
  ASSUME Inv, NEW r \in Runs, NEW kind, Delivers(r, kind)
  PROVE  LET v == run[r]
             h == Heard(r)
         IN /\ v.at = "open" /\ v.slot = "none"
            /\ h \in WindowRecord /\ h.at = v.at /\ h.slot = v.slot /\ h.data = v.data
            /\ h.fields = v.fields /\ h.selected = v.selected /\ h.launchable = v.launchable
            /\ h.enabled = v.enabled /\ h.calls = v.calls
            /\ h.older = v.older /\ h.reopened = v.reopened
            /\ Pending(h) => Pending(v)
            /\ Authenticating(h) => Authenticating(v)
            /\ kind = "authenticated" => Authenticating(v)
            /\ Shape(h) /\ FieldsHeld(h, accepted)
<1> DEFINE v == run[r]
           h == [v EXCEPT !.signals = Tail(@)]
<1>0. Heard(r) = h
  BY DEF Heard
<1>1. v \in WindowRecord /\ Shape(v) /\ FieldsHeld(v, accepted)
  BY RunIs
<1>2. v.at = "open" /\ v.signals # << >> /\ Head(v.signals).kind = kind
  BY DEF Delivers
<1> HIDE DEF v
<1>3. v.signals \in Seq(Signals)
  BY <1>1 DEF WindowRecord
<1>4. /\ Tail(v.signals) \in Seq(Signals) /\ ToSet(Tail(v.signals)) \subseteq ToSet(v.signals)
      /\ Head(v.signals) \in ToSet(v.signals)
  BY <1>2, <1>3, HeadAndTailIn
<1>5. /\ h \in WindowRecord /\ h.at = v.at /\ h.slot = v.slot /\ h.data = v.data
      /\ h.fields = v.fields /\ h.selected = v.selected /\ h.launchable = v.launchable
      /\ h.enabled = v.enabled /\ h.calls = v.calls /\ h.signals = Tail(v.signals)
      /\ h.older = v.older /\ h.reopened = v.reopened
  BY <1>1, <1>4 DEF WindowRecord
<1> HIDE DEF h
<1>6. /\ Pending(h) => Pending(v)
      /\ Authenticating(h) => Authenticating(v)
      /\ kind = "authenticated" => Authenticating(v)
  BY <1>2, <1>4, <1>5 DEF Pending, LoginQueued, Authenticating
<1>7. v.slot = "none"
  BY <1>1, <1>2 DEF Shape, InSlot
<1>8. Shape(h) /\ FieldsHeld(h, accepted)
  BY <1>1, <1>2, <1>5, <1>6 DEF Shape, FieldsHeld
<1> QED
  BY <1>0, <1>2, <1>5, <1>6, <1>7, <1>8 DEF v

\* A slot goes on to save what the login or the launch has shown.
LEMMA SavesInv ==
  ASSUME Inv, NEW r \in Runs, NEW slot \in {"authenticated", "handoff"}, Delivers(r, slot),
         NEW data \in Stored, data.launch_command_template = run[r].data.launch_command_template,
         Saves(r, slot, data)
  PROVE  Inv'
<1> DEFINE v == run[r]
           h == Heard(r)
           w == [h EXCEPT !.at = "truncate", !.slot = slot, !.data = data]
<1>0. Window(r, w)
  BY DEF Saves
<1>1. v \in WindowRecord /\ Shape(v) /\ FieldsHeld(v, accepted)
  BY RunIs
<1>2. /\ v.at = "open" /\ v.slot = "none"
      /\ h \in WindowRecord /\ h.at = v.at /\ h.slot = v.slot /\ h.data = v.data
      /\ h.fields = v.fields /\ h.selected = v.selected /\ h.launchable = v.launchable
      /\ h.enabled = v.enabled /\ h.calls = v.calls
      /\ h.older = v.older /\ h.reopened = v.reopened
      /\ Pending(h) => Pending(v)
      /\ Authenticating(h) => Authenticating(v)
      /\ slot = "authenticated" => Authenticating(v)
      /\ Shape(h) /\ FieldsHeld(h, accepted)
  BY HeardIs
<1> HIDE DEF h
<1>3. /\ w \in WindowRecord /\ w.at = "truncate" /\ w.slot = slot /\ w.data = data
      /\ w.fields = h.fields /\ w.selected = h.selected /\ w.launchable = h.launchable
      /\ w.enabled = h.enabled /\ w.calls = h.calls /\ w.signals = h.signals
      /\ w.older = h.older /\ w.reopened = h.reopened
  BY <1>2 DEF WindowRecord, Positions
<1> HIDE DEF w
<1>4. /\ Pending(w) <=> Pending(h)
      /\ Authenticating(w) <=> Authenticating(h)
  BY <1>3 DEF Pending, LoginQueued, Authenticating
<1>5. Shape(w)
  <2>1. w.slot = "authenticated" => w.fields \in Credentials
    BY <1>1, <1>2, <1>3 DEF Shape, Pending
  <2> QED
    BY <1>2, <1>3, <1>4, <2>1 DEF Shape, InSlot
<1>6. FieldsHeld(w, accepted)
  <2>1. ~w.reopened /\ w.slot = "authenticated" => w.fields \in accepted
    BY <1>1, <1>2, <1>3 DEF FieldsHeld
  <2> QED
    BY <1>2, <1>3, <1>4, <2>1 DEF FieldsHeld
<1>7. ~overwritten /\ ~w.older => w.data.launch_command_template = wanted
  BY <1>2, <1>3, RunIs DEF Running
<1> QED
  BY <1>0, <1>2, <1>3, <1>5, <1>6, <1>7, WindowStep

LEMMA OnAuthenticatedInv == ASSUME Inv, NEW r \in Runs, OnAuthenticated(r) PROVE Inv'
<1> DEFINE v == run[r]
<1>1. v \in WindowRecord /\ Shape(v) /\ Delivers(r, "authenticated") /\ Saves(r, "authenticated", AccountStored(r))
  BY RunIs DEF OnAuthenticated
<1>2. v.data \in Stored /\ v.fields[1] \in Accounts \cup {None}
  BY <1>1 DEF WindowRecord
<1>3. AccountStored(r) = [v.data EXCEPT !.account_name = v.fields[1]]
  BY DEF AccountStored
<1> HIDE DEF v
<1>4. /\ AccountStored(r) \in Stored
      /\ AccountStored(r).launch_command_template = v.data.launch_command_template
  BY <1>2, <1>3 DEF Stored
<1> QED
  BY <1>1, <1>4, SavesInv DEF v

\* A slot that only changes the window.
LEMMA ShownInv ==
  ASSUME Inv, NEW r \in Runs, NEW kind, Delivers(r, kind),
         NEW w \in WindowRecord, Window(r, w),
         w.at = Heard(r).at, w.slot = Heard(r).slot, w.data = Heard(r).data,
         w.fields = Heard(r).fields, w.calls = Heard(r).calls, w.signals = Heard(r).signals,
         w.older = Heard(r).older,
         w.launchable => w.selected # None,
         ~w.reopened => ~Heard(r).reopened /\ (w.enabled = Heard(r).enabled \/ ~Pending(run[r]))
  PROVE  Inv'
<1> DEFINE v == run[r]
           h == Heard(r)
<1>1. /\ v.at = "open" /\ h.at = v.at /\ h.data = v.data /\ h.older = v.older
      /\ Pending(h) => Pending(v)
      /\ Shape(h) /\ FieldsHeld(h, accepted)
  BY HeardIs
<1> HIDE DEF h
<1>2. /\ Pending(w) <=> Pending(h)
      /\ Authenticating(w) <=> Authenticating(h)
  BY DEF Pending, LoginQueued, Authenticating, h
<1>3. Shape(w) /\ FieldsHeld(w, accepted)
  BY <1>1, <1>2 DEF Shape, FieldsHeld, h
<1>4. ~overwritten /\ ~w.older => w.data.launch_command_template = wanted
  BY <1>1, RunIs DEF Running, h
<1> QED
  BY <1>1, <1>3, <1>4, WindowStep DEF h

LEMMA OnHandoffReadyInv == ASSUME Inv, NEW r \in Runs, OnHandoffReady(r) PROVE Inv'
<1> DEFINE v == run[r]
           h == Heard(r)
<1>0. Delivers(r, "handoff")
  BY DEF OnHandoffReady
<1>1. v \in WindowRecord
  BY RunIs
<1>2. CASE v.selected = None
  <2>1. Window(r, h)
    BY <1>2 DEF OnHandoffReady
  <2>2. h \in WindowRecord /\ Shape(h)
    BY <1>0, HeardIs
  <2>3. h.launchable => h.selected # None
    BY <2>2 DEF Shape
  <2> HIDE DEF h
  <2> QED
    BY <1>0, <2>1, <2>2, <2>3, ShownInv DEF h
<1>3. CASE v.selected # None
  <2> DEFINE data == [v.data EXCEPT !.last_char_code = v.selected]
  <2>1. Saves(r, "handoff", data)
    BY <1>3 DEF OnHandoffReady
  <2>2. v.data \in Stored /\ v.selected \in Characters \cup {None}
    BY <1>1 DEF WindowRecord
  <2> HIDE DEF v
  <2>3. data \in Stored /\ data.launch_command_template = v.data.launch_command_template
    BY <2>2 DEF Stored
  <2> HIDE DEF data
  <2> QED
    BY <1>0, <2>1, <2>3, SavesInv DEF v
<1> QED
  BY <1>2, <1>3

LEMMA OnCharactersReadyInv == ASSUME Inv, NEW r \in Runs, OnCharactersReady(r) PROVE Inv'
<1> DEFINE h == Heard(r)
           w == [h EXCEPT !.listed = TRUE, !.selected = None, !.launchable = FALSE]
<1>0. Delivers(r, "characters") /\ Window(r, w)
  BY DEF OnCharactersReady
<1>1. h \in WindowRecord
  BY <1>0, HeardIs
<1> HIDE DEF h
<1>2. /\ w \in WindowRecord /\ w.at = h.at /\ w.slot = h.slot /\ w.data = h.data
      /\ w.fields = h.fields /\ w.calls = h.calls /\ w.signals = h.signals
      /\ w.older = h.older /\ ~w.launchable /\ w.reopened = h.reopened /\ w.enabled = h.enabled
  BY <1>1 DEF WindowRecord
<1> HIDE DEF w
<1> QED
  BY <1>0, <1>2, ShownInv DEF h, w

LEMMA OnErrorInv == ASSUME Inv, NEW r \in Runs, OnError(r) PROVE Inv'
<1> DEFINE h == Heard(r)
           pending == LoginPending(r)
           chosen == run[r].selected # None
           w == [h EXCEPT !.enabled = TRUE, !.launchable = chosen, !.reopened = @ \/ pending]
<1>0. Delivers(r, "error") /\ Window(r, w)
  BY DEF OnError
<1>1. h \in WindowRecord /\ h.selected = run[r].selected
  BY <1>0, HeardIs
<1>2. chosen \in BOOLEAN /\ (chosen <=> h.selected # None)
  BY <1>1
<1>3. pending <=> Pending(run[r])
  BY DEF LoginPending, Pending, LoginQueued, Authenticating
<1> HIDE DEF h, pending, chosen
<1>4. /\ w \in WindowRecord /\ w.at = h.at /\ w.slot = h.slot /\ w.data = h.data
      /\ w.fields = h.fields /\ w.calls = h.calls /\ w.signals = h.signals
      /\ w.older = h.older /\ w.launchable = chosen /\ w.selected = h.selected
      /\ (w.reopened <=> h.reopened \/ pending)
  BY <1>1, <1>2 DEF WindowRecord
<1> HIDE DEF w
<1>5. w.launchable => w.selected # None
  BY <1>2, <1>4
<1> QED
  BY <1>0, <1>3, <1>4, <1>5, ShownInv DEF h, w

LEMMA OnAuthFailedInv == ASSUME Inv, NEW r \in Runs, OnAuthFailed(r) PROVE Inv'
<1> DEFINE h == Heard(r)
           pending == LoginPending(r)
           w == [h EXCEPT !.enabled = TRUE, !.reopened = @ \/ pending]
<1>0. Delivers(r, "auth_failed") /\ Window(r, w)
  BY DEF OnAuthFailed
<1>1. h \in WindowRecord /\ Shape(h)
  BY <1>0, HeardIs
<1>3. pending <=> Pending(run[r])
  BY DEF LoginPending, Pending, LoginQueued, Authenticating
<1> HIDE DEF h, pending
<1>4. /\ w \in WindowRecord /\ w.at = h.at /\ w.slot = h.slot /\ w.data = h.data
      /\ w.fields = h.fields /\ w.calls = h.calls /\ w.signals = h.signals
      /\ w.older = h.older /\ w.launchable = h.launchable /\ w.selected = h.selected
      /\ (w.reopened <=> h.reopened \/ pending)
  BY <1>1 DEF WindowRecord
<1> HIDE DEF w
<1>5. w.launchable => w.selected # None
  BY <1>1, <1>4 DEF Shape
<1> QED
  BY <1>0, <1>3, <1>4, <1>5, ShownInv DEF h, w

-------------------------------------------------------------------------------
(* The worker. *)
LEMMA SignalsAre ==
  /\ \A kind \in SignalKinds : Signal(kind) \in Signals /\ Signal(kind).kind = kind
  /\ \A char \in Characters : Handoff(char) \in Signals /\ Handoff(char).kind = "handoff"
  BY DEF Signal, Handoff, Signals, SignalKinds

LEMMA CallIs == \A call \in Calls : /\ call.kind \in {"login", "select"}
                                    /\ call.kind = "login" => call.arg \in Credentials
                                    /\ call.kind = "select" => call.arg \in Characters
  BY DEF Calls

\* A call ends in signals of its own kind, "authenticated" first if at all.
LEMMA EndingIs ==
  ASSUME NEW call \in Calls, NEW ending \in Endings(call)
  PROVE  /\ ending \in Seq(Signals)
         /\ (\E s \in ToSet(ending) : s.kind = "authenticated") <=> Head(ending).kind = "authenticated"
         /\ Head(ending).kind = "authenticated" => call.kind = "login"
<1>1. ASSUME NEW x \in Signals, x.kind # "authenticated", ending = <<x>>
      PROVE  /\ ending \in Seq(Signals)
             /\ (\E s \in ToSet(ending) : s.kind = "authenticated") <=> Head(ending).kind = "authenticated"
             /\ Head(ending).kind # "authenticated"
  <2>1. ToSet(ending) = {x} /\ Head(ending) = x /\ ending \in Seq(Signals)
    BY <1>1, OnesIn
  <2> QED
    BY <1>1, <2>1
<1>2. ASSUME NEW x \in Signals, NEW y \in Signals, y.kind # "authenticated", ending = <<x, y>>
      PROVE  /\ ending \in Seq(Signals) /\ Head(ending) = x
             /\ (\E s \in ToSet(ending) : s.kind = "authenticated") <=> Head(ending).kind = "authenticated"
  <2>1. ToSet(ending) = {x, y} /\ Head(ending) = x /\ ending \in Seq(Signals)
    BY <1>2, OnesIn
  <2> QED
    BY <1>2, <2>1
<1>3. /\ Signal("auth_failed") \in Signals /\ Signal("auth_failed").kind = "auth_failed"
      /\ Signal("error") \in Signals /\ Signal("error").kind = "error"
      /\ Signal("authenticated") \in Signals /\ Signal("authenticated").kind = "authenticated"
      /\ Signal("characters") \in Signals /\ Signal("characters").kind = "characters"
      /\ Signal("launched") \in Signals /\ Signal("launched").kind = "launched"
  BY SignalsAre DEF SignalKinds
<1>4. CASE call.kind = "login"
  <2>1. \/ ending = <<Signal("auth_failed")>> \/ ending = <<Signal("error")>>
        \/ ending = <<Signal("authenticated"), Signal("characters")>>
        \/ ending = <<Signal("authenticated"), Signal("error")>>
    BY <1>4 DEF Endings
  <2> QED
    BY <1>1, <1>2, <1>3, <1>4, <2>1
<1>5. CASE call.kind # "login"
  <2>1. Handoff(call.arg) \in Signals /\ Handoff(call.arg).kind = "handoff"
    BY <1>5, CallIs, SignalsAre
  <2>2. \/ ending = <<Signal("error")>>
        \/ ending = <<Handoff(call.arg), Signal("launched")>>
        \/ ending = <<Handoff(call.arg), Signal("error")>>
    BY <1>5 DEF Endings
  <2> QED
    BY <1>1, <1>2, <1>3, <2>1, <2>2
<1> QED
  BY <1>4, <1>5

LEMMA ServeInv == ASSUME Inv, NEW r \in Runs, Serve(r) PROVE Inv'
<1> DEFINE v == run[r]
           call == Head(v.calls)
<1>0. v.calls # << >> /\ v.at \notin {"off", "gone"} /\ UNCHANGED <<fileVars, cut, wanted, overwritten, unverified>>
  BY DEF Serve, Running
<1>1. v \in WindowRecord /\ Shape(v) /\ FieldsHeld(v, accepted)
  BY RunIs
<1>2. v.calls \in Seq(Calls) /\ v.signals \in Seq(Signals)
  BY <1>1 DEF WindowRecord
<1>3. call \in Calls /\ call \in ToSet(v.calls) /\ Tail(v.calls) \in Seq(Calls)
      /\ ToSet(Tail(v.calls)) \subseteq ToSet(v.calls)
  BY <1>0, <1>2, HeadAndTailIn
<1>4. PICK ending \in Endings(call) :
        /\ run' = [run EXCEPT ![r].calls = Tail(@), ![r].signals = @ \o ending]
        /\ accepted' = IF Head(ending).kind = "authenticated" THEN accepted \cup {call.arg} ELSE accepted
  BY DEF Serve
<1> DEFINE w == [v EXCEPT !.calls = Tail(@), !.signals = @ \o ending]
<1>5. /\ ending \in Seq(Signals)
      /\ (\E s \in ToSet(ending) : s.kind = "authenticated") <=> Head(ending).kind = "authenticated"
      /\ Head(ending).kind = "authenticated" => call.kind = "login"
  BY <1>3, EndingIs
<1>6. v.signals \o ending \in Seq(Signals) /\ ToSet(v.signals \o ending) = ToSet(v.signals) \cup ToSet(ending)
  BY <1>2, <1>5, ConcatenatedIn
<1>7. run' = [run EXCEPT ![r] = w]
  BY <1>1, <1>4 DEF Inv, Windows, WindowRecord
<1> HIDE DEF v, call
<1>8. /\ w \in WindowRecord /\ w.calls = Tail(v.calls) /\ w.signals = v.signals \o ending
      /\ w.at = v.at /\ w.slot = v.slot /\ w.data = v.data /\ w.fields = v.fields
      /\ w.enabled = v.enabled /\ w.selected = v.selected /\ w.launchable = v.launchable
      /\ w.older = v.older /\ w.reopened = v.reopened
  BY <1>1, <1>3, <1>6 DEF WindowRecord
<1> HIDE DEF w
<1>9. accepted \subseteq accepted' /\ accepted' \subseteq Credentials
  BY <1>3, <1>4, <1>5, CallIs DEF Inv, Files
<1>10. Authenticating(w) => Authenticating(v) \/ Head(ending).kind = "authenticated"
  BY <1>5, <1>6, <1>8 DEF Authenticating
<1>11. /\ Head(ending).kind = "authenticated" => LoginQueued(v)
       /\ LoginQueued(w) => LoginQueued(v)
  BY <1>3, <1>5, <1>8 DEF LoginQueued
<1>12. Pending(w) => Pending(v)
  BY <1>10, <1>11 DEF Pending
<1>13. Shape(w)
  <2>1. v.at \notin {"off", "prefill", "gone"}
    BY <1>0, <1>1 DEF Shape, v
  <2> QED
    BY <1>1, <1>8, <1>12, <2>1 DEF Shape
<1>14. FieldsHeld(w, accepted')
  <2> SUFFICES ASSUME ~w.reopened
               PROVE  /\ Pending(w) => ~w.enabled
                      /\ \A c \in ToSet(w.calls) : c.kind = "login" => c.arg = w.fields
                      /\ Authenticating(w) \/ w.slot = "authenticated" => w.fields \in accepted'
    BY DEF FieldsHeld
  <2>1. /\ Pending(v) => ~v.enabled
        /\ \A c \in ToSet(v.calls) : c.kind = "login" => c.arg = v.fields
        /\ Authenticating(v) \/ v.slot = "authenticated" => v.fields \in accepted
    BY <1>1, <1>8 DEF FieldsHeld
  <2>2. Head(ending).kind = "authenticated" => v.fields \in accepted'
    BY <1>3, <1>4, <1>5, <2>1
  <2> QED
    BY <1>3, <1>8, <1>9, <1>10, <1>12, <2>1, <2>2
<1>15. Windows' /\ run'[r] = w /\ \A q \in Runs \ {r} : run'[q] = run[q]
  BY <1>7, <1>8, <1>9, <1>13, <1>14, OneWindow DEF Inv
<1> USE DEF fileVars
<1>16. Files'
  BY <1>0, <1>9 DEF Inv, Files
<1>17. RememberedWasAccepted'
  BY <1>0, <1>9 DEF Inv, RememberedWasAccepted
<1>18. Saving'
  BY <1>0, <1>8, <1>15 DEF Inv, Saving, v
<1>19. Template'
  BY <1>0, <1>8, <1>15 DEF Inv, Template, Running, v
<1> QED
  BY <1>15, <1>16, <1>17, <1>18, <1>19 DEF Inv

-------------------------------------------------------------------------------
(* The save, and the rest of the slot. *)

\* All but where the slot is.
SameWindow(w, v) ==
  /\ w.calls = v.calls /\ w.signals = v.signals /\ w.data = v.data /\ w.fields = v.fields
  /\ w.enabled = v.enabled /\ w.selected = v.selected /\ w.launchable = v.launchable
  /\ w.older = v.older /\ w.reopened = v.reopened

LEMMA SlotMoves ==
  ASSUME Inv, NEW r \in Runs, run[r].at \in InSlot, UNCHANGED accepted,
         NEW w \in WindowRecord, run' = [run EXCEPT ![r] = w], SameWindow(w, run[r]),
         \/ w.at = "open" /\ w.slot = "none"
         \/ w.at \in InSlot /\ w.slot = run[r].slot,
         w.at = "keyring" => w.slot = "authenticated"
  PROVE  /\ Windows' /\ run'[r].at = w.at
         /\ run'[r].data = run[r].data /\ run'[r].older = run[r].older
         /\ \A q \in Runs \ {r} : run'[q] = run[q]
<1> DEFINE v == run[r]
<1>1. v \in WindowRecord /\ Shape(v) /\ FieldsHeld(v, accepted) /\ v.at \in InSlot
  BY RunIs
<1> HIDE DEF v
<1>2. /\ w.calls = v.calls /\ w.signals = v.signals /\ w.data = v.data /\ w.fields = v.fields
      /\ w.enabled = v.enabled /\ w.selected = v.selected /\ w.launchable = v.launchable
      /\ w.older = v.older /\ w.reopened = v.reopened
      /\ w.slot = "none" \/ w.slot = v.slot
  BY DEF SameWindow, v
<1>3. /\ Pending(w) <=> Pending(v)
      /\ Authenticating(w) <=> Authenticating(v)
  BY <1>2 DEF Pending, LoginQueued, Authenticating
<1>4. Shape(w) /\ FieldsHeld(w, accepted)
  BY <1>1, <1>2, <1>3 DEF Shape, FieldsHeld, InSlot, v
<1>5. Windows' /\ run'[r] = w /\ \A q \in Runs \ {r} : run'[q] = run[q]
  BY <1>4, OneWindow DEF Inv
<1> QED
  BY <1>2, <1>5 DEF v

LEMMA SlotDoneIs ==
  ASSUME Inv, NEW r \in Runs, run[r].at \in InSlot, UNCHANGED accepted, SlotDone(r)
  PROVE  /\ Windows' /\ run'[r].at = "open"
         /\ run'[r].data = run[r].data /\ run'[r].older = run[r].older
         /\ \A q \in Runs \ {r} : run'[q] = run[q]
<1> DEFINE v == run[r]
           w == [v EXCEPT !.at = "open", !.slot = "none"]
<1>1. v \in WindowRecord
  BY RunIs
<1>2. run' = [run EXCEPT ![r] = w]
  BY DEF SlotDone, Inv, Windows, WindowRecord
<1> HIDE DEF v
<1>3. w \in WindowRecord /\ w.at = "open" /\ w.slot = "none" /\ SameWindow(w, v)
  BY <1>1 DEF WindowRecord, Positions, SameWindow
<1> HIDE DEF w
<1> QED
  BY <1>2, <1>3, SlotMoves DEF v

LEMMA SlotGoesOn ==
  ASSUME Inv, NEW r \in Runs, run[r].at \in InSlot, UNCHANGED accepted, NEW at \in InSlot,
         at = "keyring" => run[r].slot = "authenticated", run' = [run EXCEPT ![r].at = at]
  PROVE  /\ Windows' /\ run'[r].at = at
         /\ run'[r].data = run[r].data /\ run'[r].older = run[r].older
         /\ \A q \in Runs \ {r} : run'[q] = run[q]
<1> DEFINE v == run[r]
           w == [v EXCEPT !.at = at]
<1>1. v \in WindowRecord
  BY RunIs
<1>2. run' = [run EXCEPT ![r] = w]
  OBVIOUS
<1> HIDE DEF v
<1>3. w \in WindowRecord /\ w.at = at /\ w.slot = v.slot /\ SameWindow(w, v)
  BY <1>1 DEF WindowRecord, Positions, InSlot, SameWindow
<1> HIDE DEF w
<1> QED
  BY <1>2, <1>3, SlotMoves DEF v

LEMMA TruncateInv == ASSUME Inv, NEW r \in Runs, Truncate(r) PROVE Inv'
<1>0. /\ run[r].at = "truncate" /\ run' = [run EXCEPT ![r].at = "write"]
      /\ config' = [is |-> "empty", data |-> LoginConfig]
      /\ cut' = (cut /\ \E q \in Runs \ {r} : run[q].at = "write")
      /\ UNCHANGED <<keyring, accepted, wanted, overwritten, unverified>>
  BY DEF Truncate, Truncation
<1>1. /\ Windows' /\ run'[r].at = "write" /\ run'[r].data = run[r].data /\ run'[r].older = run[r].older
      /\ \A q \in Runs \ {r} : run'[q] = run[q]
  BY <1>0, SlotGoesOn DEF InSlot
<1>2. Files' /\ config'.is = "empty"
  <2>1. cut' \in BOOLEAN
    BY <1>0, Zenon
  <2> QED
    BY <1>0, <2>1 DEF Inv, Files, Unreadable, LoginConfig, Stored
<1>3. RememberedWasAccepted'
  BY <1>0 DEF Inv, RememberedWasAccepted
<1>4. Saving'
  BY <1>1, <1>2 DEF Saving
<1>5. Template'
  BY <1>0, <1>1, <1>2 DEF Inv, Template, Running
<1> QED
  BY <1>1, <1>2, <1>3, <1>4, <1>5 DEF Inv

\* Only a save over another one can leave the file garbled.
LEMMA WriteInv == ASSUME Inv, NEW r \in Runs, Write(r) PROVE Inv'
<1>0. /\ run[r].at = "write"
      /\ config' \in {[is |-> "whole", data |-> run[r].data]}
                     \cup IF config.is = "empty" THEN {} ELSE {[is |-> "garbled", data |-> LoginConfig]}
      /\ cut' = (cut \/ \E q \in Runs \ {r} : run[q].at = "write")
      /\ overwritten' = (overwritten \/ run[r].older)
      /\ UNCHANGED <<keyring, accepted, wanted, unverified>>
  BY DEF Write
<1>1. /\ Windows' /\ run'[r].at # "write" /\ run'[r].data = run[r].data /\ run'[r].older = run[r].older
      /\ run'[r].at \notin {"off", "gone"}
      /\ \A q \in Runs \ {r} : run'[q] = run[q]
  <2>1. CASE run[r].slot = "authenticated" /\ run' = [run EXCEPT ![r].at = "keyring"]
    BY <1>0, <2>1, SlotGoesOn DEF InSlot
  <2>2. CASE SlotDone(r)
    BY <1>0, <2>2, SlotDoneIs DEF InSlot
  <2> QED
    BY <2>1, <2>2 DEF Write
<1>2. run[r].data \in Stored /\ LoginConfig \in Stored /\ run[r].older \in BOOLEAN
  BY RunIs DEF WindowRecord, LoginConfig, Stored
<1>3. \/ config' = [is |-> "whole", data |-> run[r].data]
      \/ config.is # "empty" /\ config' = [is |-> "garbled", data |-> LoginConfig]
  BY <1>0
<1>4. Files'
  <2>1. config' \in [is : {"absent", "whole"} \cup Unreadable, data : Stored]
    BY <1>2, <1>3 DEF Unreadable
  <2>2. cut' \in BOOLEAN /\ overwritten' \in BOOLEAN
    BY <1>0, Zenon
  <2> QED
    BY <1>0, <2>1, <2>2 DEF Inv, Files
<1>5. RememberedWasAccepted'
  BY <1>0 DEF Inv, RememberedWasAccepted
<1>6. ~cut' => ~cut /\ (\A q \in Runs \ {r} : run[q].at # "write") /\ config'.is = "whole"
  <2>1. ~cut' => ~cut /\ \A q \in Runs \ {r} : run[q].at # "write"
    BY <1>0
  <2>2. ~cut => config.is = "empty"
    BY <1>0 DEF Inv, Saving
  <2> QED
    BY <1>3, <2>1, <2>2
<1>7. Saving'
  BY <1>1, <1>6 DEF Saving
<1>8. Template'
  <2> SUFFICES ASSUME ~overwritten' PROVE Template'
    BY DEF Template
  <2>1. ~overwritten /\ ~run[r].older
    BY <1>0
  <2>2. run[r].data.launch_command_template = wanted
    BY <1>0, <2>1, RunIs DEF Running
  <2>3. config'.is # "absent" /\ (config'.is = "whole" => config'.data = run[r].data)
    BY <1>3
  <2>4. \A q \in Runs : Running(q)' /\ ~run'[q].older => run'[q].data.launch_command_template = wanted
    BY <1>1, <2>1, <2>2, RunIs DEF Running
  <2> QED
    BY <1>0, <2>2, <2>3, <2>4 DEF Template
<1> QED
  BY <1>1, <1>4, <1>5, <1>7, <1>8 DEF Inv

\* A slot that ends without saving, a failed save included.
LEMMA SlotEnds ==
  ASSUME Inv, NEW r \in Runs, run[r].at \in InSlot, SlotDone(r), UNCHANGED <<config, accepted, overwritten, wanted>>,
         cut' = (cut \/ run[r].at = "write"), Files', RememberedWasAccepted'
  PROVE  Inv'
<1>1. /\ Windows' /\ run'[r].at = "open" /\ run'[r].data = run[r].data /\ run'[r].older = run[r].older
      /\ \A q \in Runs \ {r} : run'[q] = run[q]
  BY SlotDoneIs
<1>2. ~cut' => ~cut /\ run[r].at # "write"
  OBVIOUS
<1>3. Saving'
  BY <1>1, <1>2 DEF Inv, Saving
<1>4. Template'
  BY <1>1, <1>2 DEF Inv, Template, Running, InSlot
<1> QED
  BY <1>1, <1>3, <1>4 DEF Inv

LEMMA SaveRaisesInv == ASSUME Inv, NEW r \in Runs, SaveRaises(r) PROVE Inv'
<1>1. /\ run[r].at \in InSlot /\ SlotDone(r) /\ cut' = (cut \/ run[r].at = "write")
      /\ UNCHANGED <<config, keyring, accepted, wanted, overwritten, unverified>>
  BY DEF SaveRaises, InSlot, fileVars
<1>2. cut' \in BOOLEAN
  BY <1>1, Zenon
<1>3. Files' /\ RememberedWasAccepted'
  BY <1>1, <1>2 DEF Inv, Files, RememberedWasAccepted
<1> QED
  BY <1>1, <1>3, SlotEnds

LEMMA KeyringRaisesInv == ASSUME Inv, NEW r \in Runs, KeyringRaises(r) PROVE Inv'
<1>1. /\ run[r].at = "keyring" /\ SlotDone(r)
      /\ UNCHANGED <<config, keyring, accepted, cut, wanted, overwritten, unverified>>
  BY DEF KeyringRaises, fileVars, historyVars
<1>2. cut' = (cut \/ run[r].at = "write") /\ run[r].at \in InSlot
  BY <1>1 DEF InSlot, Inv, Files
<1>3. Files' /\ RememberedWasAccepted'
  BY <1>1 DEF Inv, Files, RememberedWasAccepted
<1> QED
  BY <1>1, <1>2, <1>3, SlotEnds

\* What is stored is what the server accepted, or what the fields held after an
\* error enabled them.
LEMMA StorePasswordInv == ASSUME Inv, NEW r \in Runs, StorePassword(r) PROVE Inv'
<1> DEFINE v == run[r]
<1>0. /\ v.at = "keyring" /\ SlotDone(r)
      /\ keyring' = [keyring EXCEPT ![v.fields[1]] = IF v.remember THEN v.fields[2] ELSE None]
      /\ unverified' = IF v.reopened THEN unverified \cup {v.fields[1]}
                       ELSE unverified \ {v.fields[1]}
      /\ UNCHANGED <<config, accepted, cut, wanted, overwritten>>
  BY DEF StorePassword
<1>1. v \in WindowRecord /\ Shape(v) /\ FieldsHeld(v, accepted)
  BY RunIs
<1>2. cut' = (cut \/ v.at = "write") /\ v.at \in InSlot
  BY <1>0 DEF InSlot, Inv, Files
<1>3. v.fields \in Credentials /\ (~v.reopened => v.fields \in accepted)
  BY <1>0, <1>1 DEF Shape, FieldsHeld
<1>4. v.remember \in BOOLEAN /\ v.reopened \in BOOLEAN
  BY <1>1 DEF WindowRecord
<1> HIDE DEF v
<1>5. PICK a \in Accounts, p \in Passwords : v.fields = <<a, p>>
  BY <1>3 DEF Credentials
<1>6. keyring \in [Accounts -> Passwords \cup {None}] /\ unverified \subseteq Accounts
  BY DEF Inv, Files
<1>7. /\ keyring' \in [Accounts -> Passwords \cup {None}]
      /\ keyring'[a] = (IF v.remember THEN p ELSE None)
      /\ \A b \in Accounts \ {a} : keyring'[b] = keyring[b]
  BY <1>0, <1>5, <1>6
<1>8. Files'
  <2>1. unverified' \subseteq Accounts
    BY <1>0, <1>5, <1>6
  <2> QED
    BY <1>0, <1>7, <2>1 DEF Inv, Files
<1>9. RememberedWasAccepted'
  <2> SUFFICES ASSUME NEW b \in Accounts, keyring'[b] # None, b \notin unverified'
               PROVE  <<b, keyring'[b]>> \in accepted'
    BY DEF RememberedWasAccepted
  <2>1. accepted' = accepted /\ v.fields[1] = a
    BY <1>0, <1>5
  <2>2. CASE b = a
    <3>1. keyring'[b] = p
      BY <1>7, <2>2
    <3>2. ~v.reopened
      BY <1>0, <2>1, <2>2
    <3> QED
      BY <1>3, <1>5, <2>1, <2>2, <3>1, <3>2
  <2>3. CASE b # a
    <3>1. b \notin unverified
      BY <1>0, <2>1, <2>3
    <3> QED
      BY <1>7, <2>1, <2>3, <3>1 DEF Inv, RememberedWasAccepted
  <2> QED
    BY <2>2, <2>3
<1> QED
  BY <1>0, <1>2, <1>8, <1>9, SlotEnds DEF v

\* A kill leaves a save it hits half done.
LEMMA KilledInv == ASSUME Inv, NEW r \in Runs, Killed(r) PROVE Inv'
<1> DEFINE w == NoWindow("gone")
<1>0. /\ Running(r) /\ run' = [run EXCEPT ![r] = w] /\ cut' = (cut \/ run[r].at = "write")
      /\ UNCHANGED <<config, keyring, accepted, wanted, overwritten, unverified>>
  BY DEF Killed, fileVars
<1>1. w \in WindowRecord /\ w.at = "gone" /\ Shape(w) /\ FieldsHeld(w, accepted')
  BY NoWindowIs
<1> HIDE DEF w
<1>2. Windows' /\ run'[r] = w /\ \A q \in Runs \ {r} : run'[q] = run[q]
  BY <1>0, <1>1, OneWindow DEF Inv
<1>3. cut' \in BOOLEAN
  BY <1>0, Zenon
<1>4. Files' /\ RememberedWasAccepted'
  BY <1>0, <1>3 DEF Inv, Files, RememberedWasAccepted
<1>5. ~cut' => ~cut /\ run[r].at # "write"
  BY <1>0
<1>6. Saving'
  BY <1>0, <1>1, <1>2, <1>5 DEF Inv, Saving
<1>7. Template'
  BY <1>0, <1>1, <1>2, <1>5 DEF Inv, Template, Running
<1> QED
  BY <1>2, <1>4, <1>6, <1>7 DEF Inv

\* Every run that has loaded the file is now older than what it holds.
LEMMA EditsConfigInv == ASSUME Inv, EditsConfig PROVE Inv'
<1>0. PICK command \in Commands :
        /\ config.is \in {"absent", "whole"} /\ wanted' = command
        /\ config' = [is |-> "whole", data |-> [config.data EXCEPT !.launch_command_template = command]]
        /\ overwritten' = FALSE
        /\ run' = [r \in Runs |-> [run[r] EXCEPT !.older = @ \/ Running(r)]]
        /\ UNCHANGED <<keyring, accepted, cut, unverified>>
  BY DEF EditsConfig
<1>1. ASSUME NEW r \in Runs
      PROVE  /\ run'[r] \in WindowRecord /\ Shape(run'[r]) /\ FieldsHeld(run'[r], accepted)
             /\ run'[r].at = run[r].at
             /\ run'[r].older <=> run[r].older \/ Running(r)
  <2> DEFINE v == run[r]
             older == v.older \/ Running(r)
             w == [v EXCEPT !.older = older]
  <2>1. v \in WindowRecord /\ Shape(v) /\ FieldsHeld(v, accepted)
    BY RunIs
  <2>2. run'[r] = w
    BY <1>0
  <2>3. older \in BOOLEAN
    BY <2>1 DEF WindowRecord, Running
  <2> HIDE DEF v, older
  <2>4. /\ w \in WindowRecord /\ w.older = older
        /\ w.at = v.at /\ w.slot = v.slot /\ w.fields = v.fields
        /\ w.calls = v.calls /\ w.signals = v.signals
        /\ w.enabled = v.enabled /\ w.selected = v.selected /\ w.launchable = v.launchable
        /\ w.reopened = v.reopened
    BY <2>1, <2>3 DEF WindowRecord
  <2> HIDE DEF w
  <2>5. Shape(w) /\ FieldsHeld(w, accepted)
    BY <2>1, <2>4 DEF Shape, FieldsHeld, Pending, LoginQueued, Authenticating
  <2> QED
    BY <2>2, <2>4, <2>5 DEF v, older
<1>2. Windows'
  <2>1. run' = [r \in Runs |-> run'[r]]
    BY <1>0
  <2>2. run' \in [Runs -> WindowRecord]
    BY <1>1, <2>1
  <2> QED
    BY <1>0, <1>1, <2>2 DEF Windows
<1>3. config' \in [is : {"absent", "whole"} \cup Unreadable, data : Stored]
      /\ config'.is = "whole" /\ config'.data.launch_command_template = command
  <2>1. config.data \in Stored
    BY DEF Inv, Files
  <2>2. [config.data EXCEPT !.launch_command_template = command] \in Stored
        /\ [config.data EXCEPT !.launch_command_template = command].launch_command_template = command
    BY <2>1 DEF Stored
  <2> QED
    BY <1>0, <2>2
<1>4. Files'
  <2>1. overwritten' \in BOOLEAN
    BY <1>0, Zenon
  <2> QED
    BY <1>0, <1>3, <2>1 DEF Inv, Files
<1>5. RememberedWasAccepted'
  BY <1>0 DEF Inv, RememberedWasAccepted
<1>6. Saving'
  <2>1. cut' = cut /\ config.is # "empty"
    BY <1>0
  <2> QED
    BY <1>1, <1>3, <2>1 DEF Inv, Saving
<1>7. Template'
  BY <1>0, <1>1, <1>3 DEF Template, Running
<1> QED
  BY <1>2, <1>4, <1>5, <1>6, <1>7 DEF Inv

-------------------------------------------------------------------------------
(* The theorems. *)
LEMMA InitInv == ASSUME Init PROVE Inv
<1> USE DEF Init
<1>1. /\ NoWindow("off") \in WindowRecord /\ NoWindow("off").at = "off"
      /\ Shape(NoWindow("off")) /\ \A acc : FieldsHeld(NoWindow("off"), acc)
  BY NoWindowIs
<1>2. Windows
  BY <1>1 DEF Windows
<1>3. LoginConfig \in Stored
  BY DEF LoginConfig, Stored
<1>4. Files
  <2>1. cut \in BOOLEAN /\ overwritten \in BOOLEAN
    BY Zenon
  <2> QED
    BY <1>3, <2>1 DEF Files
<1>5. RememberedWasAccepted
  BY DEF RememberedWasAccepted
<1>6. Saving /\ Template
  BY <1>1 DEF Saving, Template, Running
<1> QED
  BY <1>2, <1>4, <1>5, <1>6 DEF Inv

LEMMA StepInv == ASSUME Inv, [Next]_vars PROVE Inv'
<1>1. CASE UNCHANGED vars
  BY <1>1 DEF vars, fileVars, historyVars, Inv, Windows, Files, RememberedWasAccepted, Saving, Template, Running
<1>2. ASSUME NEW r \in Runs, LoginWindow(r) PROVE Inv'
  BY <1>2, StartInv, PrefillInv, ServeInv, OnAuthenticatedInv, OnHandoffReadyInv, OnCharactersReadyInv,
     OnAuthFailedInv, OnErrorInv, ClosesInv, TruncateInv, WriteInv, SaveRaisesInv, StorePasswordInv,
     KeyringRaisesInv DEF LoginWindow
<1>3. ASSUME NEW r \in Runs, Player(r) PROVE Inv'
  BY <1>3, EditsFieldsInv, OnLoginClickedInv, OnSelectionChangedInv, OnLaunchClickedInv, ClosesInv DEF Player
<1> QED
  BY <1>1, <1>2, <1>3, EditsConfigInv, KilledInv DEF Next, Stopped

\* The windows, the files and what the server accepted stay in step, however
\* many runs there are and wherever they are killed.
THEOREM Invariance == Spec => []Inv
<1>1. Init => Inv
  BY InitInv
<1>2. Inv /\ [Next]_vars => Inv'
  BY StepInv
<1> QED
  BY <1>1, <1>2, PTL DEF Spec

\* Every variable has its type: config.json never holds a password.
THEOREM TypeCorrect == Spec => []TypeOK
<1>1. Inv => TypeOK
  <2> SUFFICES ASSUME Inv PROVE TypeOK
    OBVIOUS
  <2>1. ASSUME NEW r \in Runs
        PROVE  /\ run[r].at \in {"off", "prefill", "open", "truncate", "write", "keyring", "gone"}
               /\ run[r].data \in Stored
               /\ run[r].fields \in (Accounts \cup {None}) \X (Passwords \cup {None})
               /\ run[r].selected \in Characters \cup {None}
               /\ run[r].launchable => run[r].selected # None
               /\ run[r].slot # "none" <=> run[r].at \in {"truncate", "write", "keyring"}
    <3>1. run[r] \in WindowRecord /\ Shape(run[r])
      BY RunIs
    <3> QED
      BY <3>1 DEF WindowRecord, Positions, Shape, InSlot
  <2> QED
    BY <2>1 DEF Inv, Files, Credentials, TypeOK
<1> QED
  BY <1>1, Invariance, PTL

\* A password in the keyring is one the server accepted for that account, unless
\* it was stored last by a login during which an error had enabled the fields.
THEOREM RememberedPasswordsWereAccepted == Spec => []RememberedWasAccepted
<1>1. Inv => RememberedWasAccepted
  BY DEF Inv
<1> QED
  BY <1>1, Invariance, PTL

\* The config can be read at the next start, unless a run is just saving it, or
\* the last save was killed, failed half way, or overlapped with another.
THEOREM ConfigsAreReadable == Spec => []ConfigReadable
<1>1. Inv => ConfigReadable
  BY DEF Inv, Saving, ConfigReadable, Unreadable
<1> QED
  BY <1>1, Invariance, PTL

\* The launch command the player configured last is saved over only by a run
\* that had loaded the file before.
THEOREM TemplatesAreKept == Spec => []TemplateKept
<1>1. Inv => TemplateKept
  BY DEF Inv, Template, TemplateKept
<1> QED
  BY <1>1, Invariance, PTL
===============================================================================
