------------------------------- MODULE EasWire --------------------------------
(***************************************************************************)
(* The contents of the exchange with the authentication server, which      *)
(* LoginWorker and EasSession abstract: the obscured password, the lists   *)
(* and the handoff (login/eas_wire.py), and the handoff's way on to the    *)
(* front-end: HandoffInfo.from_kv, _sal_lines, read_sal_file, and the      *)
(* command line that names the file (login/launcher.py).                   *)
(*                                                                         *)
(* Characters of a password and of its key are their codes.  A reply is    *)
(* the sequence of its fields.  A field of a list is one value; a field of *)
(* a handoff, the SAL text, a command line and a path are sequences of     *)
(* atoms.                                                                  *)
(*                                                                         *)
(* A definition marked "fault" is not part of the model: it is a plausible *)
(* mistake in the definition below it, which some property must notice.    *)
(***************************************************************************)
EXTENDS Integers, Sequences, SequencesExt, FiniteSetsExt

CONSTANTS Passwords, HashKeys,   \* sequences of codes
          Lists,                 \* sequences of pairs <<code, name>>
          Handoffs,              \* sequences of fields
          Templates, Paths,      \* launch_command_template and SAL path
          Upper, Lower,          \* case of the atoms of a handoff
          Known                  \* _KNOWN_HANDOFF_FIELDS, each as the atoms of its name

ASSUME PasswordsAssumption == Passwords \subseteq Seq(Nat) /\ HashKeys \subseteq Seq(Nat)
ASSUME ListsAssumption == Lists \subseteq Seq(STRING \X STRING)
\* A path has at least one character: pathlib's shortest is ".".
ASSUME PathsAssumption == /\ Templates \subseteq Seq(STRING) /\ Paths \subseteq Seq(STRING)
                          /\ << >> \notin Paths
ASSUME HandoffsAssumption == Handoffs \subseteq Seq(Seq(DOMAIN Upper))

VARIABLES call,     \* the function at work, and its argument
          result    \* what it has returned, or how far it is

vars == <<call, result>>

Eq == "="    Blank == " "    Break == "\n"    Backslash == "\\"
Quotes == {"'", "\""}
SalPath == "{sal_path}"
Pending == [is |-> "pending"]
Raised == [is |-> "raised"]
Returned(value) == [is |-> "returned", value |-> value]

\* Neither case changes a separator or makes one of another atom, and a name in
\* lower case comes back from upper case.
ASSUME CaseAssumption ==
  LET Letters == DOMAIN Upper
  IN /\ {Eq, Blank, Break} \subseteq Letters
     /\ Upper \in [Letters -> Letters] /\ Lower \in [Letters -> Letters]
     /\ \A a \in Letters, c \in {Eq, Blank, Break} :
          (Upper[a] = c <=> a = c) /\ (Lower[a] = c <=> a = c)
     /\ \A a \in Letters : Lower[Upper[Lower[a]]] = Lower[a]

Calls == [name : {"obscure_password"}, password : Passwords, key : HashKeys]
         \cup [name : {"parse_game_list", "parse_char_list"}, list : Lists]
         \cup [name : {"parse_handoff_kv"}, fields : Handoffs]
         \cup [name : {"build_command"}, template : Templates, path : Paths]

-------------------------------------------------------------------------------
(* obscure_password *)

\* ^ on what & 0xFF leaves of it, the low bytes, in two's complement.
Xor(m, n) == LET Bit(p) == p * ((m \div p + n \div p) % 2)
             IN Bit(1) + Bit(2) + Bit(4) + Bit(8) + Bit(16) + Bit(32) + Bit(64) + Bit(128)

\* Without its parentheses, + 32 & 0xFF is for the byte of the key.
ScrambledUnbracketed(char, key) == Xor(char - 32, (key + 32) % 256)  \* fault
Scrambled(char, key) == (Xor(char - 32, key) + 32) % 256

\* The key cycles when it is shorter than the password; index is from 0.  Whether
\* the server cycles it as well is not known (docs/decisions.md, risk log).
KeyByte(key, index) == key[(index % Len(key)) + 1]

Obscured(password, key) ==
  [i \in DOMAIN password |-> Scrambled(password[i], KeyByte(key, i - 1))]

ObscurePassword ==
  /\ call.name = "obscure_password" /\ result = Pending
  /\ result' = IF call.key = << >> THEN Raised     \* ValueError
               ELSE Returned(Obscured(call.password, call.key))
  /\ UNCHANGED call

-------------------------------------------------------------------------------
(* parse_game_list, parse_char_list *)

Piece == "piece"   \* the first characters of a field that was cut

\* The server's reply, and what one recv() gets of it when it is too long.
ListReply == FlattenSeq(<< IF call.name = "parse_game_list" THEN <<"M">>
                           ELSE <<"C", "1", "2", "3", "4">> >> \o call.list)
Received(reply) == {reply} \cup {SubSeq(reply, 1, n) : n \in 0..Len(reply)}
                           \cup {Append(SubSeq(reply, 1, n), Piece) : n \in 0..Len(reply) - 1}

\* zip() of every second field and the others.
Pairs(fields) == [i \in 1..Len(fields) \div 2 |-> <<fields[2 * i - 1], fields[2 * i]>>]

FromFourth(fields) == Pairs(SubSeq(fields, 5, Len(fields)))          \* fault
CharPairs(fields) == Pairs(SubSeq(fields, 6, Len(fields)))

ParseList ==
  /\ call.name \in {"parse_game_list", "parse_char_list"} /\ result = Pending
  /\ \E fields \in Received(ListReply) :
       result' = IF fields = << >> \/ fields[1] # ListReply[1] THEN Raised   \* EASProtocolError
                 ELSE Returned(IF call.name = "parse_game_list" THEN Pairs(Tail(fields))
                               ELSE CharPairs(fields))
  /\ UNCHANGED call

-------------------------------------------------------------------------------
(* parse_handoff_kv, from_kv, _sal_lines, read_sal_file *)

\* str.partition, at the first =; without one, all of it is the key.
PartitionAtLast(s) == LET i == SelectLastInSeq(s, LAMBDA a : a = Eq)   \* fault
                      IN IF i = 0 THEN <<s, << >> >>
                         ELSE <<SubSeq(s, 1, i - 1), SubSeq(s, i + 1, Len(s))>>
Partition(s) == LET i == SelectInSeq(s, LAMBDA a : a = Eq)
                IN IF i = 0 THEN <<s, << >> >>
                   ELSE <<SubSeq(s, 1, i - 1), SubSeq(s, i + 1, Len(s))>>

ToUpper(s) == [i \in DOMAIN s |-> Upper[s[i]]]
ToLower(s) == [i \in DOMAIN s |-> Lower[s[i]]]

\* A dict, later entries over earlier ones.
Dict(entries) ==
  [k \in {entries[i][1] : i \in DOMAIN entries} |->
     entries[Max({i \in DOMAIN entries : entries[i][1] = k})][2]]

HandoffKv(fields) == Dict([i \in DOMAIN fields |-> LET kv == Partition(fields[i])
                                                   IN <<ToLower(kv[1]), kv[2]>>])

\* A field the reply does not have is the empty string.
FromKv(kv) == [known |-> [k \in Known |-> IF k \in DOMAIN kv THEN kv[k] ELSE << >>],
               extra |-> [k \in DOMAIN kv \ Known |-> kv[k]]]

\* The lines are in some order: read_sal_file() takes any.
SalText(info) ==
  LET fields == [k \in DOMAIN info.known \cup DOMAIN info.extra |->
                   IF k \in Known THEN info.known[k] ELSE info.extra[k]]
      written == {k \in DOMAIN fields : fields[k] # << >>}
  IN FlattenSeq([i \in 1..Cardinality(written) |->
                   LET k == SetToSeq(written)[i] IN ToUpper(k) \o <<Eq>> \o fields[k] \o <<Break>>])

\* splitlines(): each line at the place where it ends.
LineEnds(text) == {i \in DOMAIN text : text[i] = Break} \cup {Len(text) + 1}
Line(text, end) ==
  SubSeq(text, Max({0} \cup {i \in LineEnds(text) : i < end}) + 1, end - 1)

Strip(s) == LET inked == {i \in DOMAIN s : s[i] # Blank}
            IN IF inked = {} THEN << >> ELSE SubSeq(s, Min(inked), Max(inked))

ReadSal(text) ==
  Dict([end \in {e \in LineEnds(text) : Contains(Line(text, e), Eq)} |->
          LET kv == Partition(Strip(Line(text, end))) IN <<ToLower(Strip(kv[1])), Strip(kv[2])>>])

SelectCharacter ==
  /\ call.name = "parse_handoff_kv" /\ result = Pending
  /\ result' = [is |-> "handoff", value |-> FromKv(HandoffKv(call.fields))]
  /\ UNCHANGED call

WriteSalFile == /\ result.is = "handoff"
                /\ result' = [is |-> "file", value |-> SalText(result.value)]
                /\ UNCHANGED call

ReadSalFile == /\ result.is = "file" /\ result' = Returned(ReadSal(result.value))
               /\ UNCHANGED call

-------------------------------------------------------------------------------
(* build_command *)

\* rift-client --sal {sal_path}
DefaultTemplate == <<"w", Blank, "w", Blank, SalPath>>
TemplateOf(template) == IF template = << >> THEN DefaultTemplate ELSE template

Format(template, path) ==
  FlattenSeq([i \in DOMAIN template |-> IF template[i] = SalPath THEN path ELSE <<template[i]>>])

BetweenQuotes(path) == <<"'">> \o path \o <<"'">>                     \* fault
\* shlex.quote: a quote in the path is left to a pair of the other kind.
ShlexQuote(path) ==
  IF ToSet(path) \cap (Quotes \cup {Blank, Backslash}) = {} THEN path
  ELSE <<"'">> \o FlattenSeq([i \in DOMAIN path |-> IF path[i] = "'" THEN <<"'", "\"", "'", "\"", "'">>
                                                    ELSE <<path[i]>>]) \o <<"'">>

\* shlex.split: `within` is the quote it is in, "plain" or after a backslash.
EndToken(s) == IF s.token = << >> /\ ~s.quoted THEN s
               ELSE [s EXCEPT !.args = Append(@, s.token), !.token = << >>, !.quoted = FALSE]

Scan(s, c) ==
  CASE s.within = "escape" ->
         [s EXCEPT !.within = s.back,
                   !.token = @ \o IF s.back \in Quotes /\ c \notin {Backslash, s.back}
                                  THEN <<Backslash, c>> ELSE <<c>>]
    [] s.within \in Quotes /\ c = s.within -> [s EXCEPT !.within = "plain"]
    [] c = Backslash /\ s.within \in {"plain", "\""} -> [s EXCEPT !.within = "escape", !.back = s.within]
    [] s.within = "plain" /\ c = Blank -> EndToken(s)
    [] s.within = "plain" /\ c \in Quotes -> [s EXCEPT !.within = c, !.quoted = TRUE]
    [] OTHER -> [s EXCEPT !.token = Append(@, c)]

Scanned(line) ==
  LET after[i \in 0..Len(line)] ==
        IF i = 0 THEN [within |-> "plain", back |-> "plain", token |-> << >>,
                       quoted |-> FALSE, args |-> << >>]
        ELSE Scan(after[i-1], line[i])
  IN after[Len(line)]

ShlexSplit(line) == LET s == Scanned(line)
                    IN IF s.within # "plain" THEN Raised ELSE Returned(EndToken(s).args)   \* ValueError

BuildCommand ==
  /\ call.name = "build_command" /\ result = Pending
  /\ result' = ShlexSplit(Format(TemplateOf(call.template), ShlexQuote(call.path)))
  /\ UNCHANGED call

-------------------------------------------------------------------------------
Init == call \in Calls /\ result = Pending
Next == ObscurePassword \/ ParseList \/ SelectCharacter \/ WriteSalFile \/ ReadSalFile
        \/ BuildCommand
Spec == Init /\ [][Next]_vars

-------------------------------------------------------------------------------
IsOf(name) == call.name = name /\ result.is = "returned"

\* A byte that was sent, read with a byte of the key.
Reads(sent, key) == (Xor(sent - 32, key) + 32) % 256
LowByte(code) == code % 256

\* What obscure_password sends for a password no longer than the key is read back
\* with that key, byte by byte: only characters beyond latin-1 are folded onto
\* others (the & 0xFF).  For a longer one nothing is said of the server, which may
\* not cycle the key as the client does (docs/decisions.md, risk log); but what is
\* sent then still tells the password from every other.  With a printable password
\* and a 7-bit key none of it is a control character: no tab makes a fourth field
\* of the A line and no newline is stripped from its end.
ObscuringLosesNothing ==
  IsOf("obscure_password") =>
    LET sent == result.value
        Is(password) == Len(password) = Len(call.password) /\
                        \A i \in DOMAIN password : LowByte(password[i]) = LowByte(call.password[i])
        Printable == ToSet(call.password) \subseteq 32..126 /\ ToSet(call.key) \subseteq 0..127
    IN /\ Len(sent) = Len(call.password)
       /\ Len(call.password) <= Len(call.key) =>
            \A i \in DOMAIN call.password :
              Reads(sent[i], LowByte(call.key[i])) = LowByte(call.password[i])
       /\ \A password \in Passwords : Obscured(password, call.key) = sent => Is(password)
       /\ Printable => ToSet(sent) \cap 0..31 = {}

\* A list reply that was cut, at the 4096 bytes of recv_packet, is read as the
\* first entries of the list, of which only the last may have a cut name: it
\* never pairs the code of one entry with another or shifts into the names.
CutListIsPrefix ==
  call.name \in {"parse_game_list", "parse_char_list"} /\ result.is = "returned" =>
    /\ Len(result.value) <= Len(call.list)
    /\ \A i \in DOMAIN result.value :
         \/ result.value[i] = call.list[i]
         \/ i = Len(result.value) /\ result.value[i] = <<call.list[i][1], Piece>>

\* A field: its name, up to the first = and in lower case, and its value.
NameEnd(f) == SelectInSeq(Append(f, Eq), LAMBDA a : a = Eq)
Name(f) == ToLower(SubSeq(f, 1, NameEnd(f) - 1))
ValueOf(f) == SubSeq(f, NameEnd(f) + 1, Len(f))
Plain(f) == ~Contains(f, Break) /\ Strip(Name(f)) = Name(f)

\* The names of the fields, and what the last field of a name gives it.
Named(fields) == {Name(f) : f \in ToSet(fields)}
Sent(fields, k) == {i \in DOMAIN fields : Name(fields[i]) = k}
Value(fields, k) == ValueOf(fields[Max(Sent(fields, k))])

\* The front-end reads from the SAL file what the server has sent: for every
\* name, in either case, the last value, without the blanks around it, and no
\* entry for an empty one (from_kv, _sal_lines and read_sal_file undo each
\* other).  It is so while no field has a line break in it and no name has
\* blanks around it.
FrontEndReadsHandoff ==
  IsOf("parse_handoff_kv") /\ (\A f \in ToSet(call.fields) : Plain(f)) =>
    LET names == {k \in Named(call.fields) : Value(call.fields, k) # << >>}
    IN result.value = [k \in names |-> Strip(Value(call.fields, k))]

\* The front-end is started with the arguments of the template, with the path as
\* it is in place of {sal_path}: never cut at a blank, with quotes left in it, or
\* changing how the rest is read.  It is so for every path while no {sal_path} of
\* the template stands inside quotes or after a backslash, and for every template
\* while the path has no blank, quote or backslash.
PathIsOneArgument ==
  LET template == TemplateOf(call.template)
      Unquoted == \A i \in DOMAIN template :
                    template[i] = SalPath => Scanned(SubSeq(template, 1, i - 1)).within = "plain"
      NeedsNoQuotes == ToSet(call.path) \cap (Quotes \cup {Blank, Backslash}) = {}
      written == ShlexSplit(template)
  IN call.name = "build_command" /\ result # Pending /\ (Unquoted \/ NeedsNoQuotes) =>
       result = IF written = Raised THEN Raised
                ELSE Returned([i \in DOMAIN written.value |-> Format(written.value[i], call.path)])
===============================================================================
