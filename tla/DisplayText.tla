------------------------------ MODULE DisplayText -----------------------------
(***************************************************************************)
(* strip_display_noise and the functions that decide how much of a buffer  *)
(* may be shown (client/display_filter.py), as operators on text.          *)
(*                                                                         *)
(* A text is a sequence of pieces between which a read may end: a          *)
(* character, a word, the two parts of an entity (Amp, Semi), the two      *)
(* parts of a tag (everything up to its last character; then Close, its    *)
(* ">").  A piece of a tag has a name and a form: "open" <x>, "shut" </x>, *)
(* "self" <x/>.  One tag stands for each kind the filter treats alike.     *)
(*                                                                         *)
(* A definition marked "fault" is a plausible mistake in the definition    *)
(* below it, which some property must notice.                              *)
(***************************************************************************)
EXTENDS Integers, Sequences, SequencesExt, FiniteSetsExt

Piece == [is : STRING, form : {"char", "open", "shut", "self"}]

Char(c) == [is |-> c, form |-> "char"]
Tag(name, form) == [is |-> name, form |-> form]

Space == Char("space")
CR    == Char("CR")
NL    == Char("NL")
Amp   == Char("&gt")      \* "&gt;" is Amp and Semi, it shows as Greater
Semi  == Char(";")
Greater == Char("greater")
Close == Char(">")

Ends(t, p) == t # << >> /\ t[Len(t)] = p
IsTag(t, i) == i < Len(t) /\ t[i].form # "char"
IsTagIn(t, i, tags) == IsTag(t, i) /\ t[i] \in tags

\* The positions in P, of the first n, in order.
InOrder(P, n) ==
  LET kept[i \in 0..n] == IF i = 0 THEN << >>
                          ELSE IF i \in P THEN Append(kept[i-1], i) ELSE kept[i-1]
  IN kept[n]

\* The pieces of t at the positions in P.
Keep(t, P) == LET kept == InOrder(P, Len(t)) IN [j \in DOMAIN kept |-> t[kept[j]]]

Normalize(t) == Keep(t, {i \in DOMAIN t : ~(t[i] = CR /\ i < Len(t) /\ t[i+1] = NL)})

-------------------------------------------------------------------------------
(* What is dropped with its content: the stream "inv", the tags of         *)
(* _DROP_WITH_CONTENT, the components of _DROP_COMPONENT_IDS.  A <popStream> *)
(* without an id closes every stream, </component> every component.        *)
(* `starts` is what _TAG_WITH_CONTENT_RE and its like match, `opens` what  *)
(* _earliest_unclosed_drop_tag counts.                                     *)
InvStream == [starts |-> {Tag("pushStream inv", "self")},
              opens  |-> {Tag("pushStream inv", "self")},
              shuts  |-> {Tag("popStream", "self"), Tag("popStream inv", "self")}]

DropTag(name) == [starts |-> {Tag(name, "open"), Tag(name, "self")},
                  opens  |-> {Tag(name, "open")},
                  shuts  |-> {Tag(name, "shut")}]

RoomObjs == [starts |-> {Tag("component objs", "open"), Tag("component objs", "self")},
             opens  |-> {Tag("component objs", "open"), Tag("component objs", "self")},
             shuts  |-> {Tag("component", "shut")}]

Dropped == <<InvStream, DropTag("dialogData"), DropTag("prompt"), RoomObjs>>

-------------------------------------------------------------------------------
(* strip_display_noise *)

InBlockGreedy(t, i, block) ==                                        \* fault
  /\ \E o \in 1..i : IsTagIn(t, o, block.starts)
  /\ \E c \in i-1..Len(t) : c > 0 /\ IsTagIn(t, c, block.shuts)

\* Position i belongs to a match of "start .*? shut": some start before it,
\* and it is not beyond the first shut after that start.
InBlock(t, i, block) ==
  \E o \in 1..i : /\ IsTagIn(t, o, block.starts)
                  /\ \E c \in o+1..Len(t) : /\ IsTagIn(t, c, block.shuts) /\ i <= c + 1
                                            /\ \A d \in o+1..c-1 : ~IsTagIn(t, d, block.shuts)

Erase(t, block) == Keep(t, {i \in DOMAIN t : ~InBlock(t, i, block)})

EraseBlocks(t) ==
  Erase(Erase(Erase(Erase(t, Dropped[1]), Dropped[2]), Dropped[3]), Dropped[4])

EraseTags(t) == Keep(t, {i \in DOMAIN t : ~(IsTag(t, i) \/ (i > 1 /\ IsTag(t, i-1)))})

Unescape(t) ==
  LET Entity(i) == i \in 1..Len(t)-1 /\ t[i] = Amp /\ t[i+1] = Semi
      shown == [i \in 1..Len(t) |-> IF Entity(i) THEN Greater ELSE t[i]]
  IN Keep(shown, {i \in DOMAIN t : ~Entity(i-1)})

StripTagsAndEntities(t) == Unescape(EraseTags(EraseBlocks(t)))

\* _WHITESPACE_ONLY_LINE_RE: the spaces from a to b are a whole line.
FoldWhitespaceLines(t) ==
  Keep(t, {i \in DOMAIN t : ~ \E a \in 1..i, b \in i..Len(t) :
                                /\ \A j \in a..b : t[j] = Space
                                /\ a = 1 \/ t[a-1] = NL
                                /\ b = Len(t) \/ t[b+1] = NL})

\* _BLANK_LINES_RE
FoldBlankLines(t) ==
  Keep(t, {i \in DOMAIN t : ~(i > 2 /\ t[i] = NL /\ t[i-1] = NL /\ t[i-2] = NL)})

StripDisplayNoise(t) ==
  FoldBlankLines(FoldWhitespaceLines(StripTagsAndEntities(Normalize(t))))

-------------------------------------------------------------------------------
(* How much of a buffer may be shown: each function takes the cutoff found *)
(* so far, the number of pieces to release, and may reduce it.             *)

\* The openings still open once each closing has consumed the earliest one.
StillOpen(t, block) ==
  LET Walk(open, i) == IF IsTagIn(t, i, block.opens) THEN Append(open, i)
                       ELSE IF IsTagIn(t, i, block.shuts) /\ open # << >> THEN Tail(open)
                       ELSE open
      after[i \in 0..Len(t)] == IF i = 0 THEN << >> ELSE Walk(after[i-1], i)
  IN after[Len(t)]

\* Counting every closing, also those before the first opening.
FirstUnclosedByCount(t, block) ==                                    \* fault
  LET opens == {i \in 1..Len(t) : IsTagIn(t, i, block.opens)}
      shuts == {i \in 1..Len(t) : IsTagIn(t, i, block.shuts)}
  IN IF Cardinality(opens) > Cardinality(shuts) THEN {Min(opens)} ELSE {}
FirstUnclosed(t, block) ==
  LET open == StillOpen(t, block) IN IF open = << >> THEN {} ELSE {open[1]}

EarliestUnclosed(t) ==
  Min({Len(t) + 1} \cup UNION {FirstUnclosed(t, Dropped[k]) : k \in DOMAIN Dropped}) - 1

\* Where the last piece to be released may not be the last one.
HoldBackLast(t, cutoff, P(_)) == IF cutoff > 0 /\ P(t[cutoff]) THEN cutoff - 1 ELSE cutoff

HoldBackTag(t, cutoff) == HoldBackLast(t, cutoff, LAMBDA p : p.form # "char")

HoldBackEntity(t, cutoff) == HoldBackLast(t, cutoff, LAMBDA p : p = Amp)

HoldBackEol(t, cutoff) == HoldBackLast(t, cutoff, LAMBDA p : p \in {CR, NL})   \* fault
HoldBackCR(t, cutoff) == HoldBackLast(t, cutoff, LAMBDA p : p = CR)

OnlyClosingTags(t) == \A i \in DOMAIN t : \/ IsTag(t, i) /\ t[i].form # "open"
                                          \/ i > 1 /\ IsTag(t, i-1) /\ t[i-1].form # "open"

\* The line that has no newline yet is kept whole while it would show as blank.
NoHoldBackRiskyLine(t, cutoff) == cutoff                             \* fault
HoldBackRiskyLine(t, cutoff) ==
  LET start == Max({0} \cup {i \in 1..cutoff : t[i] = NL})
      line  == SubSeq(t, start + 1, cutoff)
      blank == \A p \in ToSet(StripTagsAndEntities(line)) : p = Space
  IN IF line # << >> /\ ~OnlyClosingTags(line) /\ blank THEN start ELSE cutoff

Cutoff(t) ==
  HoldBackRiskyLine(t, HoldBackCR(t, HoldBackEntity(t, HoldBackTag(t, EarliestUnclosed(t)))))
===============================================================================
