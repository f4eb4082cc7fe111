----------------------------- MODULE DisplayFilter ----------------------------
(***************************************************************************)
(* StreamingDisplayFilter (client/display_filter.py): the text of a        *)
(* connection arrives in chunks cut anywhere, feed() shows what is safe to *)
(* show and keeps the rest, flush() shows what is left when the connection *)
(* ends, wherever that is.                                                 *)
(*                                                                         *)
(* The text of a connection is up to MaxItems of Items, one after the      *)
(* other: what a game server sends as a unit (a word, the end of a line, a *)
(* prompt, a whole inventory listing).                                     *)
(***************************************************************************)
EXTENDS DisplayText

CONSTANTS Items,     \* the units a server sends
          MaxItems,  \* bound: units in a connection
          Narrated,  \* the word Items have outside the blocks that are dropped
          Hidden     \* the word they have inside them

ASSUME ItemsAssumption == MaxItems \in Nat /\ Items \subseteq Seq(Piece) /\ << >> \notin Items
\* A unit is whole: it leaves no block open and ends after a tag, not within it.
ASSUME ItemsAreWhole ==
  \A item \in Items : /\ item[Len(item)].form = "char"
                     /\ \A k \in DOMAIN Dropped : StillOpen(item, Dropped[k]) = << >>

VARIABLES arriving,          \* the text still to come from the socket
          arrived,           \* history: the text given to feed()
          buffer,            \* _buffer
          trailingNewlines,  \* _trailing_newlines
          shown,             \* everything feed() and flush() have returned
          flushed            \* the connection has ended

vars == <<arriving, arrived, buffer, trailingNewlines, shown, flushed>>

Leading(t)  == CHOOSE n \in 0..Len(t) : /\ \A i \in 1..n : t[i] = NL
                                        /\ n = Len(t) \/ t[n+1] # NL
Trailing(t) == Leading(Reverse(t))

Smaller(m, n) == IF m < n THEN m ELSE n
Allowed == IF trailingNewlines > 2 THEN 0 ELSE 2 - trailingNewlines

\* _collapse_across_chunks
CollapseForgetting(text) ==                                          \* fault
  LET result == SubSeq(text, 1 + Leading(text) - Smaller(Leading(text), Allowed), Len(text))
  IN shown' = shown \o result /\ trailingNewlines' = Trailing(result)
CollapseCounting(text) ==                                            \* fault
  LET kept == Smaller(Leading(text), Allowed)
  IN /\ shown' = shown \o SubSeq(text, 1 + Leading(text) - kept, Len(text))
     /\ trailingNewlines' = IF Leading(text) = Len(text) THEN trailingNewlines + Leading(text)
                            ELSE Trailing(text)
CollapseAcrossChunks(text) ==
  LET kept   == Smaller(Leading(text), Allowed)
      result == SubSeq(text, 1 + Leading(text) - kept, Len(text))
  IN /\ shown' = shown \o result
     /\ trailingNewlines' = IF Leading(text) = Len(text) THEN trailingNewlines + kept
                            ELSE Trailing(result)

Init == /\ \E n \in 0..MaxItems : \E items \in [1..n -> Items] : arriving = FlattenSeq(items)
        /\ arrived = << >> /\ buffer = << >> /\ shown = << >>
        /\ trailingNewlines = 0 /\ flushed = FALSE

Feed ==
  /\ ~flushed
  /\ \E n \in 1..Len(arriving) :
       LET chunk == SubSeq(arriving, 1, n)
           held  == Normalize(buffer \o chunk)
           cut   == Cutoff(held)
       IN /\ CollapseAcrossChunks(StripDisplayNoise(SubSeq(held, 1, cut)))
          /\ buffer' = SubSeq(held, cut + 1, Len(held))
          /\ arriving' = SubSeq(arriving, n + 1, Len(arriving))
          /\ arrived' = arrived \o chunk
  /\ UNCHANGED flushed

Flush == /\ ~flushed /\ flushed' = TRUE
         /\ CollapseAcrossChunks(StripDisplayNoise(buffer))
         /\ buffer' = << >>
         /\ UNCHANGED <<arriving, arrived>>

Terminated == flushed /\ UNCHANGED vars

Next == Feed \/ Flush \/ Terminated
Spec == Init /\ [][Next]_vars

-------------------------------------------------------------------------------
(* Types: what is shown, held and counted.                                 *)
TypeOK == /\ trailingNewlines \in 0..2
          /\ flushed \in BOOLEAN
          /\ flushed => buffer = << >>
          /\ arriving \in Seq(Piece)

-------------------------------------------------------------------------------
\* A space at the end of a line is not seen.
Tidy(t) == Keep(t, {i \in DOMAIN t : ~ \E b \in i..Len(t) : /\ b = Len(t) \/ t[b+1] \in {CR, NL}
                                                            /\ \A j \in i..b : t[j] = Space})

\* However the text is cut into chunks and wherever the connection ends, the
\* player has been shown what strip_display_noise makes of the whole text
\* (feed and the five functions that reduce its cutoff, flush).  This and the
\* next two are so of units that leave nothing behind a listing on its line.
SameAsWhole == flushed => Tidy(shown) = Tidy(StripDisplayNoise(arrived))

\* No word of the narrative is lost: dropping a block with its content drops
\* nothing before it, after it or between two of them (_strip_tags_and_entities).
CountOf(t, p) == Cardinality({i \in DOMAIN t : t[i] = p})
NarrativeKept == flushed => CountOf(shown, Narrated) = CountOf(arrived, Narrated)

\* Nothing inside a dropped block is shown while the connection lasts: a
\* block of which only a part has arrived is held (_earliest_unclosed_drop_tag)
\* and a whole one is removed (_strip_tags_and_entities).
BlocksAreDropped == ~flushed => \A i \in DOMAIN shown : shown[i] # Hidden

\* The player never sees more than one blank line in a row, also where the two
\* newlines that make it are shown by different calls (_collapse_across_chunks).
NoBlankRuns == \A i \in 1..Len(shown)-2 : ~ \A j \in i..i+2 : shown[j] = NL

\* Nothing is kept back for nothing: once all the text of some whole units has
\* arrived and it ends a line, all of it has been shown, without waiting for
\* more (feed, _earliest_unclosed_drop_tag).
NothingWithheld == (arriving = << >> /\ Ends(arrived, NL)) => buffer = << >>
===============================================================================
