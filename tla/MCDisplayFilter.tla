--------------------------- MODULE MCDisplayFilter ----------------------------
(***************************************************************************)
(* What a server sends, for small instances of DisplayFilter.              *)
(***************************************************************************)
EXTENDS DisplayFilter

MCNarrated == Char("word")
MCHidden   == Char("hidden")

Mark(name, form) == <<Tag(name, form), Close>>
Word == <<MCNarrated>>
Eol  == <<CR, NL>>
Gap  == <<Space>>
Noise  == Mark("mode", "self")
Link   == Mark("a", "open") \o Word \o Mark("a", "shut")
Entity == <<Amp, Semi>>
Prompt == Mark("prompt", "open") \o Entity \o Mark("prompt", "shut")
Dialog == Mark("dialogData", "open") \o <<MCHidden>> \o Mark("dialogData", "shut")
Objs   == Mark("component objs", "open") \o <<MCHidden>> \o Mark("component", "shut")
Desc   == Mark("component desc", "open") \o Word \o Mark("component", "shut")
Listing == Mark("pushStream inv", "self") \o <<MCHidden, CR, NL>> \o Mark("popStream", "self")
Room    == Mark("pushStream room", "self") \o Word \o Mark("popStream room", "self")
Other   == Mark("pushStream other", "self") \o Word \o Mark("popStream", "self")

\* Text, prompts, panels and streams; a listing ends its line.
Mixed == {Word, Eol, Gap, Noise, Link, Entity, Prompt,
          Dialog, Objs, Desc, Listing \o Eol, Room, Other}
\* A listing followed by a prompt.
Listings == {Word, Eol, Prompt, Listing}
===============================================================================
