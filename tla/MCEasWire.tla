------------------------------- MODULE MCEasWire ------------------------------
(***************************************************************************)
(* Values for a small instance of EasWire.                                 *)
(***************************************************************************)
EXTENDS EasWire

\* The edges of the printable, 7-bit and 8-bit ranges, a tab as a password
\* character, and one code beyond latin-1.
MCPasswords == (BoundedSeq({9, 32, 65, 126, 255, 321}, 2) \cup BoundedSeq({9, 65, 255}, 3))
               \ {<< >>}
MCHashKeys == BoundedSeq({32, 65, 127, 233}, 3)

MCLists == BoundedSeq({<<"GS3", "Prime">>, <<"GSF", "Shattered">>, <<"DR", "Realms">>}, 3)

\* Names known and not, in either case, with a blank, or none; with and without a
\* value, blanks around it, and another = or a line break in it.
FieldNames == {<<"KEY">>, <<"key">>, <<Blank, "KEY">>, <<"UPPORT">>, << >>}
FieldValues == {<< >>, <<Eq>>} \cup
               {<<Eq>> \o v : v \in {<<"v">>, <<"w">>, <<Blank>>, <<Eq, "v">>, <<Blank, "v">>,
                                     <<"v", Blank, "w", Blank>>, <<"v", Break, "KEY", Eq>>}}
MCHandoffs == BoundedSeq({name \o value : name \in FieldNames, value \in FieldValues}, 3)

Atoms == {"KEY", "key", "UPPORT", "upport", "GAME", "game", "v", "w", Eq, Blank, Break}
MCUpper == [a \in Atoms |-> CASE a = "key" -> "KEY" [] a = "upport" -> "UPPORT"
                              [] a = "game" -> "GAME" [] OTHER -> a]
MCLower == [a \in Atoms |-> CASE a = "KEY" -> "key" [] a = "UPPORT" -> "upport"
                              [] a = "GAME" -> "game" [] OTHER -> a]
MCKnown == {<<"key">>, <<"game">>}

\* A word, and what shlex has a rule for.
Signs == {"w", Blank, "'", "\"", Backslash}
MCTemplates == BoundedSeq(Signs \cup {SalPath}, 4)
MCPaths == BoundedSeq(Signs, 2) \ {<< >>}
===============================================================================
