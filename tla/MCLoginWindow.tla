----------------------------- MODULE MCLoginWindow ----------------------------
(***************************************************************************)
(* Small instances of LoginWindow: one account with a right and a wrong    *)
(* password, and games with one character each.                            *)
(***************************************************************************)
EXTENDS LoginWindow

CONSTANTS account, right, wrong, hero

MCCredentials == {<<account, right>>, <<account, wrong>>}
MCValid == {<<account, right>>}
MCRoster == [g \in Games |-> {hero}]
===============================================================================
