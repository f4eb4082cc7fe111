------------------------------ MODULE SingleUse -------------------------------
(***************************************************************************)
(* What the handoff of a session key promises (docs/sal-format.md: KEY is  *)
(* a single-use session token): only a key that was issued is used, by one *)
(* user and once.  A key may also be lost, and never be used.              *)
(***************************************************************************)
CONSTANTS Keys, Users

VARIABLES issued,   \* the keys given out
          uses      \* who used which key

Issue(k) == k \notin issued /\ issued' = issued \cup {k} /\ UNCHANGED uses

Use(k, u) == /\ k \in issued /\ \A use \in uses : use.key # k
             /\ uses' = uses \cup {[user |-> u, key |-> k]}
             /\ UNCHANGED issued

Init == issued = {} /\ uses = {}
Next == \E k \in Keys : Issue(k) \/ \E u \in Users : Use(k, u)
Spec == Init /\ [][Next]_<<issued, uses>>
===============================================================================
