------------------------------- MODULE FifoLink -------------------------------
(***************************************************************************)
(* What each direction of a play session promises: what comes out at the   *)
(* far end is, at every moment, a prefix of what was put in, and what has  *)
(* come out is never taken back.  A link may be cut at any time, so it     *)
(* does not promise that everything comes out.                             *)
(***************************************************************************)
EXTENDS Sequences, SequencesExt

VARIABLES sent, received

Init == sent = << >> /\ received = << >>

Put == IsPrefix(sent, sent') /\ UNCHANGED received

Take == /\ IsPrefix(received, received')
        /\ IsPrefix(received', sent)
        /\ UNCHANGED sent

Next == Put \/ Take

Spec == Init /\ [][Next]_<<sent, received>>
===============================================================================
