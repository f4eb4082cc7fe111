----------------------------- MODULE MCLoginStore -----------------------------
(***************************************************************************)
(* Values for a small instance of LoginStore.                              *)
(***************************************************************************)
EXTENDS LoginStore

\* Four clicks in one run are the fewest for a login to overlap two launches:
\* log in, launch, select again and launch, log in again.  One click in each of
\* two runs is the fewest for two saves to overlap.
MCMaxClicks == {<<4, 0>>, <<2, 1>>}
===============================================================================
