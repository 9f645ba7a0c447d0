--------------------------- MODULE MCFashnRouter ---------------------------
(***************************************************************************)
(* TLC instances of FashnRouter.                                           *)
(***************************************************************************)
EXTENDS FashnRouter

CONSTANTS r1, r2, m1

TwoRequests == {r1, r2}
OneMonitor == {m1}
=============================================================================
