---------------------------- MODULE ReviewDeskMC ----------------------------
(* The instance that the runs check.                                       *)
EXTENDS ReviewDesk, TLC
=============================================================================
