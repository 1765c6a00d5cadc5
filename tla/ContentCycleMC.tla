--------------------------- MODULE ContentCycleMC ---------------------------
(* Two briefs and two drivers; a revision may be reworked once.  The first *)
(* brief may be asked for by either route, the others by one.              *)
EXTENDS ContentCycle

CONSTANTS b1, e1

MCAsked == [b \in Briefs |-> IF b = b1 THEN Routes ELSE {e1}]

=============================================================================
