------------------------- MODULE MCSessionContainer -------------------------
(***************************************************************************)
(* The instance of SessionContainer for TLC: two sessions.                 *)
(***************************************************************************)
EXTENDS SessionContainer

CONSTANTS s1, s2

Two == {s1, s2}

=============================================================================
