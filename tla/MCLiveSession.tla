--------------------------- MODULE MCLiveSession ---------------------------
(* Instances of LiveSession for TLC. *)
EXTENDS LiveSession

CONSTANTS c1, c2, c3
=============================================================================
