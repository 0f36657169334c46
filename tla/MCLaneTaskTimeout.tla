------------------------- MODULE MCLaneTaskTimeout -------------------------
(* TLC instances of LaneTaskTimeout.                                        *)
EXTENDS LaneTaskTimeout

=============================================================================
