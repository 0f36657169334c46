--------------------------- MODULE MCCommandQueue ---------------------------
(* TLC instances of CommandQueue.                                           *)
EXTENDS CommandQueue, TLC

CONSTANTS main, w1

OneLane == {main}
OneWaiter == {w1}

=============================================================================
