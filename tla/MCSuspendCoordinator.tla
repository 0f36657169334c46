------------------------ MODULE MCSuspendCoordinator ------------------------
(* TLC instances of SuspendCoordinator.                                     *)
EXTENDS SuspendCoordinator

CONSTANTS c1, c2, e1, h1, h2

TwoChains == {c1, c2}
OneEmitter == {e1}
TwoHosts == {h1, h2}

=============================================================================
