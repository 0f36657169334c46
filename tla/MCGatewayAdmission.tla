------------------------- MODULE MCGatewayAdmission -------------------------
(* TLC instances of GatewayAdmission.                                       *)
EXTENDS GatewayAdmission

CONSTANTS c1, c2, e1, e2

TwoChains == {c1, c2}
TwoEmitters == {e1, e2}

=============================================================================
