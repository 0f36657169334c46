---- MODULE MCDeliveryQueue ----
(* Instances of DeliveryQueue for TLC. *)
EXTENDS DeliveryQueue
CONSTANTS startup, drain
TwoPasses == {startup, drain}
OnePass == {drain}
====
