---- MODULE MCIngressDrain ----
(* Instances of IngressDrain for TLC. *)
EXTENDS IngressDrain

TwoEvents == {1, 2}
OneEvent == {1}
OneLane == {"lane"}
SameLane == [e \in Events |-> "lane"]
Alone == [d \in Drains |-> "p1"]
Apart == [d \in Drains |-> IF d = "d1" THEN "p1" ELSE "p2"]
====
