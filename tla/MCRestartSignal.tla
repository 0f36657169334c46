---- MODULE MCRestartSignal ----
(* Instances of RestartSignal for TLC. *)
EXTENDS RestartSignal

OneSession == [h \in Hooks |-> "s1"]
TwoSessions == [h \in Hooks |-> IF h = "h2" THEN "s2" ELSE "s1"]
====
