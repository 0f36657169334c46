---- MODULE MCSessionSuspension ----
(* Instances of SessionSuspension for TLC. *)
EXTENDS SessionSuspension

AllKinds == {"main", "nested", "plugin"}
KindOf == [l \in Lanes |->
    CASE l = "main" -> "published" [] l = "nested" -> "nested" [] l = "plugin" -> "custom"]
====
