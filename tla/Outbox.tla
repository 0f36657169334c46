-------------------------------- MODULE Outbox --------------------------------
(***************************************************************************)
(* What the outbound delivery queue promises for one message: once it is   *)
(* accepted each of its parts is put on the platform at most once, in any  *)
(* number of attempts, and after it is closed nothing more is put there.   *)
(***************************************************************************)
EXTENDS Naturals

CONSTANTS Parts

VARIABLES
    state,  \* "idle", "open" or "closed"
    out     \* how often each part was put on the platform

vars == <<state, out>>

Init == state = "idle" /\ out = [p \in Parts |-> 0]

Accept == state = "idle" /\ state' = "open" /\ UNCHANGED out
Refuse == state = "idle" /\ state' = "closed" /\ UNCHANGED out

Put(p) ==
    /\ state = "open" /\ out[p] = 0
    /\ out' = [out EXCEPT ![p] = 1]
    /\ state' \in {"open", "closed"}

Close == state = "open" /\ state' = "closed" /\ UNCHANGED out

Next == Accept \/ Refuse \/ Close \/ \E p \in Parts : Put(p)

Spec == Init /\ [][Next]_vars
===============================================================================
