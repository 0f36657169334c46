--------------------------------- MODULE Inbox ---------------------------------
(***************************************************************************)
(* What the durable ingress queue and its drains promise together, with no *)
(* drain, handler, pass or retry in it: an accepted event is held by one   *)
(* claim at a time, and only that claim ends the hold.  An event whose     *)
(* claim was adopted leaves it completed and in no other way, unless the   *)
(* claim was revoked: by a recovery, which takes only holds that nobody    *)
(* keeps up, or by pruning the finished event.  A completed event stays    *)
(* completed until it is pruned.                                           *)
(***************************************************************************)
EXTENDS Naturals

CONSTANTS
    Events,
    Tokens    \* claims, positive numbers; 0 is none

VARIABLES
    mail,     \* "absent", "pending", "claimed", "completed" or "failed"
    holder,   \* the claim that holds an event, or 0
    made,     \* every claim ever made on an event
    adopted,  \* claims whose event was handed over for good
    revoked,  \* claims that were taken away
    kept      \* input: the events whose owner lives and renews its lease

vars == <<mail, holder, made, adopted, revoked>>

Init ==
    /\ mail = [e \in Events |-> "absent"]
    /\ holder = [e \in Events |-> 0]
    /\ made = [e \in Events |-> {}]
    /\ adopted = {}
    /\ revoked = {}

Submit(e) ==
    /\ mail[e] \in {"absent", "failed"}
    /\ mail' = [mail EXCEPT ![e] = "pending"]
    /\ UNCHANGED <<holder, made, adopted, revoked>>

Claim(e, t) ==
    /\ mail[e] = "pending"
    /\ \A f \in Events : t \notin made[f]
    /\ mail' = [mail EXCEPT ![e] = "claimed"]
    /\ holder' = [holder EXCEPT ![e] = t]
    /\ made' = [made EXCEPT ![e] = @ \cup {t}]
    /\ UNCHANGED <<adopted, revoked>>

\* An owner that was not told yet may adopt under a revoked claim, for nothing.
Adopt(t) ==
    /\ t \in revoked \/ \E e \in Events : mail[e] = "claimed" /\ holder[e] = t
    /\ adopted' = adopted \cup {t}
    /\ UNCHANGED <<mail, holder, made, revoked>>

Finish(e, outcome) ==
    /\ mail[e] = "claimed"
    /\ holder[e] \in adopted => outcome = "completed"
    /\ mail' = [mail EXCEPT ![e] = outcome]
    /\ holder' = [holder EXCEPT ![e] = 0]
    /\ UNCHANGED <<made, adopted, revoked>>

Recover(S) ==
    /\ \A e \in S : mail[e] = "claimed" /\ e \notin kept
    /\ mail' = [e \in Events |-> IF e \in S THEN "pending" ELSE mail[e]]
    /\ holder' = [e \in Events |-> IF e \in S THEN 0 ELSE holder[e]]
    /\ revoked' = revoked \cup {holder[e] : e \in S}
    /\ UNCHANGED <<made, adopted>>

Prune(e) ==
    /\ mail[e] \in {"completed", "failed"}
    /\ mail' = [mail EXCEPT ![e] = "absent"]
    /\ revoked' = revoked \cup made[e]
    /\ UNCHANGED <<holder, made, adopted>>

Next ==
    \/ \E e \in Events : Submit(e) \/ Prune(e)
    \/ \E e \in Events, t \in Tokens : Claim(e, t)
    \/ \E t \in Tokens : Adopt(t)
    \/ \E e \in Events, outcome \in {"pending", "completed", "failed"} : Finish(e, outcome)
    \/ \E S \in SUBSET Events : Recover(S)

Spec == Init /\ [][Next]_vars
=============================================================================
