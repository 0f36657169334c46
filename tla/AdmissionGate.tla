----------------------------- MODULE AdmissionGate -----------------------------
(***************************************************************************)
(* What root work admission promises to the rest of the gateway: a gate    *)
(* that lines of work pass.  A line is the work admitted once together     *)
(* with everything it continues into.  It starts only while the gate is    *)
(* open, and once it has ended it stays ended.  A fence closes the gate    *)
(* and may open it again; a restart closes it until the gateway starts     *)
(* anew, and its report on the lines that are left is true when it is made *)
(* and stays true.                                                         *)
(***************************************************************************)
EXTENDS Naturals

CONSTANTS Lines

VARIABLES
    gate,     \* "open", "fenced" or "draining"
    lines,    \* lines of work under way
    seen,     \* lines that ever started
    report    \* what the restart was told about the lines

vars == <<gate, lines, seen, report>>

Init == gate = "open" /\ lines = {} /\ seen = {} /\ report = "none"

StartLine ==
    /\ gate = "open"
    /\ \E x \in Lines \ seen : lines' = lines \cup {x} /\ seen' = seen \cup {x}
    /\ UNCHANGED <<gate, report>>

EndLine ==
    /\ \E x \in lines : lines' = lines \ {x}
    /\ UNCHANGED <<gate, seen, report>>

Fence ==
    /\ gate # "draining"
    /\ gate' \in {"open", "fenced"}
    /\ UNCHANGED <<lines, seen, report>>

DrainForRestart ==
    /\ gate # "draining"
    /\ gate' = "draining"
    /\ UNCHANGED <<lines, seen, report>>

Report ==
    /\ gate = "draining" /\ report = "none"
    /\ report' = IF lines = {} THEN "drained" ELSE "notDrained"
    /\ UNCHANGED <<gate, lines, seen>>

StartAnew ==
    /\ gate = "draining"
    /\ gate' = "open" /\ lines' = {} /\ report' = "none"
    /\ UNCHANGED seen

Next == StartLine \/ EndLine \/ Fence \/ DrainForRestart \/ Report \/ StartAnew

Spec == Init /\ [][Next]_vars
=============================================================================
