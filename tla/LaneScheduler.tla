----------------------------- MODULE LaneScheduler -----------------------------
(***************************************************************************)
(* What the command queue promises to its callers, with no queue in it:    *)
(* every job that is asked for waits in its lane, holds one of the lane's  *)
(* slots and gets one outcome.  Whatever a call does, the lanes it touches *)
(* are dispatched before it returns: the most urgent and then the oldest   *)
(* waiting jobs take the free slots, none beyond the lane's limit, and a   *)
(* job is left waiting only where every slot is held.                      *)
(*                                                                         *)
(* A retired job has lost its slot to a reset.  It still runs, and its     *)
(* outcome still reaches its caller, but it counts for the lane no longer. *)
(***************************************************************************)
EXTENDS Integers, FiniteSets, Sequences

CONSTANTS
    Lanes,
    Jobs,             \* job numbers, in the order the jobs are asked for
    Requests,         \* what a job asks for: at least a lane and a priority
    Limits            \* the limits a lane may be given

VARIABLES
    asked,            \* asked[i]: the request of job i
    job,              \* job[i]: "new", "waiting", "holding", "retired" or its outcome
    limit             \* limit[l]: how many slots lane l has

vars == <<asked, job, limit>>

\* The jobs of lane l in state s, when ask and jobs are the requests and states.
In(l, s, ask, jobs) == {i \in Jobs : jobs[i] = s /\ ask[i].lane = l}

\* Job j is served before job i.
Ahead(ask, j, i) ==
    \/ ask[j].priority > ask[i].priority
    \/ ask[j].priority = ask[i].priority /\ j < i

\* Lane l as a call leaves it: the jobs it started are within the limit and
\* were ahead of all that still wait, and these wait because no slot is free.
Served(l, ask, before, lim) ==
    LET holding == In(l, "holding", ask, job')
        waiting == In(l, "waiting", ask, job')
        started == {i \in holding : before[i] = "waiting"}
    IN  /\ started # {} => Cardinality(holding) <= lim[l]
        /\ waiting # {} => Cardinality(holding) >= lim[l]
        /\ \A i \in started : \A j \in waiting : ~Ahead(ask, j, i)

\* From the states in before, the free slots of the lanes of L are given out
\* and nothing else changes.
Dispatch(L, ask, before, lim) ==
    /\ \A i \in Jobs :
          \/ job'[i] = before[i]
          \/ before[i] = "waiting" /\ job'[i] = "holding" /\ ask[i].lane \in L
    /\ \A l \in L : Served(l, ask, before, lim)

Init ==
    /\ asked = <<>>
    /\ job = [i \in Jobs |-> "new"]
    /\ limit = [l \in Lanes |-> 1]

Accept(r) ==
    LET i == Len(asked) + 1
    IN  /\ i \in Jobs
        /\ asked' = Append(asked, r)
        /\ Dispatch({r.lane}, asked', [job EXCEPT ![i] = "waiting"], limit)
        /\ UNCHANGED limit

\* A job gets its outcome and frees the slot it holds, if it still holds one.
Finish(i, outcome) ==
    /\ job[i] \in {"holding", "retired"}
    /\ Dispatch({asked[i].lane}, asked, [job EXCEPT ![i] = outcome], limit)
    /\ UNCHANGED <<asked, limit>>

SetLimit(l, m) ==
    /\ limit' = [limit EXCEPT ![l] = m]
    /\ Dispatch({l}, asked, job, limit')
    /\ UNCHANGED asked

\* The jobs waiting in a lane are turned away.
Clear(l) ==
    /\ job' = [i \in Jobs |-> IF i \in In(l, "waiting", asked, job) THEN "rejected" ELSE job[i]]
    /\ UNCHANGED <<asked, limit>>

\* The jobs holding slots in the lanes of L lose them.
Retire(L) ==
    /\ Dispatch(L, asked,
                [i \in Jobs |-> IF \E l \in L : i \in In(l, "holding", asked, job)
                                THEN "retired" ELSE job[i]],
                limit)
    /\ UNCHANGED <<asked, limit>>

Next ==
    \/ \E r \in Requests : Accept(r)
    \/ \E i \in Jobs, outcome \in {"resolved", "rejected"} : Finish(i, outcome)
    \/ \E l \in Lanes, m \in Limits : SetLimit(l, m)
    \/ \E l \in Lanes : Clear(l)
    \/ \E L \in SUBSET Lanes : Retire(L)

Spec == Init /\ [][Next]_vars
=============================================================================
