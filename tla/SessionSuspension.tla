--------------------------- MODULE SessionSuspension ---------------------------
(***************************************************************************)
(* Lanes suspended after a model provider failed                           *)
(* (src/src/agents/session-suspension.ts) and the publication of lane      *)
(* limits by the gateway (src/src/gateway/server-lanes.ts).                *)
(*                                                                         *)
(* A suspension is written to the session's store entry, sets its lane to  *)
(* concurrency zero and arms a timer that reopens the lane.  A gateway     *)
(* that closes stops the timers and keeps what they would have done; the   *)
(* next start in the same process re-arms them.  Writes are serialised and *)
(* may still be under way when the gateway closes or starts again.         *)
(***************************************************************************)
EXTENDS Naturals, Sequences

CONSTANTS
    Lanes,            \* lanes that carry work
    LaneKind,         \* published: main, subagent, cron; nested; custom: a plugin's
    Sessions,
    Limits,           \* concurrency limits a configuration may give
    TTL,              \* ticks a suspension lasts
    MaxCalls,         \* bound: suspendSession calls
    MaxGeneration     \* bound: cleanupGeneration

NoLane == "none"   \* suspendSession without a laneId

ASSUME LanesAssumption ==
    NoLane \notin Lanes /\ LaneKind \in [Lanes -> {"published", "nested", "custom"}]
ASSUME LimitsAssumption == Limits \subseteq Nat \ {0} /\ Limits # {}
ASSUME SuspensionBounds ==
    TTL \in Nat \ {0} /\ MaxCalls \in Nat /\ MaxGeneration \in Nat

VARIABLES
    limit,          \* maxConcurrent of each lane in the command queue
    config,         \* the limits of the configuration in force
    timer,          \* laneResumeTimers: what the timer will set, and when
    cleared,        \* clearedLaneResumes: timers stopped by a closing gateway
    generation,     \* cleanupGeneration
    cleanupActive,
    chain,          \* suspensionWriteChain: calls that have not finished
    write,          \* the call at its head, once it runs
    store,          \* the suspension each session's entry holds, 0 for none
    calls,          \* number of suspendSession calls so far
    standing        \* history: suspensions that throttled or could not be rolled back

laneVars == <<limit, config, timer, cleared>>
writeVars == <<chain, write, store, calls, standing>>
vars == <<laneVars, generation, cleanupActive, writeVars>>

-----------------------------------------------------------------------------
Published == {l \in Lanes : LaneKind[l] = "published"}
Calls == 1 .. MaxCalls

Resumes == [resume : Nat \ {0}, left : 0 .. TTL]
None == [resume |-> 0, left |-> 0]
Call == [id : Calls, session : Sessions, lane : Lanes \cup {NoLane},
         resume : Nat \ {0}, generation : Nat]
Write == [pc : {"idle", "patching", "patched", "failed", "rollback"}, previous : 0 .. MaxCalls]
Idle == [pc |-> "idle", previous |-> 0]

Init ==
    /\ config \in [Published -> Limits]
    /\ limit = [l \in Lanes |-> IF l \in Published THEN config[l] ELSE 1]
    /\ timer = [l \in Lanes |-> None] /\ cleared = timer
    /\ generation = 0 /\ cleanupActive = FALSE
    /\ chain = << >> /\ write = Idle
    /\ store = [s \in Sessions |-> 0]
    /\ calls = 0 /\ standing = {}

-----------------------------------------------------------------------------
(* suspendSession.                                                         *)

\* resolveLaneResumeConcurrency, from the configuration of the run that failed.
ResumeConcurrency(l) == IF l \in Published THEN config[l] ELSE 1

SuspendSession(s, l) ==
    /\ calls < MaxCalls
    /\ calls' = calls + 1
    /\ chain' = Append(chain, [id |-> calls + 1, session |-> s, lane |-> l,
                               resume |-> ResumeConcurrency(l),
                               generation |-> generation])
    /\ UNCHANGED <<laneVars, generation, cleanupActive, write, store, standing>>

\* The gateway has begun to close, or has closed, since the call was made.
Overtaken == cleanupActive \/ generation # Head(chain).generation

EndCall == chain' = Tail(chain) /\ write' = Idle

\* The call's turn in the chain: it is dropped when the session is unknown or
\* the gateway has closed in the meantime.
StartWrite(known) ==
    /\ write.pc = "idle" /\ chain # << >>
    /\ IF known /\ ~Overtaken
       THEN write' = [pc |-> "patching", previous |-> 0] /\ chain' = chain
       ELSE EndCall
    /\ UNCHANGED <<laneVars, generation, cleanupActive, store, calls, standing>>

\* The patch of the store entry: written unless the generation has changed,
\* failed, or the entry is missing.
PatchEntry(result) ==
    LET c == Head(chain)
        writes == result = "written" /\ generation = c.generation
    IN  /\ write.pc = "patching"
        /\ CASE result = "written" ->
                  /\ write' = [pc |-> "patched", previous |-> store[c.session]]
                  /\ chain' = chain
             [] result = "failed" -> write' = [write EXCEPT !.pc = "failed"] /\ chain' = chain
             [] result = "missing" -> EndCall
        /\ store' = IF writes THEN [store EXCEPT ![c.session] = c.id] ELSE store
        /\ UNCHANGED <<laneVars, generation, cleanupActive, calls, standing>>

\* throttleLane: close the lane and re-arm its timer.
Throttle(c) ==
    /\ standing' = standing \cup {c.id}
    /\ IF c.lane \in Lanes
       THEN /\ limit' = [limit EXCEPT ![c.lane] = 0]
            /\ timer' = [timer EXCEPT ![c.lane] = [resume |-> c.resume, left |-> TTL]]
       ELSE UNCHANGED <<limit, timer>>

\* Mutant: a patch that returns late throttles the lane all the same.
ThrottleLate ==
    /\ write.pc \in {"patched", "failed"}
    /\ Throttle(Head(chain)) /\ EndCall
    /\ UNCHANGED <<config, cleared, generation, cleanupActive, store, calls>>

\* Mutant: a suspension that was overtaken by the close is left in the store.
OvertakenStays ==
    /\ write.pc \in {"patched", "failed"}
    /\ IF ~Overtaken THEN Throttle(Head(chain)) ELSE UNCHANGED <<limit, timer, standing>>
    /\ EndCall
    /\ UNCHANGED <<config, cleared, generation, cleanupActive, store, calls>>

\* The patch has returned.  A store that cannot be written still throttles.
AfterPatch ==
    /\ write.pc \in {"patched", "failed"}
    /\ IF ~Overtaken
       THEN Throttle(Head(chain)) /\ EndCall
       ELSE /\ IF write.pc = "patched"
               THEN write' = [write EXCEPT !.pc = "rollback"] /\ chain' = chain
               ELSE EndCall
            /\ UNCHANGED <<limit, timer, standing>>
    /\ UNCHANGED <<config, cleared, generation, cleanupActive, store, calls>>

\* The second patch puts back what the first one found, if its own write is there.
RollBack(fails) ==
    LET c == Head(chain)
    IN  /\ write.pc = "rollback"
        /\ store' = IF ~fails /\ store[c.session] = c.id
                    THEN [store EXCEPT ![c.session] = write.previous] ELSE store
        /\ standing' = IF fails THEN standing \cup {c.id} ELSE standing
        /\ EndCall
        /\ UNCHANGED <<laneVars, generation, cleanupActive, calls>>

-----------------------------------------------------------------------------
(* Timers, closing and starting.                                           *)

\* A lane timer reopens its lane with the limit saved in it.
TimerFires(l) ==
    /\ timer[l] # None /\ timer[l].left = 0
    /\ timer' = [timer EXCEPT ![l] = None]
    /\ limit' = [limit EXCEPT ![l] = timer[l].resume]
    /\ UNCHANGED <<config, cleared, generation, cleanupActive, writeVars>>

Sooner(r) == [l \in Lanes |-> [r[l] EXCEPT !.left = IF @ = 0 THEN 0 ELSE @ - 1]]

Tick ==
    /\ \E l \in Lanes : timer[l].left > 0 \/ cleared[l].left > 0
    /\ timer' = Sooner(timer) /\ cleared' = Sooner(cleared)
    /\ UNCHANGED <<limit, config, generation, cleanupActive, writeVars>>

\* Mutant: the timers are stopped and forgotten.
CleanUpForgetting ==
    /\ generation < MaxGeneration
    /\ generation' = generation + 1 /\ cleanupActive' = TRUE
    /\ timer' = [l \in Lanes |-> None]
    /\ UNCHANGED <<limit, config, cleared, writeVars>>

\* clearSessionSuspensionTimers, called by the close prelude and by the close.
CleanUp ==
    /\ generation < MaxGeneration
    /\ generation' = generation + 1 /\ cleanupActive' = TRUE
    /\ cleared' = [l \in Lanes |-> IF timer[l] # None THEN timer[l] ELSE cleared[l]]
    /\ timer' = [l \in Lanes |-> None]
    /\ UNCHANGED <<limit, config, writeVars>>

\* The limit a starting gateway gives a lane that stays suspended no longer.
StartLimit(c, l) ==
    CASE LaneKind[l] = "published" -> c[l]
      [] LaneKind[l] = "nested" -> 1
      [] LaneKind[l] = "custom" -> IF cleared[l] # None THEN cleared[l].resume ELSE limit[l]

StillSuspended(l) == cleared[l] # None /\ cleared[l].left > 0

\* applyGatewayLaneConcurrency at the start of a gateway: suspensions that have
\* not run out are re-armed, every other lane is published.
GatewayStart(c) ==
    LET resume(l) == IF LaneKind[l] = "published" THEN c[l]
                     ELSE IF LaneKind[l] = "nested" THEN 1 ELSE cleared[l].resume
    IN  /\ cleanupActive /\ generation < MaxGeneration
        /\ generation' = generation + 1 /\ cleanupActive' = FALSE
        /\ config' = c
        /\ limit' = [l \in Lanes |-> IF StillSuspended(l) THEN 0 ELSE StartLimit(c, l)]
        /\ timer' = [l \in Lanes |->
              IF StillSuspended(l) THEN [resume |-> resume(l), left |-> cleared[l].left]
              ELSE timer[l]]
        /\ cleared' = [l \in Lanes |-> None]
        /\ UNCHANGED writeVars

\* Mutant: the lanes a closing gateway holds are not asked for.
LiveReloadRegardless(c) ==
    /\ config' = c
    /\ limit' = [l \in Lanes |-> IF l \in Published THEN c[l] ELSE limit[l]]
    /\ UNCHANGED <<timer, cleared, generation, cleanupActive, writeVars>>

\* applyGatewayLaneConcurrency when a configuration is reloaded: only a closing
\* gateway spares suspended lanes, and the nested lane is never published.
LiveReload(c) ==
    LET held(l) == cleanupActive /\ cleared[l] # None
    IN  /\ config' = c
        /\ limit' = [l \in Lanes |-> IF l \in Published /\ ~held(l) THEN c[l] ELSE limit[l]]
        /\ UNCHANGED <<timer, cleared, generation, cleanupActive, writeVars>>

Next ==
    \/ \E s \in Sessions, l \in Lanes \cup {NoLane} : SuspendSession(s, l)
    \/ \E known \in BOOLEAN : StartWrite(known)
    \/ \E result \in {"written", "failed", "missing"} : PatchEntry(result)
    \/ AfterPatch
    \/ \E fails \in BOOLEAN : RollBack(fails)
    \/ \E l \in Lanes : TimerFires(l)
    \/ Tick \/ CleanUp
    \/ \E c \in [Published -> Limits] : GatewayStart(c) \/ LiveReload(c)

Spec == Init /\ [][Next]_vars

-----------------------------------------------------------------------------
(* Properties.                                                             *)

\* Every variable keeps its type, and no write is under way without its call.
TypeOK ==
    /\ limit \in [Lanes -> Nat] /\ config \in [Published -> Limits]
    /\ timer \in [Lanes -> Resumes \cup {None}]
    /\ cleared \in [Lanes -> Resumes \cup {None}]
    /\ generation \in Nat /\ cleanupActive \in BOOLEAN
    /\ chain \in Seq(Call) /\ write \in Write
    /\ write # Idle => chain # << >>
    /\ store \in [Sessions -> 0 .. MaxCalls]
    /\ calls \in 0 .. MaxCalls /\ standing \subseteq Calls

\* "Fence lane auto-resume timers before the first awaited shutdown step": from
\* clearSessionSuspensionTimers to the next start no lane timer exists, whatever
\* suspension writes return meanwhile; and none is left saved once a start has
\* taken them over.
TimersAreFenced ==
    /\ cleanupActive => \A l \in Lanes : timer[l] = None
    /\ ~cleanupActive => \A l \in Lanes : cleared[l] = None

\* No lane is closed for good: a lane at zero has a timer that will reopen it,
\* or one that was saved for the next start (throttleLane, the clean-up and the
\* start together).
ClosedLaneHasResume ==
    \A l \in Lanes : limit[l] = 0 => timer[l] # None \/ cleared[l] # None

\* The store names "the lane that was set to concurrency=0 when this suspension
\* was issued": when no write is under way, an entry holds only suspensions
\* that did throttle, none that a closing gateway overtook.
StoredMeansThrottled ==
    write = Idle => \A s \in Sessions : store[s] # 0 => store[s] \in standing

\* What a lane has left to wait, with a timer or saved.
Waits(l) == timer[l].left > 0 \/ cleared[l].left > 0

\* A suspension outlives a restart and every publication of a closing gateway:
\* a closed lane opens only when its time is up.  Excepted is a live reload of
\* a published lane while the gateway runs, which reopens it at once.
HeldUntilDue ==
    [][\A l \in Lanes :
          (limit[l] = 0 /\ Waits(l) /\ (l \notin Published \/ cleanupActive))
            => limit'[l] = 0]_vars

=============================================================================
