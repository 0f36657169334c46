------------------------- MODULE SuspendCoordinator -------------------------
(***************************************************************************)
(* Host suspension of the gateway                                          *)
(* (src/infra/gateway-suspend-coordinator.ts), composed with root work     *)
(* admission.                                                              *)
(*                                                                         *)
(* A host asks the gateway to prepare for suspension.  If it is idle the   *)
(* coordinator closes admission, pauses the cron scheduler and holds both  *)
(* until the host resumes it, two minutes pass without a renewal, or a     *)
(* restart takes over.  The scheduler may refuse to resume: the fence then *)
(* stays closed and a timer tries again.  Every call of the coordinator is *)
(* synchronous, so it is one action, the expired suspension it may first   *)
(* have to end included.                                                   *)
(***************************************************************************)
EXTENDS GatewayAdmission

CONSTANTS
    Requests,         \* requestIds of the hosts that prepare
    TTL               \* GATEWAY_SUSPEND_TTL_MS, in ticks of Tick

ASSUME TTLAssumption == TTL \in Nat \ {0}

VARIABLES
    current,          \* COORDINATOR_STATE.current
    retired,          \* is there an entry in retiredForLifecycleReset?
    schedulerPaused   \* cron.pauseScheduling is in force

coordinatorVars == <<current, retired, schedulerPaused>>
vars == <<admissionVars, coordinatorVars>>

\* `left`: ticks until expiresAtMs.  `armed`: the entry has a timer.  `expects`:
\* the phase its reopenAdmission was made for (admission.release or rollback).
\* `caller`: the first root of the prepare call's line, kept for the properties.
Entries == [kind : {"held", "recovering"}, request : Requests, generation : Nat,
            expects : {"preparing", "prepared"}, left : 0..TTL, armed : BOOLEAN,
            caller : Nat]
NoEntry == [kind |-> "none"]

CoordinatorTypeOK ==
    /\ TypeOK
    /\ current \in Entries \cup {NoEntry}
    /\ retired \in BOOLEAN /\ schedulerPaused \in BOOLEAN

CoordinatorInit == Init /\ current = NoEntry /\ retired = FALSE /\ schedulerPaused = FALSE

----------------------------------------------------------------------------
\* A mutant: recovery is entered without scheduling the retry.
RecoveringUnarmed(e) == [e EXCEPT !.kind = "recovering", !.left = 0, !.armed = FALSE]

\* enterSchedulerRecovery: the fence stays closed until a retry succeeds.
Recovering(e) == [e EXCEPT !.kind = "recovering", !.left = 0, !.armed = TRUE]

\* reopenAdmission of the entry would find its own suspension in force.
CanReopen(e) == e.generation = suspendGeneration /\ e.expects = suspendPhase

\* A mutant: admission reopens although the scheduler did not resume.
ResumeAndReopenRegardless(fails) ==
    /\ current' = NoEntry
    /\ schedulerPaused' = fails
    /\ suspendPhase' = "accepting" /\ waiter' = Woken
    /\ UNCHANGED suspendGeneration

\* resumeAndReopen of the current entry: the scheduler first, admission second.
ResumeAndReopen(fails) ==
    /\ schedulerPaused' = fails
    /\ IF ~fails /\ CanReopen(current)
       THEN current' = NoEntry /\ suspendPhase' = "accepting" /\ waiter' = Woken
       ELSE current' = Recovering(current) /\ UNCHANGED <<suspendPhase, waiter>>
    /\ UNCHANGED suspendGeneration

\* The handler of gateway.suspend.prepare runs under a root it owns, or under
\* none when admission is closed (server-methods.ts).
MayPrepare(c) == (Live(c) /\ own[c] = store[c]) \/ (Closed /\ Idle(c))

\* A mutant: the snapshot counts only the other kinds of work.
IsIdleBlind(c, otherWork) == ~otherWork

\* The snapshot: no root but the caller's, and no other work (queues, runs,
\* cron, ...), which is up to the environment here.
IsIdle(c, otherWork) == ~otherWork /\ activeRootWork \subseteq {store[c]}

CallerOf(c) == IF Live(c) THEN origin[store[c]] ELSE NoRoot

\* Entry made by a fresh preparation of generation g.
Prepared(kind, c, request, g, phase) ==
    [kind |-> kind, request |-> request, generation |-> g, expects |-> phase,
     left |-> IF kind = "held" THEN TTL ELSE 0, armed |-> TRUE, caller |-> CallerOf(c)]

\* prepareGatewaySuspend once no suspension is in force; admission was closed
\* and is `reopened` if an expired one has just been ended.
PrepareFresh(c, request, otherWork, fails, wake) ==
    LET g == suspendGeneration + 1 IN
    /\ suspendGeneration' = g
    /\ \/ /\ IsIdle(c, otherWork)
          /\ suspendPhase' = "prepared"
          /\ current' = Prepared("held", c, request, g, "prepared")
          /\ schedulerPaused' = TRUE
          /\ waiter' = IF wake THEN Woken ELSE waiter
       \/ /\ ~IsIdle(c, otherWork) /\ ~fails
          /\ suspendPhase' = "accepting"
          /\ current' = NoEntry
          /\ schedulerPaused' = FALSE
          /\ waiter' = Woken
       \/ /\ ~IsIdle(c, otherWork) /\ fails
          /\ suspendPhase' = "preparing"
          /\ current' = Prepared("recovering", c, request, g, "preparing")
          /\ schedulerPaused' = TRUE
          /\ waiter' = IF wake THEN Woken ELSE waiter

\* gateway.suspend.prepare with nothing in force.
Prepare(c, request, otherWork, fails) ==
    /\ MayPrepare(c) /\ ~Closed /\ current = NoEntry
    /\ suspendGeneration < MaxGeneration
    /\ PrepareFresh(c, request, otherWork, fails, FALSE)
    /\ UNCHANGED <<fenceVars, rootVars, chainVars, drain, retired>>

Expired == current.kind = "held" /\ current.left = 0

\* gateway.suspend.prepare that finds an expired suspension: it ends that one
\* first (normalizeExpiredHeldSuspension) and, unless a restart signal is
\* pending or the scheduler does not resume, prepares anew in the same call.
PrepareOverExpired(c, request, otherWork, resumeFails, fails) ==
    /\ MayPrepare(c) /\ Expired
    /\ IF resumeFails \/ ~CanReopen(current) \/ signalPending \/ restartDraining
       THEN ResumeAndReopen(resumeFails)
       ELSE /\ suspendGeneration < MaxGeneration
            /\ PrepareFresh(c, request, otherWork, fails, TRUE)
    /\ UNCHANGED <<fenceVars, rootVars, chainVars, drain, retired>>

\* gateway.suspend.prepare of the holder before the expiry: renewHeldSuspension.
Renew(request) ==
    /\ current.kind = "held" /\ current.left > 0 /\ current.request = request
    /\ current' = [current EXCEPT !.left = TTL, !.armed = TRUE]
    /\ UNCHANGED <<admissionVars, retired, schedulerPaused>>

\* gateway.suspend.status or .resume of an expired suspension ends it, whatever
\* suspension the caller names; .resume by its holder ends one in force.
EndSuspension(fails) ==
    /\ current.kind = "held"
    /\ ResumeAndReopen(fails)
    /\ UNCHANGED <<fenceVars, rootVars, chainVars, drain, retired>>

\* Time passes for the suspension in force.
Tick ==
    /\ current.kind = "held" /\ current.left > 0
    /\ current' = [current EXCEPT !.left = @ - 1]
    /\ UNCHANGED <<admissionVars, retired, schedulerPaused>>

\* The timer of armExpiry, or of scheduleRecoveryRetry.
TimerFires(fails) ==
    /\ current # NoEntry /\ current.armed
    /\ current.kind = "recovering" \/ Expired
    /\ ResumeAndReopen(fails)
    /\ UNCHANGED <<fenceVars, rootVars, chainVars, drain, retired>>

\* A mutant: nobody told the coordinator that the restart took over.
DrainForgetsCoordinator == MarkRestartDraining /\ UNCHANGED coordinatorVars

\* markGatewayRestartDraining with the callback prepareGatewaySuspend gave it:
\* the entry loses its timer and is kept for the lifecycle reset; the scheduler
\* that is being shut down stays paused.
DrainTakesOver ==
    /\ MarkRestartDraining
    /\ IF current # NoEntry /\ current.generation = suspendGeneration
          /\ suspendPhase # "accepting"
       THEN current' = NoEntry /\ retired' = TRUE
       ELSE UNCHANGED <<current, retired>>
    /\ UNCHANGED schedulerPaused

\* The run loop's next iteration: resetGatewaySuspendCoordinator, then
\* resetGatewayWorkAdmission (resetAllLanes), then a gateway with a scheduler of
\* its own is started.
LifecycleReset ==
    /\ Reset
    /\ current' = NoEntry /\ retired' = FALSE /\ schedulerPaused' = FALSE

AdmissionStep ==
    /\ (\E c \in Chains : ChainStep(c)) \/ SignalStep \/ DrainStep
    /\ UNCHANGED coordinatorVars

CoordinatorNext ==
    \/ AdmissionStep
    \/ \E c \in Chains, r \in Requests, otherWork, fails \in BOOLEAN :
          \/ Prepare(c, r, otherWork, fails)
          \/ \E resumeFails \in BOOLEAN :
                PrepareOverExpired(c, r, otherWork, resumeFails, fails)
    \/ \E r \in Requests : Renew(r)
    \/ \E fails \in BOOLEAN : EndSuspension(fails) \/ TimerFires(fails)
    \/ Tick
    \/ DrainTakesOver \/ LifecycleReset

CoordinatorSpec == CoordinatorInit /\ [][CoordinatorNext]_vars

\* A pending restart signal is answered: the run loop drains, or gives it up.
SignalAnswered ==
    \/ DrainTakesOver
    \/ (\E e \in Emitters : RollbackSignal(e)) /\ UNCHANGED coordinatorVars

CoordinatorFairSpec ==
    /\ CoordinatorSpec
    /\ WF_vars(Tick)
    /\ WF_vars(TimerFires(FALSE))
    /\ \A c \in Chains : WF_vars(Recheck(c) /\ UNCHANGED coordinatorVars)
    /\ WF_vars(signalPending /\ SignalAnswered)

----------------------------------------------------------------------------
(* Properties                                                              *)

\* A closed suspension phase always has an entry that can and will reopen it:
\* the entry of the very generation and phase in force, with a timer armed; and
\* no entry outlives the phase it closed (prepare, recovery, invalidation and
\* reset across the two modules).
FenceHasTimer ==
    /\ suspendPhase # "accepting" => current # NoEntry
    /\ current # NoEntry => current.armed /\ CanReopen(current)

\* The scheduler is paused exactly behind a fence: never while admission is
\* open, so paused work cannot leak into normal service, and always while a
\* suspension is held, so a late retry has not resumed it under the new holder;
\* and some entry is left that will resume it.
SchedulerPausedBehindFence ==
    /\ schedulerPaused => suspendPhase # "accepting" \/ restartDraining
    /\ current.kind = "held" => schedulerPaused
    /\ schedulerPaused => current # NoEntry \/ retired

\* A gateway that told its host it is ready to be suspended runs nothing but
\* the prepare call itself and what that call continues into.
SuspensionIsQuiet ==
    suspendPhase = "prepared" =>
        \A r \in activeRootWork : origin[r] = current.caller

RenewalsEnd == <>[][\A r \in Requests : ~Renew(r)]_vars

\* A suspension the host forgets, or whose scheduler once failed to resume,
\* ends: admission reopens or a restart takes over.
SuspensionEnds ==
    RenewalsEnd => (suspendPhase # "accepting" ~> suspendPhase = "accepting")

\* Work that waits for admission is admitted or told that the gateway drains.
WaitersAreAnswered ==
    RenewalsEnd => \A c \in Chains : c \in Waiting ~> c \notin Waiting

=============================================================================
