---------------------------- MODULE RestartSignal ----------------------------
(***************************************************************************)
(* How restart requests become one SIGUSR1 (src/src/infra/restart.ts): the *)
(* one pending restart that callers share, the emit hooks parked on it,    *)
(* the deferrals that wait for idle work, and the admission fence that is  *)
(* up from the last idle check until the run loop takes the signal         *)
(* (src/src/cli/gateway-cli/run-loop.ts).                                  *)
(*                                                                         *)
(* An emitter is one run of deferGatewayRestartUntilIdle with its poll, or *)
(* one call of emitPreparedGatewayRestart.  Code between two awaits is one *)
(* step, and a continuation that is due runs before the next timer, signal *)
(* or request: see Settled.                                                *)
(***************************************************************************)
CONSTANTS
    Hooks,      \* emit hooks of callers, each offered at most once
    SessionOf,  \* the session that offers them
    Emitters,   \* bound: deferrals and emissions under way
    Nobody      \* no hook, no session, no lease

ASSUME RestartAssumption ==
    Nobody \notin Hooks \cup Emitters \cup {SessionOf[h] : h \in Hooks} \cup {"direct"}

VARIABLES
    pending,   \* pendingRestart*: the shared restart and the hooks parked on it
    emitter,   \* the deferrals and emissions
    fence,     \* restartSignalPending: the lease that closed admission
    lease,     \* pendingRestartSignalAdmission
    signal,    \* a signal is emitted and not consumed
    draining,  \* the run loop drains for the restart
    host,      \* suspended, and busy with work other than emissions
    held,      \* restartDeferral: the deferral that the reload handler can cancel
    fate       \* history: each hook is parked, prepared (beforeEmit ran), or over

vars == <<pending, emitter, fence, lease, signal, draining, host, held, fate>>

Sessions == {SessionOf[h] : h \in Hooks}
Leases == Emitters \cup {"direct", Nobody}

NoRestart == [timer |-> FALSE, preparing |-> FALSE, skip |-> FALSE,
              slot |-> Nobody, session |-> Nobody]

Idle == [phase |-> "idle", poll |-> FALSE, reload |-> FALSE, cancelled |-> FALSE,
         stale |-> FALSE, idleCheck |-> FALSE, current |-> TRUE, owns |-> FALSE, active |-> FALSE,
         ok |-> FALSE, parked |-> Nobody, prepared |-> Nobody]

(* Behind its fence an emission prepares hooks, or rejects those it prepared: it *)
(* was refused, or its emission failed.                                          *)
Preparing == {"caller", "parked", "rejecting", "drain"}
Leaving == {"refused", "failed"}
Body == Preparing \cup Leaving
InBody(e) == emitter[e].phase \in Body

Init ==
    /\ pending = NoRestart
    /\ emitter = [e \in Emitters |-> Idle]
    /\ fence = Nobody /\ lease = Nobody
    /\ signal = FALSE /\ draining = FALSE
    /\ host = [suspended |-> FALSE, busy |-> FALSE]
    /\ held = Nobody
    /\ fate = [h \in Hooks |-> "new"]

-----------------------------------------------------------------------------
(* tryBeginGatewayIndependentRootWorkAdmission. *)
Open == ~draining /\ fence = Nobody /\ ~host.suspended

(* A continuation that can run does so before anything else. *)
Urgent(e) ==
    \/ emitter[e].phase = "drain"
    \/ emitter[e].phase = "waiting" /\ (Open \/ draining)
Settled == \A e \in Emitters : ~Urgent(e)

(* getPendingCount outside any root: an emission is work as well. *)
Active == host.busy \/ \E e \in Emitters : InBody(e)

Free(e) == emitter[e] = Idle

(* clearActiveDeferralPolls. *)
PollsOff(em) ==
    [e \in Emitters |-> IF em[e].phase = "idle" THEN Idle ELSE [em[e] EXCEPT !.poll = FALSE]]

(* An attempt that is over frees the record of an emitter without a poll. *)
Rested(r) ==
    IF r.poll THEN [r EXCEPT !.phase = "idle", !.owns = FALSE, !.active = FALSE,
                             !.ok = FALSE, !.parked = Nobody, !.prepared = Nobody]
              ELSE Idle

WithFates(hooks, f) == [h \in Hooks |-> IF h \in hooks THEN f ELSE fate[h]]

-----------------------------------------------------------------------------
(* scheduleGatewaySigusr1Restart.                                          *)

SessionOfCaller(h) == IF h = Nobody THEN Nobody ELSE SessionOf[h]
CanReplace(h) == h = Nobody \/ pending.session \in {Nobody, SessionOf[h]}

Offered(h) == h \in Hooks => fate[h] = "new"
Refused(h) == fate' = IF h = Nobody THEN fate ELSE WithFates({h}, "over")

(* The hooks take the slot, and whatever was parked there gives way. *)
Parks(h) ==
    fate' = [k \in Hooks |-> IF k = h THEN "parked"
                             ELSE IF k = pending.slot THEN "over" ELSE fate[k]]

(* A signal is on its way: the request joins it. *)
JoinsSignal(h) ==
    /\ signal /\ Refused(h)
    /\ UNCHANGED <<pending, emitter>>

(* A request that does not wait ends the deferral of the pending restart. *)
BypassesDeferral(h, skip, preserve) ==
    /\ ~signal /\ pending.preparing /\ skip
    /\ \E e \in Emitters : emitter[e].poll
    /\ LET keep == preserve /\ h = Nobody /\ pending.session # Nobody
       IN  IF keep THEN UNCHANGED <<pending, fate>>
           ELSE /\ pending' = [pending EXCEPT !.slot = h, !.session = SessionOfCaller(h)]
                /\ Parks(h)
    /\ \E e \in Emitters :
         /\ Free(e)
         /\ emitter' = [PollsOff(emitter) EXCEPT ![e].phase = "waiting"]

Bypasses(skip) == pending.preparing /\ skip /\ \E e \in Emitters : emitter[e].poll

PullsEarlier(skip, earlier) ==
    pending.timer /\ ~pending.preparing /\ (earlier \/ (skip /\ ~pending.skip))

(* An earlier request replaces the timer; the hooks only if it may. *)
Reschedules(h, skip, preserve, earlier) ==
    /\ ~signal /\ ~Bypasses(skip) /\ PullsEarlier(skip, earlier)
    /\ LET keep == preserve /\ h = Nobody /\ pending.session # Nobody
       IN  IF ~keep /\ ~CanReplace(h) THEN
             /\ pending' = [pending EXCEPT !.skip = @ \/ skip]
             /\ Refused(h)
           ELSE IF keep THEN
             /\ pending' = [pending EXCEPT !.skip = skip]
             /\ UNCHANGED fate
           ELSE
             /\ pending' = [NoRestart EXCEPT !.timer = TRUE, !.skip = skip,
                                             !.slot = h, !.session = SessionOfCaller(h)]
             /\ Parks(h)
    /\ UNCHANGED emitter

(* Otherwise it joins the pending restart. *)
JoinsPending(h, skip, earlier) ==
    /\ ~signal /\ (pending.timer \/ pending.preparing)
    /\ ~Bypasses(skip) /\ ~PullsEarlier(skip, earlier)
    /\ IF h # Nobody /\ CanReplace(h)
         THEN /\ pending' = [pending EXCEPT !.skip = @ \/ skip, !.slot = h,
                                            !.session = SessionOf[h]]
              /\ Parks(h)
         ELSE pending' = [pending EXCEPT !.skip = @ \/ skip] /\ Refused(h)
    /\ UNCHANGED emitter

StartsTimer(h, skip) ==
    /\ ~signal /\ ~pending.timer /\ ~pending.preparing
    /\ pending' = [NoRestart EXCEPT !.timer = TRUE, !.skip = skip,
                                    !.slot = h, !.session = SessionOfCaller(h)]
    /\ Parks(h)
    /\ UNCHANGED emitter

Schedule(h, skip, preserve, earlier) ==
    /\ Settled /\ Offered(h)
    /\ \/ JoinsSignal(h)
       \/ BypassesDeferral(h, skip, preserve)
       \/ Reschedules(h, skip, preserve, earlier)
       \/ JoinsPending(h, skip, earlier)
       \/ StartsTimer(h, skip)
    /\ UNCHANGED <<fence, lease, signal, draining, host, held>>

-----------------------------------------------------------------------------
(* armPendingRestartTimer and deferGatewayRestartUntilIdle.                *)

Deferred(r) ==
    [r EXCEPT !.poll = TRUE, !.idleCheck = TRUE,
              !.phase = IF Active THEN "idle" ELSE "waiting"]

(* An emission that does not ask whether the process is idle. *)
Unchecked(r) == [r EXCEPT !.poll = FALSE, !.idleCheck = FALSE, !.phase = "waiting"]

(* A deferral whose getPendingCount throws emits at once. *)
Begun(r) == {Deferred(r), Unchecked(r)}

TimerFires(e) ==
    /\ Settled /\ pending.timer /\ Free(e)
    /\ pending' = [pending EXCEPT !.timer = FALSE, !.skip = FALSE, !.preparing = TRUE]
    /\ \E r \in IF pending.skip THEN {Unchecked(Idle)} ELSE Begun(Idle) :
         emitter' = [emitter EXCEPT ![e] = r]
    /\ UNCHANGED <<fence, lease, signal, draining, host, held, fate>>

(* onTimeout and onCheckError: the reload handler forgets whichever handle it has. *)
HeldAfter(e) == IF emitter[e].reload THEN Nobody ELSE held

PollTick(e) ==
    /\ Settled /\ emitter[e].poll /\ ~Active /\ emitter[e].phase = "idle"
    /\ emitter' = [emitter EXCEPT ![e].phase = "waiting", ![e].idleCheck = TRUE]
    /\ UNCHANGED <<pending, fence, lease, signal, draining, host, held, fate>>

(* getPendingCount throws in the poll, which ends and emits, even beside an *)
(* attempt of the same deferral.                                            *)
PollThrows(e) ==
    /\ Settled /\ emitter[e].poll /\ held' = HeldAfter(e)
    /\ IF emitter[e].phase = "idle"
         THEN emitter' = [emitter EXCEPT ![e] = Unchecked(emitter[e])]
         ELSE \E f \in Emitters :
                /\ Free(f)
                /\ emitter' = [emitter EXCEPT
                     ![e].poll = FALSE,
                     ![f] = Unchecked([Idle EXCEPT !.reload = emitter[e].reload,
                                                   !.stale = emitter[e].stale])]
    /\ UNCHANGED <<pending, fence, lease, signal, draining, host, fate>>

(* maxWaitMs is over and there still is work: the poll ends, the restart is *)
(* forced, unless an attempt is already under way.                          *)
PollTimesOut(e) ==
    /\ Settled /\ emitter[e].poll /\ Active /\ held' = HeldAfter(e)
    /\ emitter' = [emitter EXCEPT
         ![e] = IF @.phase = "idle" THEN Unchecked(@) ELSE [@ EXCEPT !.poll = FALSE]]
    /\ UNCHANGED <<pending, fence, lease, signal, draining, host, fate>>

(* supersedeRestartRequest: what reloads began is stale, and the deferral that *)
(* the handler still holds is cancelled (rollbackFence).                       *)
Stops(e) == held = e /\ emitter[e].reload /\ InBody(e) /\ ~signal

Superseded(e) ==
    LET r == emitter[e]
    IN  IF ~r.reload THEN r
        ELSE IF held # e THEN [r EXCEPT !.stale = TRUE]
        ELSE IF r.phase = "idle" THEN Idle
        ELSE [r EXCEPT !.stale = TRUE, !.cancelled = TRUE, !.poll = FALSE,
                       !.active = @ /\ ~Stops(e)]

LiftsHeldFence ==
    IF held \in Emitters /\ Stops(held) /\ emitter[held].owns /\ fence = held
      THEN fence' = Nobody /\ lease' = IF lease = held THEN Nobody ELSE lease
      ELSE UNCHANGED <<fence, lease>>

Supersede ==
    /\ Settled /\ LiftsHeldFence /\ held' = Nobody
    /\ emitter' = [e \in Emitters |-> Superseded(e)]
    /\ UNCHANGED <<pending, signal, draining, host, fate>>

(* A config reload supersedes older ones and defers its own restart, with its *)
(* own hooks.                                                                 *)
ReloadDefers(e) ==
    /\ Settled /\ LiftsHeldFence /\ Superseded(e) = Idle
    /\ \E r \in Begun([Idle EXCEPT !.reload = TRUE]) :
         /\ emitter' = [f \in Emitters |-> IF f = e THEN r ELSE Superseded(f)]
         /\ held' = IF r.poll THEN e ELSE Nobody
    /\ UNCHANGED <<pending, signal, draining, host, fate>>

-----------------------------------------------------------------------------
(* emitPreparedGatewayRestart.                                             *)

(* onReady of an attempt that was not forced. *)
HeldOnReady(e) ==
    IF emitter[e].reload /\ emitter[e].idleCheck /\ ~emitter[e].cancelled
      THEN Nobody ELSE held

\* Mutant: the fence stays up behind an emission that gave up.
AbandonsFenced(e, attempted) ==
    /\ emitter' = [emitter EXCEPT ![e] =
         Rested([@ EXCEPT !.poll = emitter[e].poll /\ ~attempted])]
    /\ held' = IF attempted THEN HeldOnReady(e) ELSE held
    /\ UNCHANGED <<fence, lease>>

(* A return without a signal: the creator of the lease reopens admission. *)
Abandons(e, attempted) ==
    LET r == emitter[e]
    IN  /\ emitter' = [emitter EXCEPT ![e] = Rested([r EXCEPT !.poll = @ /\ ~attempted])]
        /\ held' = IF attempted THEN HeldOnReady(e) ELSE held
        /\ IF ~signal /\ r.owns /\ fence = e
             THEN fence' = Nobody /\ lease' = IF lease = e THEN Nobody ELSE lease
             ELSE UNCHANGED <<fence, lease>>

(* Hooks that were prepared are rejected before. *)
Rejects(r, attempted) ==
    [r EXCEPT !.phase = IF attempted THEN "failed" ELSE "refused",
              !.parked = Nobody, !.prepared = Nobody]

GivesUp(e, attempted, h) ==
    IF h = Nobody THEN Abandons(e, attempted)
    ELSE /\ emitter' = [emitter EXCEPT ![e] = Rejects(emitter[e], attempted)]
         /\ UNCHANGED <<fence, lease, held>>

\* Mutant: an attempt that waited for its root does not look once more.
AdmitUnchecked(e) ==
    /\ emitter[e].phase = "waiting" /\ Open
    /\ LET r == emitter[e]
       IN  IF ~r.current \/ signal
             THEN emitter' = [emitter EXCEPT ![e] = Rested(r)] /\ UNCHANGED <<fence, lease>>
             ELSE /\ emitter' = [emitter EXCEPT ![e] =
                       [r EXCEPT !.phase = IF r.reload THEN "caller" ELSE "drain",
                                 !.owns = lease = Nobody, !.active = TRUE]]
                  /\ IF lease = Nobody THEN fence' = e /\ lease' = e
                                       ELSE UNCHANGED <<fence, lease>>
    /\ UNCHANGED <<pending, signal, draining, host, held, fate>>

(* The root is admitted: coalesce, or take the fence and look once more. *)
Admit(e) ==
    /\ emitter[e].phase = "waiting" /\ Open
    /\ LET r == emitter[e]
           idle == ~host.busy /\ \A f \in Emitters \ {e} : ~InBody(f)
       IN  IF ~r.current \/ signal \/ (r.idleCheck /\ ~idle)
             THEN emitter' = [emitter EXCEPT ![e] = Rested(r)] /\ UNCHANGED <<fence, lease>>
             ELSE /\ emitter' = [emitter EXCEPT ![e] =
                       [r EXCEPT !.phase = IF r.reload THEN "caller" ELSE "drain",
                                 !.owns = lease = Nobody, !.active = TRUE]]
                  /\ IF lease = Nobody THEN fence' = e /\ lease' = e
                                       ELSE UNCHANGED <<fence, lease>>
    /\ UNCHANGED <<pending, signal, draining, host, held, fate>>

(* finalIdleCheck throws behind a fence that falls again: emit without it. *)
AdmitThrows(e) ==
    /\ emitter[e].phase = "waiting" /\ Open
    /\ emitter[e].idleCheck /\ emitter[e].current /\ ~signal
    /\ emitter' = [emitter EXCEPT ![e] = Unchecked(emitter[e])]
    /\ held' = HeldAfter(e)
    /\ UNCHANGED <<pending, fence, lease, signal, draining, host, fate>>

(* The wait ends because the gateway drains: somebody else has restarted it. *)
AdmitDraining(e) ==
    /\ emitter[e].phase = "waiting" /\ draining
    /\ emitter' = [emitter EXCEPT ![e] = Idle] /\ held' = HeldOnReady(e)
    /\ UNCHANGED <<pending, fence, lease, signal, draining, host, fate>>

IsCurrent(e) == emitter[e].current /\ emitter[e].active

(* The caller's beforeEmit returns; ok: its configuration can be restarted into. *)
CallerPrepared(e, ok) ==
    /\ Settled /\ emitter[e].phase = "caller"
    /\ IF IsCurrent(e)
         THEN /\ emitter' = [emitter EXCEPT ![e].phase = "drain", ![e].ok = ok]
              /\ UNCHANGED <<fence, lease, held>>
         ELSE Abandons(e, FALSE)
    /\ UNCHANGED <<pending, signal, draining, host, fate>>

\* Mutant: hooks prepared before are forgotten instead of rejected.
TakeParkedForgets(e) ==
    /\ emitter[e].phase = "drain" /\ pending.slot # Nobody
    /\ pending' = [pending EXCEPT !.slot = Nobody]
    /\ emitter' = [emitter EXCEPT ![e].parked = pending.slot, ![e].prepared = Nobody,
                                  ![e].phase = "parked"]
    /\ UNCHANGED <<fence, lease, signal, draining, host, held, fate>>

(* Hooks are parked: prepare them, and reject those prepared before them. *)
TakeParked(e) ==
    /\ emitter[e].phase = "drain" /\ pending.slot # Nobody
    /\ pending' = [pending EXCEPT !.slot = Nobody]
    /\ emitter' = [emitter EXCEPT
         ![e].parked = pending.slot, ![e].prepared = Nobody,
         ![e].phase = IF emitter[e].prepared = Nobody THEN "parked" ELSE "rejecting"]
    /\ fate' = WithFates({emitter[e].prepared}, "over")
    /\ UNCHANGED <<fence, lease, signal, draining, host, held>>

ParkedRejected(e) ==
    /\ Settled /\ emitter[e].phase = "rejecting"
    /\ IF IsCurrent(e)
         THEN /\ emitter' = [emitter EXCEPT ![e].phase = "parked"]
              /\ UNCHANGED <<fence, lease, held>>
         ELSE Abandons(e, FALSE)
    /\ UNCHANGED <<pending, signal, draining, host, fate>>

(* A parked beforeEmit returns or throws. *)
ParkedPrepared(e, ok) ==
    /\ Settled /\ emitter[e].phase = "parked"
    /\ IF IsCurrent(e)
         THEN /\ emitter' = [emitter EXCEPT
                   ![e].phase = "drain", ![e].parked = Nobody,
                   ![e].prepared = IF ok THEN emitter[e].parked ELSE Nobody]
              /\ fate' = WithFates({emitter[e].parked}, IF ok THEN "prepared" ELSE "over")
              /\ UNCHANGED <<fence, lease, held>>
         ELSE /\ fate' = WithFates({emitter[e].parked}, "over")
              /\ GivesUp(e, FALSE, IF ok THEN emitter[e].parked ELSE Nobody)
    /\ UNCHANGED <<pending, signal, draining, host>>

(* beginGatewayRestartSignalAdmission, unless the lease is there already.  A *)
(* fence that nobody leases is lifted first.                                 *)
CanLease == lease # Nobody \/ (~draining /\ (fence = Nobody \/ ~signal))

(* requestGatewayRestartWithSignalAdmission: one signal for everybody, nothing *)
(* stays pending, and a signal that cannot be sent reopens admission.          *)
Requests(sent, em, by) ==
    /\ sent => ~signal
    /\ pending' = NoRestart /\ emitter' = PollsOff(em)
    /\ IF sent \/ signal
         THEN /\ signal' = TRUE
              /\ IF lease = Nobody THEN fence' = by /\ lease' = by
                                   ELSE UNCHANGED <<fence, lease>>
         ELSE fence' = Nobody /\ lease' = Nobody /\ UNCHANGED signal

\* Mutant: a reload that could not prepare tries again behind the fence.
EmitRetries(e) ==
    /\ emitter[e].phase = "drain" /\ pending.slot = Nobody
    /\ IF IsCurrent(e) /\ CanLease /\ (emitter[e].reload => emitter[e].ok)
         THEN /\ \E sent \in BOOLEAN : Requests(sent, [emitter EXCEPT ![e] = Idle], e)
              /\ fate' = WithFates({emitter[e].prepared}, "over")
         ELSE /\ emitter' = [emitter EXCEPT ![e].phase = "caller"]
              /\ UNCHANGED <<pending, fence, lease, signal, fate>>
    /\ UNCHANGED <<draining, host, held>>

(* The emission is over, or failed and rejects its hooks first. *)
Emitted(r, sent) == IF sent \/ r.prepared = Nobody THEN Idle ELSE Rejects(r, TRUE)

(* The slot is empty: emit without another await. *)
Emit(e) ==
    /\ emitter[e].phase = "drain" /\ pending.slot = Nobody
    /\ LET r == emitter[e]
       IN  IF ~IsCurrent(e) THEN
             /\ GivesUp(e, FALSE, r.prepared) /\ UNCHANGED signal
             /\ pending' = [pending EXCEPT !.session = Nobody]
           ELSE IF ~CanLease \/ (r.reload /\ (~r.ok \/ r.stale)) THEN
             /\ GivesUp(e, TRUE, r.prepared) /\ UNCHANGED signal
             /\ pending' = [pending EXCEPT !.session = Nobody]
           ELSE \E sent \in BOOLEAN :
             /\ Requests(sent, [emitter EXCEPT ![e] = Emitted(r, sent)], e)
             /\ held' = IF Emitted(r, sent) = Idle THEN HeldOnReady(e) ELSE held
    /\ fate' = WithFates({emitter[e].prepared}, "over")
    /\ UNCHANGED <<draining, host>>

(* The hooks are rejected: the attempt ends. *)
HooksRejected(e) ==
    /\ Settled /\ emitter[e].phase \in Leaving
    /\ Abandons(e, emitter[e].phase = "failed")
    /\ UNCHANGED <<pending, signal, draining, host, fate>>

(* The same from a request or a reload, which holds a root. *)
DirectRequest ==
    /\ Settled /\ (Open \/ host.busy) /\ CanLease
    /\ \E sent \in BOOLEAN : Requests(sent, emitter, "direct")
    /\ fate' = WithFates({pending.slot}, "over")
    /\ UNCHANGED <<draining, host, held>>

-----------------------------------------------------------------------------
(* The run loop and the host.                                              *)

(* The handler drains for the restart, or refuses the signal. *)
HandleSignal ==
    /\ Settled /\ signal /\ signal' = FALSE
    /\ fence' = Nobody /\ lease' = Nobody
    /\ draining' \in {draining, TRUE}
    /\ UNCHANGED <<pending, emitter, host, held, fate>>

(* resetGatewayRestartStateForInProcessRestart. *)
Reset ==
    /\ Settled /\ draining /\ ~signal /\ draining' = FALSE
    /\ pending' = NoRestart /\ held' = Nobody /\ fence' = Nobody /\ lease' = Nobody /\ signal' = FALSE
    /\ emitter' = [e \in Emitters |->
         IF emitter[e].phase = "idle" THEN Idle
         ELSE [emitter[e] EXCEPT !.poll = FALSE, !.current = FALSE]]
    /\ host' = [suspended |-> FALSE, busy |-> FALSE]
    /\ fate' = WithFates({pending.slot}, "over")

Suspend ==
    /\ Settled /\ Open /\ ~Active
    /\ host' = [host EXCEPT !.suspended = TRUE]
    /\ UNCHANGED <<pending, emitter, fence, lease, signal, draining, held, fate>>

Resume ==
    /\ host.suspended /\ host' = [host EXCEPT !.suspended = FALSE]
    /\ UNCHANGED <<pending, emitter, fence, lease, signal, draining, held, fate>>

(* Work that was waiting may be admitted before an emission is. *)
WorkBegins ==
    /\ Open /\ ~host.busy /\ host' = [host EXCEPT !.busy = TRUE]
    /\ UNCHANGED <<pending, emitter, fence, lease, signal, draining, held, fate>>

WorkEnds ==
    /\ Settled /\ host.busy /\ host' = [host EXCEPT !.busy = FALSE]
    /\ UNCHANGED <<pending, emitter, fence, lease, signal, draining, held, fate>>

EmitStep(e) ==
    \/ Admit(e) \/ AdmitThrows(e) \/ AdmitDraining(e)
    \/ TakeParked(e) \/ ParkedRejected(e) \/ Emit(e) \/ HooksRejected(e)
    \/ \E ok \in BOOLEAN : CallerPrepared(e, ok) \/ ParkedPrepared(e, ok)

Next ==
    \/ \E h \in Hooks \cup {Nobody}, skip, preserve, earlier \in BOOLEAN :
         Schedule(h, skip, preserve, earlier)
    \/ \E e \in Emitters :
         \/ TimerFires(e) \/ ReloadDefers(e) \/ PollTick(e) \/ PollThrows(e)
         \/ PollTimesOut(e) \/ EmitStep(e)
    \/ Supersede \/ DirectRequest \/ HandleSignal \/ Reset
    \/ Suspend \/ Resume \/ WorkBegins \/ WorkEnds

Spec == Init /\ [][Next]_vars

(* Hooks return, and the run loop handles its signal. *)
Fairness == WF_vars(HandleSignal) /\ \A e \in Emitters : WF_vars(EmitStep(e))

FairSpec == Spec /\ Fairness

-----------------------------------------------------------------------------
(* Properties.                                                             *)

\* Every variable keeps its type.
TypeOK ==
    /\ pending \in [timer : BOOLEAN, preparing : BOOLEAN, skip : BOOLEAN,
                    slot : Hooks \cup {Nobody}, session : Sessions \cup {Nobody}]
    /\ emitter \in [Emitters ->
         [phase : Body \cup {"idle", "waiting"}, poll : BOOLEAN, reload : BOOLEAN,
          cancelled : BOOLEAN, stale : BOOLEAN, idleCheck : BOOLEAN, current : BOOLEAN, owns : BOOLEAN,
          active : BOOLEAN, ok : BOOLEAN, parked : Hooks \cup {Nobody},
          prepared : Hooks \cup {Nobody}]]
    /\ fence \in Leases /\ lease \in Leases
    /\ signal \in BOOLEAN /\ draining \in BOOLEAN
    /\ host \in [suspended : BOOLEAN, busy : BOOLEAN] /\ held \in Emitters \cup {Nobody}
    /\ fate \in [Hooks -> {"new", "parked", "prepared", "over"}]

\* "Refused or abandoned signals cannot wedge process admission forever": a fence
\* is up only for an emission under way that will lift it, or for a signal.
FenceHasOwner ==
    fence # Nobody =>
        /\ lease = fence
        /\ signal \/ (fence \in Emitters /\ InBody(fence) /\ emitter[fence].owns)

\* From the last idle check to the drain nothing is admitted: while a signal
\* waits for the run loop, the fence is up.
SignalIsFenced == signal => fence # Nobody

\* Hooks whose beforeEmit ran (the sentinel of the restart is written) are in the
\* hands of an emission that will emit or reject them.
PreparedIsHeld ==
    \A h \in Hooks : fate[h] = "prepared" =>
        \E e \in Emitters : InBody(e) /\ emitter[e].prepared = h

\* The answer of the last idle check stays true behind the fence: while an emission
\* that waits for idle work prepares its hooks and may still emit, the fence is its
\* own, no other emission is in its body, no signal is out and no work is under way.
IdleStaysIdle ==
    \A e \in Emitters :
        (emitter[e].phase \in Preparing /\ emitter[e].idleCheck /\ IsCurrent(e)) =>
        /\ fence = e /\ ~signal /\ ~host.busy
        /\ \A f \in Emitters \ {e} : ~InBody(f)

\* The fence always comes down again: the signal is handled or it never comes.
AdmissionReopens == (fence # Nobody) ~> (fence = Nobody)

\* A restart that is no longer on its timer is being brought about: a poll or an
\* attempt is at it, so that requests that join it do not join a dead one.
PendingIsDriven ==
    (pending.preparing /\ ~draining) =>
        \E e \in Emitters : emitter[e].poll \/ emitter[e].phase # "idle"
==============================================================================
