---------------------------- MODULE IngressDrain ----------------------------
(***************************************************************************)
(* The durable ingress queue of a channel account                          *)
(* (src/src/channels/message/ingress-queue.ts) and the drains that claim   *)
(* its rows, dispatch them and settle them (ingress-drain.ts).  Several    *)
(* drains may share a queue, in one process or in several; a process may   *)
(* crash, a drain may be aborted or disposed, a write may fail and a claim *)
(* may outlive its lease.                                                  *)
(*                                                                         *)
(* A claim is the natural number that stands for its token; h[t] is the    *)
(* handler state of claim t.  Events are numbers in queue order            *)
(* (orderBy: "id").  The dispatched channel code is external: it calls the *)
(* lifecycle callbacks in any order and returns or throws once.            *)
(***************************************************************************)
EXTENDS Naturals, Sequences, SequencesExt, FiniteSets

CONSTANTS
    Events,      \* event ids, a set of numbers ordered as the queue orders them
    Lanes,       \* lane keys
    LaneOf,      \* the lane deriveLaneKey gives an event
    Drains,      \* drain instances (ownerId)
    Procs,       \* operating-system processes
    ProcOf,      \* the process a drain lives in
    Supersedes,  \* whether options.shouldSupersedePending is given
    Faults,      \* faults the environment may inject
    MaxClaims    \* bound: claims ever made

ASSUME EventsAssumption == Events \subseteq Nat /\ IsFiniteSet(Events)
ASSUME TopologyAssumption ==
    LaneOf \in [Events -> Lanes] /\ ProcOf \in [Drains -> Procs]
ASSUME OptionsAssumption ==
    /\ Supersedes \in BOOLEAN
    /\ Faults \subseteq {"write", "lapse", "abort", "crash", "prune", "resubmit"}
    /\ MaxClaims \in Nat

VARIABLES
    row,      \* the rows of channel_ingress_events
    h,        \* handler states, one per claim, in claim order
    active,   \* activeByLane of each drain: a claim, or 0
    drain,    \* life of each drain
    pass,     \* the drainOnce pass each drain is in
    detached  \* history: claims ended by recovery or by pruning, not by their handler

vars == <<row, h, active, drain, pass, detached>>

-----------------------------------------------------------------------------
Claims == 1 .. Len(h)
Open == {"dispatching", "deferred"}
Terminal == {"completed", "failed"}
Failures == {"release", "fail"}

Row == [status : {"absent", "pending", "claimed", "completed", "failed"},
        token : 0 .. MaxClaims, fresh : BOOLEAN, erred : BOOLEAN]
Handler == [drain : Drains, event : Events,
            phase : {"unstarted", "dispatching", "deferred", "adopted", "settled"},
            guillotined : BOOLEAN, superseded : BOOLEAN,
            stall : {"off", "armed", "held"},  \* held: stopped by onAdoptionFinalizing
            heartbeat : BOOLEAN,
            settling : {"no", "complete", "release", "fail"},
            outcome : {"awaited", "failing", "over"},  \* of the dispatch task
            adoption : {"none", "awaited", "returned"},  \* the channel's onAdopted calls
            genuine : BOOLEAN]   \* history: adopted before any other disposition began
Pass == [pc : {"idle", "pending", "claims", "scan", "asked", "superseding",
               "claim", "claimed"},
         candidates : SUBSET Events, blocked : SUBSET Lanes,
         toScan : SUBSET Events, target : 0 .. MaxClaims, held : 0 .. MaxClaims]

IdlePass == [pc |-> "idle", candidates |-> {}, blocked |-> {}, toScan |-> {},
             target |-> 0, held |-> 0]

\* A row as enqueue, resubmit and the release paths leave it.
PendingRow(erred) ==
    [status |-> "pending", token |-> 0, fresh |-> FALSE, erred |-> erred]
ClosedRow(status) ==
    [status |-> status, token |-> 0, fresh |-> FALSE, erred |-> FALSE]
ClaimedRow(r, t) ==
    [r EXCEPT !.status = "claimed", !.token = t, !.fresh = TRUE]

\* Mutant: the writes select their row by event id alone.
OwnsById(t) == row[h[t].event].status # "absent"

\* The token fence of complete, release, fail and refreshClaim.
Owns(t) ==
    /\ row[h[t].event].status = "claimed"
    /\ row[h[t].event].token = t

Gone(p) == \E d \in Drains : ProcOf[d] = p /\ drain[d] = "crashed"
Stopped(d) == drain[d] \in {"aborted", "disposed"}
LaneFor(t) == LaneOf[h[t].event]
Dispatched(t) == h[t].phase # "unstarted" /\ drain[h[t].drain] # "crashed"
Lost(t) == h[t].guillotined \/ h[t].superseded

Earliest(S) == CHOOSE e \in S : \A f \in S : e <= f

NewHandler(d, e) ==
    [drain |-> d, event |-> e, phase |-> "unstarted", guillotined |-> FALSE,
     superseded |-> FALSE, stall |-> "off", heartbeat |-> FALSE,
     settling |-> "no", outcome |-> "awaited", adoption |-> "none", genuine |-> FALSE]

Init ==
    /\ row = [e \in Events |-> ClosedRow("absent")]
    /\ h = << >>
    /\ active = [d \in Drains |-> [l \in Lanes |-> 0]]
    /\ drain = [d \in Drains |-> "live"]
    /\ pass = [d \in Drains |-> IdlePass]
    /\ detached = {}

-----------------------------------------------------------------------------
(* The queue's own callers.                                                *)

\* A duplicate enqueue reports the row it finds and changes nothing.
Enqueue(e) ==
    /\ row[e].status = "absent"
    /\ row' = [row EXCEPT ![e] = PendingRow(FALSE)]
    /\ UNCHANGED <<h, active, drain, pass, detached>>

Resubmit(e) ==
    /\ "resubmit" \in Faults
    /\ row[e].status = "failed"
    /\ row' = [row EXCEPT ![e] = PendingRow(FALSE)]
    /\ UNCHANGED <<h, active, drain, pass, detached>>

Prune(e) ==
    /\ "prune" \in Faults
    /\ row[e].status \in Terminal
    /\ row' = [row EXCEPT ![e] = ClosedRow("absent")]
    /\ detached' = detached \cup {t \in Claims : h[t].event = e}
    /\ UNCHANGED <<h, active, drain, pass>>

-----------------------------------------------------------------------------
(* One drainOnce pass.  Every await of the code ends a step.               *)

\* Mutant: dispose does not retire the owner.
RecoverableIfAborted(d, e) ==
    LET owner == h[row[e].token].drain
        here == ProcOf[owner] = ProcOf[d]
    IN  /\ row[e].status = "claimed"
        /\ active[d][LaneOf[e]] = 0
        /\ ~(here /\ drain[owner] \in {"live", "disposed"})
        /\ ~(~here /\ row[e].fresh /\ ~Gone(ProcOf[owner]))

\* shouldRecover: the lane is idle here, the owner is no live drain of this
\* process, and no other live process holds the claim within its lease.
Recoverable(d, e) ==
    LET owner == h[row[e].token].drain
        here == ProcOf[owner] = ProcOf[d]
    IN  /\ row[e].status = "claimed"
        /\ active[d][LaneOf[e]] = 0
        /\ ~(here /\ drain[owner] = "live")
        /\ ~(~here /\ row[e].fresh /\ ~Gone(ProcOf[owner]))

BeginPass(d) ==
    LET stale == {e \in Events : Recoverable(d, e)}
    IN  /\ drain[d] \in {"live", "aborted"}
        /\ pass[d].pc = "idle"
        /\ row' = [e \in Events |->
                     IF e \in stale THEN PendingRow(row[e].erred) ELSE row[e]]
        /\ detached' = detached \cup {row[e].token : e \in stale}
        /\ pass' = [pass EXCEPT ![d].pc = "pending"]
        /\ UNCHANGED <<h, active, drain>>

\* An event that failed before may still be inside its retry delay.
ListPending(d) ==
    LET listed == {e \in Events : row[e].status = "pending"}
    IN  /\ pass[d].pc = "pending"
        /\ \E delayed \in SUBSET {e \in listed : row[e].erred} :
             pass' = [pass EXCEPT ![d] = [@ EXCEPT
                        !.pc = "claims",
                        !.candidates = listed,
                        !.blocked = {LaneOf[e] : e \in delayed}]]
        /\ UNCHANGED <<row, h, active, drain, detached>>

ListClaims(d) ==
    LET claimed == {e \in Events : row[e].status = "claimed"}
    IN  /\ pass[d].pc = "claims"
        /\ pass' = [pass EXCEPT ![d] = [@ EXCEPT
              !.pc = IF Supersedes THEN "scan" ELSE "claim",
              !.toScan = IF Supersedes THEN pass[d].candidates ELSE {},
              !.blocked = pass[d].blocked \cup {l \in Lanes : active[d][l] # 0}
                            \cup {LaneOf[e] : e \in claimed}]]
        /\ UNCHANGED <<row, h, active, drain, detached>>

\* supersedeActiveIfNeeded asks only about a handler that is not yet adopted.
Supersedable(d, l) ==
    /\ Supersedes
    /\ active[d][l] # 0
    /\ h[active[d][l]].phase \in Open

\* The scan over the pending events, idle without the option: ask about the next one whose lane has a
\* supersedable handler, or go on to claiming.
ScanPending(d) ==
    LET asks == {e \in pass[d].toScan : Supersedable(d, LaneOf[e])}
    IN  /\ pass[d].pc = "scan"
        /\ pass' = [pass EXCEPT ![d] =
             IF asks = {} \/ Stopped(d)
             THEN [@ EXCEPT !.pc = "claim", !.toScan = {}]
             ELSE [@ EXCEPT !.pc = "asked",
                            !.toScan = {e \in pass[d].toScan : e > Earliest(asks)},
                            !.target = active[d][LaneOf[Earliest(asks)]]]]
        /\ UNCHANGED <<row, h, active, drain, detached>>

\* What the pass does after supersedeActiveIfNeeded returned.
AfterSupersede(p) ==
    IF p.held = 0 THEN [p EXCEPT !.pc = "scan", !.target = 0]
                  ELSE [p EXCEPT !.pc = "claimed"]

\* settleOnce: the first disposition owns the settlement, a later one joins it.
Settle(x, disposition) ==
    [x EXCEPT !.settling = IF @ = "no" THEN disposition ELSE @]

\* The predicate answers; a late yes must find the same unadopted handler.
SupersedeAnswered(d, yes) ==
    LET t == pass[d].target
        valid == /\ active[d][LaneFor(t)] = t
                 /\ h[t].phase \in Open
                 /\ ~Lost(t)
    IN  /\ pass[d].pc = "asked"
        /\ IF yes /\ valid
           THEN /\ h' = [h EXCEPT ![t] = Settle([@ EXCEPT !.superseded = TRUE,
                                                          !.stall = "off"],
                                                "complete")]
                /\ pass' = [pass EXCEPT ![d].pc = "superseding"]
           ELSE /\ h' = h
                /\ pass' = [pass EXCEPT ![d] = AfterSupersede(@)]
        /\ UNCHANGED <<row, active, drain, detached>>

\* The tombstone of the superseded event was written, or given up.
SupersedeSettled(d) ==
    LET t == pass[d].target
    IN  /\ pass[d].pc = "superseding"
        /\ h[t].settling = "no"
        /\ pass' = [pass EXCEPT ![d] =
             AfterSupersede([@ EXCEPT !.blocked = pass[d].blocked \ {LaneFor(t)}])]
        /\ UNCHANGED <<row, h, active, drain, detached>>

\* claimNext takes the first candidate whose lane is neither blocked nor holds a
\* candidate that was claimed since the snapshot.  The bound MaxClaims ends a
\* pass as startLimit does.
Claimable(d) ==
    LET taken == {LaneOf[e] : e \in {f \in pass[d].candidates : row[f].status = "claimed"}}
    IN  {e \in pass[d].candidates :
           /\ row[e].status = "pending"
           /\ LaneOf[e] \notin pass[d].blocked \cup taken}

ClaimNext(d) ==
    /\ pass[d].pc = "claim"
    /\ IF Stopped(d) \/ Claimable(d) = {} \/ Len(h) = MaxClaims
       THEN /\ pass' = [pass EXCEPT ![d] = IdlePass]
            /\ UNCHANGED <<row, h>>
       ELSE LET e == Earliest(Claimable(d))
                t == Len(h) + 1
            IN  /\ row' = [row EXCEPT ![e] = ClaimedRow(@, t)]
                /\ h' = Append(h, NewHandler(d, e))
                /\ pass' = [pass EXCEPT ![d].pc = "claimed", ![d].held = t]
    /\ UNCHANGED <<active, drain, detached>>

\* A claim handed back unstarted: release with recordAttempt false.  A failing
\* write rejects the whole pass and leaves the row claimed.
HandBack(d, next) ==
    LET t == pass[d].held
    IN  /\ \/ /\ row' = IF Owns(t) THEN [row EXCEPT ![h[t].event] = PendingRow(@.erred)]
                                   ELSE row
              /\ pass' = [pass EXCEPT ![d] = next]
           \/ /\ "write" \in Faults
              /\ row' = row
              /\ pass' = [pass EXCEPT ![d] = IdlePass]
        /\ UNCHANGED <<h, active>>

RunClaimed(d) ==
    LET t == pass[d].held
        l == LaneFor(t)
    IN  /\ h' = [h EXCEPT ![t].phase = "dispatching", ![t].stall = "armed",
                          ![t].heartbeat = TRUE]
        /\ active' = [active EXCEPT ![d][l] = t]
        /\ pass' = [pass EXCEPT ![d] = [@ EXCEPT !.pc = "claim", !.held = 0, !.target = 0,
                                                 !.blocked = pass[d].blocked \cup {l}]]
        /\ UNCHANGED row

\* Mutant: the lane's present handler is not looked at.
HandOverBlindly(d) ==
    /\ pass[d].pc = "claimed"
    /\ \/ Stopped(d) /\ HandBack(d, IdlePass)
       \/ ~Stopped(d) /\ RunClaimed(d)
    /\ UNCHANGED <<drain, detached>>

\* The rest of the loop body.  A target means that the lane's handler has been
\* asked about already.
HandOver(d) ==
    LET l == LaneFor(pass[d].held)
        first == pass[d].target = 0
    IN  /\ pass[d].pc = "claimed"
        /\ \/ first /\ Stopped(d) /\ HandBack(d, IdlePass)
           \/ /\ first
              /\ ~Stopped(d)
              /\ Supersedable(d, l)
              /\ pass' = [pass EXCEPT ![d].pc = "asked", ![d].target = active[d][l]]
              /\ UNCHANGED <<row, h, active>>
           \/ /\ active[d][l] # 0
              /\ ~first \/ ~(Stopped(d) \/ Supersedable(d, l))
              /\ HandBack(d, [pass[d] EXCEPT !.pc = "claim", !.held = 0, !.target = 0,
                                             !.blocked = @ \cup {l}])
           \/ /\ active[d][l] = 0
              /\ ~first \/ ~Stopped(d)
              /\ RunClaimed(d)
        /\ UNCHANGED <<drain, detached>>

-----------------------------------------------------------------------------
(* The dispatched channel code and the callbacks it may call.              *)

\* onAdopted fails loudly once the claim is lost, and returns at once when the
\* handler is adopted or settled already.
OnAdopted(t) ==
    /\ Dispatched(t)
    /\ ~Lost(t)
    /\ h' = [h EXCEPT ![t] =
          IF @.phase \in {"adopted", "settled"}
          THEN [@ EXCEPT !.adoption = "returned"]
          ELSE Settle([@ EXCEPT !.phase = "adopted", !.stall = "off", !.adoption = "awaited",
                                !.genuine = h[t].settling = "no"],
                      "complete")]
    /\ UNCHANGED <<row, active, drain, pass, detached>>

OnDeferred(t) ==
    /\ Dispatched(t)
    /\ h[t].phase = "dispatching"
    /\ h' = [h EXCEPT ![t].phase = "deferred"]
    /\ UNCHANGED <<row, active, drain, pass, detached>>

\* A settlement hold begins: the stall watchdog stops.
OnAdoptionFinalizing(t) ==
    /\ Dispatched(t)
    /\ h[t].phase \in Open
    /\ ~Lost(t)
    /\ h' = [h EXCEPT ![t].stall = "held"]
    /\ UNCHANGED <<row, active, drain, pass, detached>>

OnAbandoned(t) ==
    /\ Dispatched(t)
    /\ h[t].phase \in Open
    /\ ~Lost(t)
    /\ h' = [h EXCEPT ![t] = Settle([@ EXCEPT !.stall = "off"], "release")]
    /\ UNCHANGED <<row, active, drain, pass, detached>>

\* Mutant: an outcome after adoption is applied too.
OutcomeCountsUntilSettled(t) ==
    /\ Dispatched(t)
    /\ h[t].outcome = "awaited"
    /\ drain[h[t].drain] # "disposed"
    /\ h[t].phase # "settled"
    /\ ~Lost(t)

\* The outcome of a dispatch counts only for a claim that is neither adopted,
\* lost nor settled, and never after dispose.
OutcomeCounts(t) ==
    /\ Dispatched(t)
    /\ h[t].outcome = "awaited"
    /\ drain[h[t].drain] # "disposed"
    /\ h[t].phase \in Open
    /\ ~Lost(t)

\* Release for a retry, or dead-letter: applyFailureDisposition.
DispatchFailed(t, outcome) ==
    \E f \in Failures :
        h' = [h EXCEPT ![t] = Settle([@ EXCEPT !.outcome = outcome, !.stall = "off"], f)]

\* dispatchClaimedEvent returns.  An aborted drain applies explicit terminal
\* results only and leaves every other claim to recovery.  The task awaits the
\* settlement of a failed-retryable result.
DispatchReturns(t, result) ==
    LET skipped == /\ drain[h[t].drain] = "aborted"
                   /\ result \notin {"completed", "failed-retryable"}
    IN  /\ OutcomeCounts(t)
        /\ \/ result = "failed-retryable" /\ DispatchFailed(t, "failing")
           \/ /\ result # "failed-retryable"
              /\ h' = [h EXCEPT ![t] =
                   IF skipped \/ h[t].phase = "deferred" THEN [@ EXCEPT !.outcome = "over"]
                   ELSE IF result = "deferred"
                   THEN [@ EXCEPT !.outcome = "over", !.phase = "deferred"]
                   ELSE Settle([@ EXCEPT !.outcome = "over", !.phase = "adopted",
                                         !.stall = "off",
                                         !.genuine = h[t].settling = "no"],
                               "complete")]
        /\ UNCHANGED <<row, active, drain, pass, detached>>

\* dispatchClaimedEvent throws.
DispatchThrows(t) ==
    /\ OutcomeCounts(t)
    /\ IF Stopped(h[t].drain) THEN h' = [h EXCEPT ![t].outcome = "over"]
                              ELSE DispatchFailed(t, "over")
    /\ UNCHANGED <<row, active, drain, pass, detached>>

-----------------------------------------------------------------------------
(* Settlement, timers and the life of a drain.                             *)

\* The row as the settlement's write leaves it; the token fence may refuse.
Written(t) ==
    IF ~Owns(t) THEN row
    ELSE [row EXCEPT ![h[t].event] =
            CASE h[t].settling = "complete" -> ClosedRow("completed")
              [] h[t].settling = "fail"     -> ClosedRow("failed")
              [] OTHER                      -> PendingRow(TRUE)]

\* A failed settlement throws to the onAdopted call and to the dispatch task that
\* await it.  The task's catch block settles the claim anew, as if the dispatch
\* had thrown, unless the claim or the drain is beyond that.
SettlementFailed(x, disposition) ==
    [x EXCEPT !.settling = disposition,
              !.adoption = IF @ = "awaited" THEN "none" ELSE @,
              !.outcome = IF @ = "failing" THEN "over" ELSE @]

NextDispositions(t) ==
    IF h[t].outcome = "failing" /\ h[t].phase \in Open /\ ~Lost(t) /\ ~Stopped(h[t].drain)
    THEN Failures
    ELSE {"no"}

\* The write goes through.  A refused complete is a lost adoption and settles
\* nothing; a refused release or fail counts as done.
SettlementWrites(t) ==
    LET d == h[t].drain
        l == LaneFor(t)
        lostAdoption == h[t].settling = "complete" /\ ~Owns(t)
    IN  /\ Dispatched(t)
        /\ h[t].settling # "no"
        /\ row' = Written(t)
        /\ IF lostAdoption
           THEN /\ \E next \in NextDispositions(t) :
                     h' = [h EXCEPT ![t] = SettlementFailed(@, next)]
                /\ UNCHANGED active
           ELSE /\ h' = [h EXCEPT ![t] = [@ EXCEPT
                            !.phase = "settled", !.settling = "no", !.stall = "off",
                            !.heartbeat = FALSE,
                            !.outcome = IF h[t].outcome = "failing" THEN "over" ELSE h[t].outcome,
                            !.adoption = IF h[t].adoption = "awaited" THEN "returned"
                                         ELSE h[t].adoption]]
                /\ active' = IF active[d][l] = t THEN [active EXCEPT ![d][l] = 0] ELSE active
        /\ UNCHANGED <<drain, pass, detached>>

\* Mutant: a settlement that was given up counts as settled.
SettlementGivesUpForGood(t) ==
    /\ "write" \in Faults
    /\ Dispatched(t)
    /\ h[t].settling # "no"
    /\ h' = [h EXCEPT ![t] = [SettlementFailed(@, "no") EXCEPT !.phase = "settled"]]
    /\ active' = [active EXCEPT ![h[t].drain][LaneFor(t)] = IF @ = t THEN 0 ELSE @]
    /\ UNCHANGED <<row, drain, pass, detached>>

\* Eight writes failed, or the drain stopped between two of them: the error goes
\* to whoever awaits the settlement and the claim stays held.
SettlementGivesUp(t) ==
    /\ "write" \in Faults
    /\ Dispatched(t)
    /\ h[t].settling # "no"
    /\ \E next \in NextDispositions(t) :
         h' = [h EXCEPT ![t] = SettlementFailed(@, next)]
    /\ UNCHANGED <<row, active, drain, pass, detached>>

\* Mutant: deferral disarms the watchdog.
StallFiresUndeferred(t) ==
    /\ Dispatched(t)
    /\ h[t].stall = "armed"
    /\ h' = [h EXCEPT ![t] = IF @.phase = "dispatching"
                             THEN Settle([@ EXCEPT !.guillotined = TRUE, !.stall = "off"],
                                         "fail")
                             ELSE [@ EXCEPT !.stall = "off"]]
    /\ UNCHANGED <<row, active, drain, pass, detached>>

\* The stall watchdog dead-letters a claim nobody has adopted in time.
StallFires(t) ==
    /\ Dispatched(t)
    /\ h[t].stall = "armed"
    /\ h' = [h EXCEPT ![t] = IF @.phase \in Open
                             THEN Settle([@ EXCEPT !.guillotined = TRUE, !.stall = "off"],
                                         "fail")
                             ELSE [@ EXCEPT !.stall = "off"]]
    /\ UNCHANGED <<row, active, drain, pass, detached>>

\* The refresh timer: stop it, renew the lease, or learn that the claim is lost.
HeartbeatTick(t) ==
    /\ Dispatched(t)
    /\ h[t].heartbeat
    /\ IF h[t].phase = "settled" \/ Lost(t)
       THEN h' = [h EXCEPT ![t].heartbeat = FALSE] /\ row' = row
       ELSE IF Owns(t)
       THEN h' = h /\ row' = [row EXCEPT ![h[t].event].fresh = TRUE]
       ELSE /\ h' = [h EXCEPT ![t].guillotined = TRUE, ![t].stall = "off",
                              ![t].heartbeat = FALSE]
            /\ row' = row
    /\ UNCHANGED <<active, drain, pass, detached>>

\* Nobody renewed the lease for claimLeaseMs: no timer runs, or the process
\* was suspended.
LeaseLapses(e) ==
    /\ "lapse" \in Faults
    /\ row[e].status = "claimed" /\ row[e].fresh
    /\ row' = [row EXCEPT ![e].fresh = FALSE]
    /\ UNCHANGED <<h, active, drain, pass, detached>>

\* abortActiveClaims: the owner retires; its handlers are only signalled.
Abort(d) ==
    /\ "abort" \in Faults
    /\ drain[d] = "live"
    /\ drain' = [drain EXCEPT ![d] = "aborted"]
    /\ UNCHANGED <<row, h, active, pass, detached>>

Dispose(d) ==
    /\ "abort" \in Faults
    /\ drain[d] \in {"live", "aborted"}
    /\ drain' = [drain EXCEPT ![d] = "disposed"]
    /\ h' = [t \in Claims |->
               IF \E l \in Lanes : active[d][l] = t
               THEN [h[t] EXCEPT !.stall = "off", !.heartbeat = FALSE]
               ELSE h[t]]
    /\ active' = [active EXCEPT ![d] = [l \in Lanes |-> 0]]
    /\ UNCHANGED <<row, pass, detached>>

\* The memory of every drain of the process is gone; the rows stay.
Crash(p) ==
    LET killed == {d \in Drains : ProcOf[d] = p}
    IN  /\ "crash" \in Faults
        /\ ~Gone(p)
        /\ killed # {}
        /\ drain' = [d \in Drains |-> IF d \in killed THEN "crashed" ELSE drain[d]]
        /\ pass' = [d \in Drains |-> IF d \in killed THEN IdlePass ELSE pass[d]]
        /\ active' = [d \in Drains |-> IF d \in killed THEN [l \in Lanes |-> 0] ELSE active[d]]
        /\ h' = [t \in Claims |->
                   IF h[t].drain \in killed
                   THEN [NewHandler(h[t].drain, h[t].event) EXCEPT !.genuine = h[t].genuine]
                   ELSE h[t]]
        /\ UNCHANGED <<row, detached>>

Results == {"completed", "deferred", "failed-retryable", "nothing"}

PassStep(d) ==
    \/ BeginPass(d) \/ ListPending(d) \/ ListClaims(d) \/ ScanPending(d)
    \/ \E yes \in BOOLEAN : SupersedeAnswered(d, yes)
    \/ SupersedeSettled(d) \/ ClaimNext(d) \/ HandOver(d)

ChannelStep(t) ==
    \/ OnAdopted(t) \/ OnDeferred(t) \/ OnAdoptionFinalizing(t) \/ OnAbandoned(t)
    \/ \E result \in Results : DispatchReturns(t, result)
    \/ DispatchThrows(t)

TimerStep(t) ==
    SettlementWrites(t) \/ SettlementGivesUp(t) \/ StallFires(t) \/ HeartbeatTick(t)

Next ==
    \/ \E e \in Events : Enqueue(e) \/ Resubmit(e) \/ Prune(e) \/ LeaseLapses(e)
    \/ \E d \in Drains : PassStep(d) \/ Abort(d) \/ Dispose(d)
    \/ \E t \in Claims : ChannelStep(t) \/ TimerStep(t)
    \/ \E p \in Procs : Crash(p)

Spec == Init /\ [][Next]_vars

\* The monitor polls drainOnce for as long as it runs; timers fire; a write that
\* is retried succeeds at last; a channel that held a settlement ends the hold.
Fairness ==
    /\ \A d \in Drains : WF_vars(PassStep(d))
    /\ \A t \in 1 .. MaxClaims :
         /\ WF_vars(t \in Claims /\ SettlementWrites(t))
         /\ WF_vars(t \in Claims /\ StallFires(t))
         /\ WF_vars(t \in Claims /\ h[t].stall = "held" /\ (OnAdopted(t) \/ OnAbandoned(t)))

FairSpec == Spec /\ Fairness

-----------------------------------------------------------------------------
(* Properties.                                                             *)

\* Every variable keeps its type, and a row names only tokens that were given out.
TypeOK ==
    /\ row \in [Events -> Row] /\ \A e \in Events : row[e].token <= Len(h)
    /\ h \in Seq(Handler) /\ Len(h) <= MaxClaims
    /\ active \in [Drains -> [Lanes -> 0 .. Len(h)]]
    /\ drain \in [Drains -> {"live", "aborted", "disposed", "crashed"}]
    /\ pass \in [Drains -> Pass]
    /\ detached \subseteq Claims

\* runClaimed never overwrites an unsettled handler in activeByLane: while a
\* drain is not disposed, an unsettled handler is the one its lane names, so a
\* lane has one, and superseding or a failed settlement does not shake it off.
LaneHasOneHandler ==
    \A t \in Claims :
        LET d == h[t].drain
        IN  (drain[d] \in {"live", "aborted"} /\ h[t].phase \notin {"unstarted", "settled"})
              => active[d][LaneFor(t)] = t

\* recoverStaleClaims spares the claims of live drains, so each of them must
\* still have the handler that is going to settle it: a dispatched claim never
\* outlives its place in activeByLane.
NoOrphanedClaim ==
    \A e \in Events :
        LET t == row[e].token
            d == h[t].drain
        IN  (row[e].status = "claimed" /\ drain[d] = "live" /\ h[t].phase # "unstarted")
              => active[d][LaneOf[e]] = t

\* "Wedged ownership beats silent double-dispatch": an event adopted under a
\* claim is never claimed again, whatever writes fail and whatever the channel
\* calls afterwards, unless recovery or pruning took the claim away.
AdoptedOnce ==
    \A t, u \in Claims :
        (t < u /\ h[t].event = h[u].event /\ h[t].genuine) => t \in detached

\* The completion tombstone outlives every late writer: an owner whose claim was
\* recovered and completed by a peer can neither release nor fail the row.
TerminalIsFinal ==
    [][\A e \in Events : row[e].status = "completed"
          => row'[e].status \in {"completed", "absent"}]_vars

\* Queue and drains as an inbox: the row is the event's state, its token the
\* claim that holds it, and a hold is kept up by a live owner with a fresh lease.
Mail == INSTANCE Inbox WITH
    Tokens <- 1 .. MaxClaims,
    mail <- [e \in Events |-> row[e].status],
    holder <- [e \in Events |-> IF row[e].status = "claimed" THEN row[e].token ELSE 0],
    made <- [e \in Events |-> {t \in Claims : h[t].event = e}],
    adopted <- {t \in Claims : h[t].genuine},
    revoked <- detached,
    kept <- {e \in Events : /\ row[e].status = "claimed" /\ row[e].fresh
                            /\ drain[h[row[e].token].drain] = "live"}

\* However passes, callbacks, watchdogs, failing writes, crashes and peers
\* interleave, the queue and its drains are an inbox: every claim is exclusive,
\* a stale owner moves nothing, what was adopted is completed or recovered, and
\* a tombstone stays.
ImplementsInbox == Mail!Spec

\* The event is claimed under token t.
ClaimedUnder(t, e) == row[e].status = "claimed" /\ row[e].token = t

\* A claim whose owner crashed, or retired in the process of a drain that lives
\* on, is recovered: recoverStaleClaims runs in every pass and nothing spares it.
RetiredClaimIsRecovered ==
    \A e \in Events, t \in 1 .. MaxClaims, d \in Drains :
        (/\ ClaimedUnder(t, e)
         /\ drain[d] = "live"
         /\ \/ drain[h[t].drain] = "crashed"
            \/ Stopped(h[t].drain) /\ ProcOf[h[t].drain] = ProcOf[d])
          ~> (~ClaimedUnder(t, e) \/ drain[d] # "live")

\* No handler keeps a lane of a live drain for ever: the stall watchdog, which
\* deferral does not stop, ends every claim that is neither adopted nor abandoned
\* in time.
HandlerFreesLane ==
    \A d \in Drains, l \in Lanes, t \in 1 .. MaxClaims :
        (active[d][l] = t /\ drain[d] = "live")
          ~> (active[d][l] # t \/ drain[d] # "live")

\* "Idempotent only after a genuine successful adoption path": when onAdopted
\* has returned without an error and the claim is settled, it was completed.
AdoptionIsGenuine ==
    \A t \in Claims :
        (h[t].adoption = "returned" /\ h[t].phase = "settled" /\ t \notin detached)
          => row[h[t].event].status = "completed"
=============================================================================
