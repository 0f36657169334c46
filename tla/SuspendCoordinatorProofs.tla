----------------------- MODULE SuspendCoordinatorProofs -----------------------
(***************************************************************************)
(* Proofs about SuspendCoordinator, for every set of chains, emitters and  *)
(* requests and every bound.                                               *)
(*                                                                         *)
(* The coordinator moves admission in two ways: a step of its own changes  *)
(* the suspension phase and wakes waiters (PhaseStepKeepsInv), every other *)
(* step is one of GatewayAdmission.  The invariant of the admission        *)
(* therefore carries over, and the coordinator's own properties are        *)
(* inductive beside it.                                                    *)
(***************************************************************************)
EXTENDS SuspendCoordinator, GatewayAdmissionProofs

EntryTyped ==
    /\ current \in Entries \cup {NoEntry}
    /\ retired \in BOOLEAN /\ schedulerPaused \in BOOLEAN

\* The entry answers for the phase in force.
EntryInv == EntryTyped /\ FenceHasTimer /\ SchedulerPausedBehindFence /\ SuspensionIsQuiet

CoordInv == IInv /\ EntryInv

-----------------------------------------------------------------------------
(* What the coordinator's own steps do to admission.                       *)

\* A step of the coordinator: the phase moves and, if it reopens, all wake.
PhaseStep ==
    /\ UNCHANGED <<fenceVars, rootVars, chainVars, drain>>
    /\ suspendPhase' \in Phases /\ suspendGeneration' \in Nat
    /\ waiter' = Woken \/ (waiter' = waiter /\ suspendPhase' # "accepting")

\* Such a step keeps the invariant of the admission.
LEMMA PhaseStepKeepsInv == IInv /\ PhaseStep => IInv'
<1> SUFFICES ASSUME IInv, PhaseStep
             PROVE  IInv'
    OBVIOUS
<1>1. /\ UNCHANGED <<restartDraining, signalPending, signalGeneration, signalLease>>
      /\ UNCHANGED <<created, activeRootWork, references, released, spent, origin>>
      /\ UNCHANGED <<store, own, retained, drain>>
    BY DEF PhaseStep, fenceVars, rootVars, chainVars
<1>2. waiter \in [Chains -> {"none", "waiting", "woken", "refused"}]
    BY DEF IInv, TypeOK
<1>3. waiter' \in [Chains -> {"none", "waiting", "woken", "refused"}]
    BY <1>2 DEF PhaseStep, Woken
<1>4. TypeOK'
    BY <1>1, <1>3 DEF IInv, TypeOK, PhaseStep
<1>5. RootsAreCounted'
    BY <1>1 DEF IInv, RootsAreCounted
<1>6. WaitersAreWoken'
    BY <1>1, <1>2 DEF IInv, WaitersAreWoken, PhaseStep, Woken
<1>7. DrainWaitsForSomething' /\ DrainedIsFinal' /\ FenceHasOneOwner'
    BY <1>1 DEF IInv, DrainWaitsForSomething, DrainedIsFinal, FenceHasOneOwner
<1>8. \A c \in Chains : waiter'[c] \in {"waiting", "woken"} => waiter[c] \in {"waiting", "woken"}
    BY <1>2 DEF PhaseStep, Woken
<1>9. Bookkeeping'
    BY <1>1, <1>8 DEF IInv, Bookkeeping
<1> QED
    BY <1>4, <1>5, <1>6, <1>7, <1>9 DEF IInv

\* And shows as a fence going up or down, or as nothing.
LEMMA PhaseStepRefinesGate == PhaseStep => [Gate!Next]_(Gate!vars)
<1> SUFFICES ASSUME PhaseStep
             PROVE  [Gate!Next]_(Gate!vars)
    OBVIOUS
<1>1. /\ Origins(activeRootWork)' = Origins(activeRootWork)
      /\ Origins(1..created)' = Origins(1..created)
      /\ DrainReport' = DrainReport /\ restartDraining' = restartDraining
    BY LinesUnmoved DEF PhaseStep, DrainReport, fenceVars
<1>2. CASE restartDraining
    BY <1>1, <1>2 DEF GateState, Gate!vars
<1>3. CASE ~restartDraining
    BY <1>1, <1>3 DEF GateState, Gate!Next, Gate!Fence
<1> QED
    BY <1>2, <1>3

\* A step of the coordinator that only counts time leaves admission alone.
CoordinatorStep == PhaseStep \/ UNCHANGED admissionVars

-----------------------------------------------------------------------------
(* The entry through a reopening and through a fresh preparation.          *)

\* resumeAndReopen lifts the fence and the pause, or keeps a timer for both.
LEMMA ReopeningKeeps ==
    ASSUME CoordInv, NEW fails \in BOOLEAN, current # NoEntry, ResumeAndReopen(fails),
           UNCHANGED <<fenceVars, rootVars, chainVars, drain, retired>>
    PROVE  PhaseStep /\ EntryInv'
<1>1. /\ current \in Entries /\ suspendPhase = current.expects
      /\ suspendPhase \in {"preparing", "prepared"} /\ suspendGeneration \in Nat
      /\ retired' = retired /\ retired \in BOOLEAN /\ CanReopen(current)
    BY DEF CoordInv, EntryInv, EntryTyped, FenceHasTimer, CanReopen, Entries, IInv, TypeOK
<1>2. /\ Recovering(current) \in Entries /\ Recovering(current).kind = "recovering"
      /\ Recovering(current).armed /\ Recovering(current).caller = current.caller
      /\ Recovering(current).generation = current.generation
      /\ Recovering(current).expects = current.expects
    <2> DEFINE e == current
    <2>1. e \in Entries /\ 0 \in 0..TTL
        BY <1>1, TTLAssumption
    <2> HIDE DEF e
    <2>2. /\ Recovering(e) \in Entries /\ Recovering(e).kind = "recovering" /\ Recovering(e).armed
          /\ Recovering(e).caller = e.caller /\ Recovering(e).generation = e.generation
          /\ Recovering(e).expects = e.expects
        <3>1. Recovering(e) = [kind |-> "recovering", request |-> e.request,
                               generation |-> e.generation, expects |-> e.expects,
                               left |-> 0, armed |-> TRUE, caller |-> e.caller]
            <4>1. Recovering(e) = [[[e EXCEPT !.kind = "recovering"] EXCEPT !.left = 0]
                                   EXCEPT !.armed = TRUE]
                BY DEF Recovering
            <4>2. [e EXCEPT !.kind = "recovering"] =
                      [kind |-> "recovering", request |-> e.request,
                       generation |-> e.generation, expects |-> e.expects,
                       left |-> e.left, armed |-> e.armed, caller |-> e.caller]
                BY <2>1 DEF Entries
            <4> QED
                BY <4>1, <4>2
        <3> QED
            BY <2>1, <3>1 DEF Entries
    <2> QED
        BY <2>2 DEF e
<1>3. UNCHANGED <<activeRootWork, origin, suspendGeneration, restartDraining>>
    BY DEF rootVars, ResumeAndReopen, fenceVars
<1>4. Recovering(current) # NoEntry
    BY <1>2 DEF NoEntry
<1>5. CASE ~fails
    <2>1. current' = NoEntry /\ suspendPhase' = "accepting" /\ waiter' = Woken /\ schedulerPaused' = FALSE
        BY <1>1, <1>5 DEF ResumeAndReopen
    <2>2. PhaseStep
        BY <1>1, <1>3, <2>1 DEF PhaseStep, Phases
    <2>3. NoEntry.kind # "held"
        BY DEF NoEntry
    <2> QED
        BY <1>1, <2>1, <2>2, <2>3 DEF EntryInv, EntryTyped, FenceHasTimer,
           SchedulerPausedBehindFence, SuspensionIsQuiet
<1>6. CASE fails
    <2>1. /\ current' = Recovering(current) /\ schedulerPaused' = TRUE
          /\ suspendPhase' = suspendPhase /\ waiter' = waiter
        BY <1>6 DEF ResumeAndReopen
    <2>2. PhaseStep
        BY <1>1, <1>3, <2>1 DEF PhaseStep, Phases
    <2>3. EntryTyped'
        BY <1>1, <1>2, <2>1 DEF EntryTyped
    <2>4. FenceHasTimer'
        BY <1>1, <1>2, <1>3, <1>4, <2>1 DEF FenceHasTimer, CanReopen
    <2>5. SchedulerPausedBehindFence'
        BY <1>1, <1>2, <1>4, <2>1 DEF SchedulerPausedBehindFence
    <2>6. SuspensionIsQuiet'
        BY <1>2, <1>3, <2>1 DEF CoordInv, EntryInv, SuspensionIsQuiet
    <2> QED
        BY <2>2, <2>3, <2>4, <2>5, <2>6 DEF EntryInv
<1> QED
    BY <1>5, <1>6

\* An entry made by a preparation is an entry, armed, for its generation.
LEMMA PreparedIsAnEntry ==
    ASSUME IInv, NEW kind \in {"held", "recovering"}, NEW c \in Chains, NEW r \in Requests,
           NEW g \in Nat, NEW phase \in {"preparing", "prepared"}
    PROVE  /\ Prepared(kind, c, r, g, phase) \in Entries
           /\ Prepared(kind, c, r, g, phase) # NoEntry
           /\ Prepared(kind, c, r, g, phase).kind = kind
           /\ Prepared(kind, c, r, g, phase).generation = g
           /\ Prepared(kind, c, r, g, phase).expects = phase
           /\ Prepared(kind, c, r, g, phase).armed
           /\ Prepared(kind, c, r, g, phase).caller = CallerOf(c)
<1>1. CallerOf(c) \in Nat
    <2>1. Live(c) => store[c] \in 1..created /\ origin[store[c]] \in 1..created
        BY LiveIsActive DEF IInv, TypeOK, Bookkeeping
    <2> QED
        BY <2>1 DEF CallerOf, NoRoot
<1>2. (IF kind = "held" THEN TTL ELSE 0) \in 0..TTL
    BY TTLAssumption
<1>3. Prepared(kind, c, r, g, phase).kind \in {"held", "recovering"}
    BY DEF Prepared
<1> QED
    BY <1>1, <1>2, <1>3 DEF Prepared, Entries, NoEntry

\* A preparation closes admission behind an armed entry over an idle gateway,
\* keeps the fence for a scheduler that does not resume, or changes nothing.
LEMMA PreparationKeeps ==
    ASSUME CoordInv, NEW c \in Chains, NEW r \in Requests, NEW otherWork \in BOOLEAN,
           NEW fails \in BOOLEAN, NEW wake \in BOOLEAN, PrepareFresh(c, r, otherWork, fails, wake),
           UNCHANGED <<fenceVars, rootVars, chainVars, drain, retired>>
    PROVE  PhaseStep /\ EntryInv'
<1> DEFINE g == suspendGeneration + 1
<1>1. g \in Nat /\ suspendGeneration' = g /\ retired' = retired /\ retired \in BOOLEAN
    BY DEF CoordInv, IInv, TypeOK, EntryInv, EntryTyped, PrepareFresh
<1>2. UNCHANGED <<activeRootWork, origin, restartDraining>>
    BY DEF rootVars, fenceVars
<1>3. CASE /\ IsIdle(c, otherWork) /\ suspendPhase' = "prepared"
           /\ current' = Prepared("held", c, r, g, "prepared") /\ schedulerPaused' = TRUE
           /\ waiter' = IF wake THEN Woken ELSE waiter
    <2> DEFINE e == Prepared("held", c, r, g, "prepared")
    <2>1. /\ e \in Entries /\ e # NoEntry /\ e.kind = "held" /\ e.generation = g
          /\ e.expects = "prepared" /\ e.armed /\ e.caller = CallerOf(c)
        BY <1>1, PreparedIsAnEntry DEF CoordInv
    <2>2. current' = e /\ schedulerPaused' = TRUE /\ suspendPhase' = "prepared"
        BY <1>3
    <2>3. PhaseStep
        BY <1>1, <1>3 DEF PhaseStep, Phases
    <2>4. \A x \in activeRootWork : origin[x] = CallerOf(c)
        <3>1. ASSUME NEW x \in activeRootWork
              PROVE  origin[x] = CallerOf(c)
            <4>1. x = store[c] /\ x \in 1..created /\ x \notin released
                BY <1>3 DEF IsIdle, CoordInv, IInv, RootsAreCounted
            <4> QED
                BY <4>1 DEF CallerOf, Live, NoRoot
        <3> QED
            BY <3>1
    <2> HIDE DEF e, g
    <2>5. EntryTyped'
        BY <1>1, <2>1, <2>2 DEF EntryTyped
    <2>6. FenceHasTimer'
        BY <1>1, <2>1, <2>2 DEF FenceHasTimer, CanReopen
    <2>7. SchedulerPausedBehindFence'
        BY <2>1, <2>2 DEF SchedulerPausedBehindFence
    <2>8. SuspensionIsQuiet'
        BY <1>2, <2>1, <2>2, <2>4 DEF SuspensionIsQuiet
    <2> QED
        BY <2>3, <2>5, <2>6, <2>7, <2>8 DEF EntryInv
<1>4. CASE /\ suspendPhase' = "accepting" /\ current' = NoEntry
           /\ schedulerPaused' = FALSE /\ waiter' = Woken
    <2>1. PhaseStep
        BY <1>1, <1>4 DEF PhaseStep, Phases
    <2>2. NoEntry.kind # "held"
        BY DEF NoEntry
    <2> QED
        BY <1>1, <1>4, <2>1, <2>2 DEF EntryInv, EntryTyped, FenceHasTimer,
           SchedulerPausedBehindFence, SuspensionIsQuiet
<1>5. CASE /\ suspendPhase' = "preparing"
           /\ current' = Prepared("recovering", c, r, g, "preparing") /\ schedulerPaused' = TRUE
           /\ waiter' = IF wake THEN Woken ELSE waiter
    <2> DEFINE e == Prepared("recovering", c, r, g, "preparing")
    <2>1. /\ e \in Entries /\ e # NoEntry /\ e.kind = "recovering" /\ e.generation = g
          /\ e.expects = "preparing" /\ e.armed
        BY <1>1, PreparedIsAnEntry DEF CoordInv
    <2>2. current' = e /\ schedulerPaused' = TRUE /\ suspendPhase' = "preparing"
        BY <1>5
    <2>3. PhaseStep
        BY <1>1, <1>5 DEF PhaseStep, Phases
    <2> HIDE DEF e, g
    <2>4. EntryTyped' /\ FenceHasTimer'
        BY <1>1, <2>1, <2>2 DEF EntryTyped, FenceHasTimer, CanReopen
    <2>5. SchedulerPausedBehindFence' /\ SuspensionIsQuiet'
        BY <2>1, <2>2 DEF SchedulerPausedBehindFence, SuspensionIsQuiet
    <2> QED
        BY <2>3, <2>4, <2>5 DEF EntryInv
<1> QED
    BY <1>3, <1>4, <1>5 DEF PrepareFresh

-----------------------------------------------------------------------------
(* Every step.                                                             *)

\* A step of the admission that leaves the phase alone keeps the suspension
\* quiet: what starts behind a suspension continues a line that was running.
LEMMA AdmissionKeepsQuiet ==
    ASSUME CoordInv, [Next]_admissionVars, ~Reset, UNCHANGED <<phaseVars, current>>
    PROVE  SuspensionIsQuiet'
<1> SUFFICES ASSUME suspendPhase = "prepared", NEW r \in activeRootWork'
             PROVE  origin'[r] = current.caller
    BY DEF SuspensionIsQuiet, phaseVars
<1>1. \A x \in activeRootWork : origin[x] = current.caller
    BY DEF CoordInv, EntryInv, SuspensionIsQuiet
<1>2. CASE UNCHANGED <<rootVars, own, retained>>
    BY <1>1, <1>2 DEF rootVars
<1>3. ASSUME NEW c \in Chains, NEW from \in {NoRoot} \cup activeRootWork, Admits(c, from)
      PROVE  origin'[r] = current.caller
    <2> DEFINE n == created + 1
    <2>1. from \in activeRootWork /\ from # NoRoot
        <3>1. Closed /\ activeRootWork \subseteq 1..created
            BY DEF Closed, CoordInv, IInv, TypeOK
        <3> QED
            BY <1>3, <3>1 DEF Admits, NoRoot
    <2>2. /\ created \in Nat /\ n \in Roots /\ n \notin activeRootWork
          /\ activeRootWork \subseteq 1..created /\ activeRootWork' = activeRootWork \cup {n}
          /\ origin' = [origin EXCEPT ![n] = origin[from]] /\ origin \in [Roots -> Nat]
        BY <1>3, <2>1, AdmissionAssumption, SMTT(20) DEF Admits, NewRoot, CoordInv, IInv, TypeOK, Roots
    <2>3. activeRootWork \subseteq Roots
        BY <2>2, AdmissionAssumption DEF Roots
    <2> HIDE DEF n
    <2> QED
        BY <1>1, <2>1, <2>2, <2>3
<1>4. ASSUME NEW c \in Chains, Retain(c)
      PROVE  origin'[r] = current.caller
    BY <1>1, <1>4 DEF Retain
<1>5. ASSUME NEW c \in Chains, GivesOwnUp(c) \/ GivesRetainedUp(c)
      PROVE  origin'[r] = current.caller
    <2>1. activeRootWork' \subseteq activeRootWork /\ origin' = origin
        BY <1>5 DEF GivesOwnUp, GivesRetainedUp, Release
    <2> QED
        BY <1>1, <2>1
<1> QED
    BY <1>2, <1>3, <1>4, <1>5, RootEffects DEF CoordInv

\* A step of the admission keeps the entry's facts when it leaves the phase
\* and the entry alone and does not end a restart.
LEMMA AdmissionKeepsEntry ==
    ASSUME CoordInv, [Next]_admissionVars, ~Reset, UNCHANGED <<phaseVars, coordinatorVars>>,
           restartDraining' = restartDraining
    PROVE  EntryInv'
<1>1. SuspensionIsQuiet'
    BY AdmissionKeepsQuiet DEF coordinatorVars
<1>2. EntryTyped' /\ FenceHasTimer' /\ SchedulerPausedBehindFence'
    BY DEF CoordInv, EntryInv, EntryTyped, FenceHasTimer, SchedulerPausedBehindFence, CanReopen,
           phaseVars, coordinatorVars
<1> QED
    BY <1>1, <1>2 DEF EntryInv

\* Every step is one of the coordinator or one of the admission, and keeps the
\* entry's facts.
LEMMA StepKeepsEntry ==
    ASSUME CoordInv, [CoordinatorNext]_vars
    PROVE  (PhaseStep \/ [Next]_admissionVars) /\ EntryInv'
<1>1. CASE AdmissionStep
    <2>1. Next /\ UNCHANGED coordinatorVars
        BY <1>1 DEF AdmissionStep, Next
    <2>2. UNCHANGED phaseVars /\ restartDraining' = restartDraining
        <3>1. ASSUME NEW c \in Chains, ChainStep(c)
              PROVE  UNCHANGED <<fenceVars, phaseVars>>
            BY <3>1, ChainsLeaveFences
        <3>2. CASE SignalStep
            BY <3>2 DEF SignalStep, BeginSignal, RollbackSignal, RollbackFence
        <3>3. CASE DrainStep
            BY <3>3 DEF DrainStep, WaitForRoots, DrainTimeout, DrainResumes, fenceVars
        <3> QED
            BY <1>1, <3>1, <3>2, <3>3 DEF AdmissionStep, fenceVars
    <2>3. ~Reset
        BY <2>2 DEF Reset
    <2> QED
        BY <2>1, <2>2, <2>3, AdmissionKeepsEntry
<1>2. ASSUME NEW c \in Chains, NEW r \in Requests, NEW otherWork \in BOOLEAN,
             NEW fails \in BOOLEAN, Prepare(c, r, otherWork, fails)
      PROVE  PhaseStep /\ EntryInv'
    BY <1>2, PreparationKeeps DEF Prepare
<1>3. ASSUME NEW c \in Chains, NEW r \in Requests, NEW otherWork \in BOOLEAN,
             NEW fails \in BOOLEAN, NEW resumeFails \in BOOLEAN,
             PrepareOverExpired(c, r, otherWork, resumeFails, fails)
      PROVE  PhaseStep /\ EntryInv'
    <2>1. current # NoEntry
        BY <1>3 DEF PrepareOverExpired, Expired, NoEntry
    <2>2. UNCHANGED <<fenceVars, rootVars, chainVars, drain, retired>>
        BY <1>3 DEF PrepareOverExpired
    <2>3. ResumeAndReopen(resumeFails) \/ PrepareFresh(c, r, otherWork, fails, TRUE)
        BY <1>3 DEF PrepareOverExpired
    <2>4. CASE ResumeAndReopen(resumeFails)
        BY <2>1, <2>2, <2>4, ReopeningKeeps
    <2>5. CASE PrepareFresh(c, r, otherWork, fails, TRUE)
        BY <2>2, <2>5, PreparationKeeps
    <2> QED
        BY <2>3, <2>4, <2>5
<1>4. ASSUME NEW fails \in BOOLEAN, EndSuspension(fails) \/ TimerFires(fails)
      PROVE  PhaseStep /\ EntryInv'
    <2>1. /\ current # NoEntry /\ ResumeAndReopen(fails)
          /\ UNCHANGED <<fenceVars, rootVars, chainVars, drain, retired>>
        BY <1>4 DEF EndSuspension, TimerFires, NoEntry
    <2> QED
        BY <2>1, ReopeningKeeps
<1>5. ASSUME /\ current.kind = "held" /\ current.left > 0 /\ UNCHANGED <<admissionVars, retired, schedulerPaused>>
             /\ \/ current' = [current EXCEPT !.left = TTL, !.armed = TRUE]
                \/ current' = [current EXCEPT !.left = @ - 1]
      PROVE  EntryInv'
    <2> DEFINE e == current
    <2>1. e \in Entries /\ e.armed /\ TTL \in Nat \ {0} /\ TTL \in 0..TTL
        BY <1>5, TTLAssumption DEF CoordInv, EntryInv, EntryTyped, FenceHasTimer, NoEntry
    <2>2. e.left \in 0..TTL /\ e.left > 0
        BY <1>5, <2>1 DEF Entries
    <2>3. e.left - 1 \in 0..TTL
        BY <2>1, <2>2
    <2>4. \/ current' = [e EXCEPT !.left = TTL, !.armed = TRUE]
          \/ current' = [e EXCEPT !.left = e.left - 1]
        BY <1>5
    <2> HIDE DEF e
    <2>5. PICK left \in 0..TTL : current' = [kind |-> e.kind, request |-> e.request,
              generation |-> e.generation, expects |-> e.expects, left |-> left,
              armed |-> TRUE, caller |-> e.caller]
        <3>1. CASE current' = [e EXCEPT !.left = TTL, !.armed = TRUE]
            BY <2>1, <3>1 DEF Entries
        <3>2. CASE current' = [e EXCEPT !.left = e.left - 1]
            <4> DEFINE m == e.left - 1
            <4>1. m \in 0..TTL /\ current' = [e EXCEPT !.left = m]
                BY <2>3, <3>2
            <4> HIDE DEF m
            <4> QED
                BY <2>1, <4>1 DEF Entries
        <3> QED
            BY <2>4, <3>1, <3>2
    <2>6. /\ current' \in Entries /\ current'.armed /\ current'.kind = e.kind
          /\ current'.generation = e.generation
          /\ current'.expects = e.expects /\ current'.caller = e.caller
        BY <2>1, <2>5 DEF Entries
    <2>7. e.kind = "held" /\ current' # NoEntry /\ current # NoEntry
        BY <1>5, <2>6 DEF e, NoEntry
    <2>8. /\ UNCHANGED <<suspendPhase, suspendGeneration, restartDraining, activeRootWork, origin>>
          /\ UNCHANGED <<retired, schedulerPaused>>
        BY <1>5 DEF admissionVars, fenceVars, phaseVars, rootVars
    <2>9. /\ current'.kind = current.kind /\ current'.generation = current.generation
          /\ current'.expects = current.expects /\ current'.caller = current.caller
        BY <2>6 DEF e
    <2>10. EntryTyped' /\ FenceHasTimer'
        BY <2>6, <2>7, <2>8, <2>9 DEF CoordInv, EntryInv, EntryTyped, FenceHasTimer, CanReopen
    <2>11. SchedulerPausedBehindFence' /\ SuspensionIsQuiet'
        BY <2>7, <2>8, <2>9 DEF CoordInv, EntryInv, SchedulerPausedBehindFence, SuspensionIsQuiet
    <2> QED
        BY <2>10, <2>11 DEF EntryInv
<1>6. CASE (\E r \in Requests : Renew(r)) \/ Tick
    <2>1. UNCHANGED admissionVars
        BY <1>6 DEF Renew, Tick
    <2>2. EntryInv'
        BY <1>5, <1>6 DEF Renew, Tick
    <2> QED
        BY <2>1, <2>2
<1>7. CASE DrainTakesOver
    <2>1. MarkRestartDraining /\ schedulerPaused' = schedulerPaused
        BY <1>7 DEF DrainTakesOver
    <2>2. suspendPhase' = "accepting" /\ restartDraining' = TRUE
        BY <2>1 DEF MarkRestartDraining
    <2>3. current' = NoEntry /\ (retired' = TRUE \/ (retired' = retired /\ current = NoEntry))
        BY <1>7 DEF DrainTakesOver, CoordInv, EntryInv, EntryTyped, FenceHasTimer, CanReopen, Entries
    <2>4. NoEntry.kind # "held"
        BY DEF NoEntry
    <2>5. EntryInv'
        BY <2>1, <2>2, <2>3, <2>4 DEF CoordInv, EntryInv, EntryTyped, FenceHasTimer,
           SchedulerPausedBehindFence, SuspensionIsQuiet
    <2> QED
        BY <2>1, <2>5 DEF Next
<1>8. CASE LifecycleReset
    <2>1. /\ Reset /\ suspendPhase' = "accepting"
          /\ current' = NoEntry /\ retired' = FALSE /\ schedulerPaused' = FALSE
        BY <1>8 DEF LifecycleReset, Reset
    <2>2. NoEntry.kind # "held"
        BY DEF NoEntry
    <2>3. EntryInv'
        BY <2>1, <2>2 DEF EntryInv, EntryTyped, FenceHasTimer, SchedulerPausedBehindFence,
           SuspensionIsQuiet
    <2> QED
        BY <2>1, <2>3 DEF Next
<1>9. CASE UNCHANGED vars
    <2>1. UNCHANGED admissionVars /\ UNCHANGED coordinatorVars
        BY <1>9 DEF vars
    <2>2. UNCHANGED <<suspendPhase, suspendGeneration, restartDraining, activeRootWork, origin>>
        BY <2>1 DEF admissionVars, fenceVars, phaseVars, rootVars
    <2>3. EntryInv'
        BY <2>1, <2>2 DEF CoordInv, EntryInv, EntryTyped, FenceHasTimer, CanReopen,
           SchedulerPausedBehindFence, SuspensionIsQuiet, coordinatorVars
    <2> QED
        BY <2>1, <2>3
<1> QED
    BY <1>1, <1>2, <1>3, <1>4, <1>6, <1>7, <1>8, <1>9 DEF CoordinatorNext

\* The gateway starts with no suspension and the scheduler running.
LEMMA InitHasCoordInv == CoordinatorInit => CoordInv
<1> SUFFICES ASSUME CoordinatorInit
             PROVE  CoordInv
    OBVIOUS
<1>1. IInv
    BY InitHasInv DEF CoordinatorInit
<1>2. suspendPhase = "accepting"
    BY DEF CoordinatorInit, Init
<1>3. NoEntry.kind # "held"
    BY DEF NoEntry
<1>4. EntryInv
    BY <1>2, <1>3 DEF CoordinatorInit, EntryInv, EntryTyped, FenceHasTimer,
       SchedulerPausedBehindFence, SuspensionIsQuiet
<1> QED
    BY <1>1, <1>4 DEF CoordInv

\* Every step keeps the invariant of both and is a step of the gate, or none.
LEMMA CoordinatorStepKeeps ==
    ASSUME CoordInv, [CoordinatorNext]_vars
    PROVE  CoordInv' /\ [Gate!Next]_(Gate!vars)
<1>1. (PhaseStep \/ [Next]_admissionVars) /\ EntryInv'
    BY StepKeepsEntry
<1>2. CASE PhaseStep
    BY <1>1, <1>2, PhaseStepKeepsInv, PhaseStepRefinesGate DEF CoordInv
<1>3. CASE [Next]_admissionVars
    BY <1>1, <1>3, StepKeepsInv, StepRefinesGate DEF CoordInv
<1> QED
    BY <1>1, <1>2, <1>3

\* The invariant holds in every reachable state.
LEMMA CoordInvHolds == CoordinatorSpec => []CoordInv
<1>1. CoordInv /\ [CoordinatorNext]_vars => CoordInv'
    BY CoordinatorStepKeeps
<1> QED
    BY <1>1, InitHasCoordInv, PTL DEF CoordinatorSpec

-----------------------------------------------------------------------------
(* Theorems                                                                *)

\* A closed suspension phase always has an armed entry whose lease opens the very
\* generation and phase in force, and no entry outlives its fence (enterRecovery,
\* armExpiry, invalidation by the restart, the lifecycle reset), for any number of
\* hosts and chains.
THEOREM FencesHaveTimers == CoordinatorSpec => []FenceHasTimer
<1>1. CoordInv => FenceHasTimer
    BY DEF CoordInv, EntryInv
<1> QED
    BY <1>1, CoordInvHolds, PTL

\* The scheduler is paused only behind a fence, stays paused while a suspension is
\* held, and somebody is left to resume it (resumeAndReopen, retiredForLifecycleReset).
THEOREM SchedulerFollowsFence == CoordinatorSpec => []SchedulerPausedBehindFence
<1>1. CoordInv => SchedulerPausedBehindFence
    BY DEF CoordInv, EntryInv
<1> QED
    BY <1>1, CoordInvHolds, PTL

\* Behind a suspension nothing runs but the prepare call and its continuations
\* (the snapshot of prepareGatewaySuspend against continuations that pass fences).
THEOREM SuspendedIsQuiet == CoordinatorSpec => []SuspensionIsQuiet
<1>1. CoordInv => SuspensionIsQuiet
    BY DEF CoordInv, EntryInv
<1> QED
    BY <1>1, CoordInvHolds, PTL

\* With the real holder of the suspension lease, admission still promises what it
\* does alone: nobody waits for an open gate or for one that never opens
\* (resolveSuspendOpenWaiters in every path of the coordinator that reopens).
THEOREM SuspensionWakesWaiters == CoordinatorSpec => []WaitersAreWoken
<1>1. CoordInv => WaitersAreWoken
    BY DEF CoordInv, IInv
<1> QED
    BY <1>1, CoordInvHolds, PTL

\* The coordinator leaves the books of admission as they are: roots are counted, a
\* drained process stays drained, a wait for roots has roots, and the signal fence
\* has one owner (GatewayAdmission's promises, with the real holder of the lease).
THEOREM SuspensionKeepsTheBooks ==
    CoordinatorSpec => [](/\ RootsAreCounted /\ DrainedIsFinal
                          /\ DrainWaitsForSomething /\ FenceHasOneOwner)
<1>1. CoordInv => /\ RootsAreCounted /\ DrainedIsFinal
                  /\ DrainWaitsForSomething /\ FenceHasOneOwner
    BY DEF CoordInv, IInv
<1> QED
    BY <1>1, CoordInvHolds, PTL

\* The composition is still a gate: a suspension that expires, is renewed, recovers
\* or is taken over by a restart only ever shows as a fence going up and down.
THEOREM SuspensionImplementsGate == CoordinatorSpec => ImplementsGate
<1>1. CoordinatorInit => Gate!Init
    BY DEF CoordinatorInit, Init, Gate!Init, GateState, DrainReport, Origins, Closed
<1>2. CoordInv /\ [CoordinatorNext]_vars => [Gate!Next]_(Gate!vars)
    BY CoordinatorStepKeeps
<1> QED
    BY <1>1, <1>2, CoordInvHolds, PTL DEF CoordinatorSpec, ImplementsGate, Gate!Spec

=============================================================================
