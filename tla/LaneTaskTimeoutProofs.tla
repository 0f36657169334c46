----------------------- MODULE LaneTaskTimeoutProofs -----------------------
(***************************************************************************)
(* Proofs about LaneTaskTimeout, for every timeout, grace and lag.         *)
(*                                                                         *)
(* The inductive invariant says what each armed timer knows: a progress    *)
(* timer is due no later than one budget after the last progress, and both *)
(* signals can still reach the task; an abort timer is due one grace after *)
(* the abort was seen.                                                     *)
(***************************************************************************)
EXTENDS LaneTaskTimeout, TLAPS

SignalsOffered == (aborted => options.abort) /\ (released => options.release)

OutcomeWhenEnded == outcome # "none" <=> phase = "ended"

PastInstants == startedAt <= now /\ progressAt <= now

ProgressTimer ==
    timer.kind = "progress" =>
        /\ ~aborted /\ ~released
        /\ listeners = {s \in {"abort", "release"} : options[s]}
        /\ Due(timer) <= LastProgress + TaskTimeout

AbortTimer ==
    timer.kind = "abort" =>
        /\ aborted
        /\ timer.armedAt = graceFrom /\ timer.delay = AbortGrace
        /\ "release" \in listeners => ~released
        /\ "release" \notin listeners /\ options.release => graceFrom = startedAt
        /\ "abort" \notin listeners

NotOverdue == timer # NoTimer => now <= Due(timer) + MaxLag

IInv ==
    /\ TypeOK /\ SignalsOffered /\ OutcomeWhenEnded /\ PastInstants
    /\ TimerWhileRunning /\ ProgressTimer /\ AbortTimer /\ NotOverdue

\* What a step may report, without the box of TruthfulCause.
CauseHolds ==
    outcome' # outcome =>
        CASE outcome' = "task-budget"    -> ~aborted /\ options.progress = "none"
                                            /\ now - startedAt >= TaskTimeout
          [] outcome' = "progress-idle"  -> ~aborted /\ options.progress # "none"
                                            /\ Idle >= TaskTimeout
          [] outcome' = "abort-grace"    -> aborted /\ now - graceFrom >= AbortGrace
          [] outcome' = "release-signal" -> released'
          [] OTHER                       -> outcome = "none"

\* A timer that exists is of one of the two kinds, and was armed for a while.
LEMMA TimerFacts ==
    ASSUME TypeOK
    PROVE  /\ timer # NoTimer <=> timer.kind \in {"progress", "abort"}
           /\ timer # NoTimer => timer.armedAt \in Nat /\ timer.delay \in Nat \ {0}
           /\ timer = NoTimer => timer.kind = "none"
BY DEF TypeOK, Timers, NoTimer

\* The last progress is an instant, not before the start.
LEMMA LastProgressFacts ==
    ASSUME TypeOK
    PROVE  LastProgress \in Nat /\ LastProgress >= startedAt
BY DEF TypeOK, LastProgress

\* The initial state satisfies the invariant.
LEMMA InitIInv == Init => IInv
<1> SUFFICES ASSUME Init PROVE IInv
  OBVIOUS
<1>1. SignalsOffered /\ OutcomeWhenEnded /\ PastInstants
  BY DEF Init, SignalsOffered, OutcomeWhenEnded, PastInstants
<1>2. timer = NoTimer /\ timer.kind = "none" /\ phase = "queued" /\ listeners = {}
  BY DEF Init, NoTimer
<1>3. TypeOK
  BY <1>2 DEF Init, TypeOK
<1> QED BY <1>1, <1>2, <1>3 DEF IInv, TimerWhileRunning, ProgressTimer, AbortTimer, NotOverdue

\* Ending the race clears the timer and every listener.
LEMMA EndStep ==
    ASSUME IInv, NEW how \in Causes \cup {"settled"}, End(how),
           UNCHANGED <<now, options, startedAt, progressAt, aborted, graceFrom>>,
           released' \in BOOLEAN, released' => options.release
    PROVE  IInv'
<1>1. TypeOK'
  BY DEF IInv, TypeOK, End
<1>2. timer' = NoTimer /\ timer'.kind = "none" /\ listeners' = {} /\ phase' = "ended"
  BY DEF End, NoTimer
<1>3. SignalsOffered' /\ OutcomeWhenEnded' /\ PastInstants'
  BY DEF IInv, SignalsOffered, OutcomeWhenEnded, PastInstants, End, Causes
<1> QED BY <1>1, <1>2, <1>3 DEF IInv, TimerWhileRunning, ProgressTimer, AbortTimer, NotOverdue

\* Starting a task arms a timer, unless its release was already requested.
LEMMA StartStep ==
    ASSUME IInv, Start
    PROVE  IInv' /\ CauseHolds
<1>1. CASE released
  <2>1. phase' = "ended" /\ outcome' = "release-signal" /\ timer' = timer
        /\ listeners' = listeners /\ startedAt' = now
        /\ UNCHANGED <<now, options, progressAt, aborted, released, graceFrom>>
    BY <1>1 DEF Start, signals
  <2>2. timer = NoTimer /\ listeners = {} /\ timer.kind = "none"
    BY DEF Start, IInv, TimerWhileRunning, NoTimer
  <2>3. TypeOK'
    BY <2>1, <2>2 DEF IInv, TypeOK, Causes
  <2>4. SignalsOffered' /\ OutcomeWhenEnded' /\ PastInstants' /\ CauseHolds
    BY <1>1, <2>1 DEF IInv, SignalsOffered, OutcomeWhenEnded, PastInstants, TypeOK, CauseHolds
  <2> QED BY <2>1, <2>2, <2>3, <2>4
          DEF IInv, TimerWhileRunning, ProgressTimer, AbortTimer, NotOverdue
<1>2. CASE ~released /\ aborted
  <2>1. phase' = "running" /\ timer' = Armed("abort", AbortGrace) /\ startedAt' = now
        /\ graceFrom' = now
        /\ UNCHANGED <<now, options, progressAt, aborted, released, outcome, listeners>>
    BY <1>2 DEF Start, signals
  <2>2. listeners = {}
    BY DEF Start, IInv, TimerWhileRunning
  <2>3. timer' = [kind |-> "abort", armedAt |-> now, delay |-> AbortGrace]
    BY <2>1 DEF Armed
  <2>4. TypeOK'
    BY <2>1, <2>3, TimingAssumption DEF IInv, TypeOK, Timers
  <2>5. SignalsOffered' /\ OutcomeWhenEnded' /\ PastInstants' /\ CauseHolds
    BY <1>2, <2>1 DEF IInv, SignalsOffered, OutcomeWhenEnded, PastInstants, TypeOK, CauseHolds, Start
  <2>6. timer' # NoTimer /\ NotOverdue'
    BY <2>1, <2>3, TimingAssumption DEF NotOverdue, NoTimer, Due, IInv, TypeOK
  <2> QED BY <1>2, <2>1, <2>2, <2>3, <2>4, <2>5, <2>6
          DEF IInv, TimerWhileRunning, ProgressTimer, AbortTimer
<1>3. CASE ~released /\ ~aborted
  <2>1. phase' = "running" /\ timer' = Armed("progress", TaskTimeout) /\ startedAt' = now
        /\ listeners' = {s \in {"abort", "release"} : options[s]}
        /\ UNCHANGED <<now, options, progressAt, aborted, released, outcome, graceFrom>>
    BY <1>3 DEF Start, signals
  <2>2. timer' = [kind |-> "progress", armedAt |-> now, delay |-> TaskTimeout]
    BY <2>1 DEF Armed
  <2>3. TypeOK'
    BY <2>1, <2>2, TimingAssumption DEF IInv, TypeOK, Timers
  <2>4. SignalsOffered' /\ OutcomeWhenEnded' /\ PastInstants' /\ CauseHolds
    BY <1>3, <2>1 DEF IInv, SignalsOffered, OutcomeWhenEnded, PastInstants, TypeOK, CauseHolds, Start
  <2>5. timer' # NoTimer /\ NotOverdue'
    BY <2>1, <2>2, TimingAssumption DEF NotOverdue, NoTimer, Due, IInv, TypeOK
  <2>6. Due(timer)' <= LastProgress' + TaskTimeout
    BY <2>1, <2>2, TimingAssumption DEF Due, LastProgress, IInv, TypeOK
  <2> QED BY <1>3, <2>1, <2>2, <2>3, <2>4, <2>5, <2>6
          DEF IInv, TimerWhileRunning, ProgressTimer, AbortTimer
<1> QED BY <1>1, <1>2, <1>3 DEF IInv, TypeOK

\* An abort during the run swaps the progress timer for the grace.
LEMMA AbortStep ==
    ASSUME IInv, Abort
    PROVE  IInv' /\ CauseHolds
<1>1. options.abort /\ ~aborted /\ aborted'
      /\ UNCHANGED <<now, options, phase, outcome, startedAt, progressAt, released>>
  BY DEF Abort
<1>2. timer.kind # "abort"
  BY <1>1 DEF IInv, AbortTimer
<1>3. CASE "abort" \in listeners
  <2>1. timer' = [kind |-> "abort", armedAt |-> now, delay |-> AbortGrace]
        /\ graceFrom' = now /\ listeners' = listeners \ {"abort"}
    BY <1>3 DEF Abort, Armed
  <2>2. phase = "running" /\ timer.kind = "progress"
    BY <1>2, <1>3, TimerFacts DEF IInv, TimerWhileRunning
  <2>3. TypeOK'
    BY <1>1, <2>1, TimingAssumption DEF IInv, TypeOK, Timers
  <2>4. SignalsOffered' /\ OutcomeWhenEnded' /\ PastInstants' /\ CauseHolds
    BY <1>1 DEF IInv, SignalsOffered, OutcomeWhenEnded, PastInstants, TypeOK, CauseHolds
  <2>5. timer' # NoTimer /\ NotOverdue'
    BY <1>1, <2>1, TimingAssumption DEF NotOverdue, NoTimer, Due, IInv, TypeOK
  <2>6. ~released /\ listeners = {s \in {"abort", "release"} : options[s]}
    BY <2>2 DEF IInv, ProgressTimer
  <2>7. AbortTimer'
    BY <1>1, <2>1, <2>6 DEF AbortTimer
  <2> QED BY <1>1, <2>1, <2>2, <2>3, <2>4, <2>5, <2>7 DEF IInv, TimerWhileRunning, ProgressTimer
<1>4. CASE "abort" \notin listeners
  <2>1. UNCHANGED <<graceFrom, timer, listeners>>
    BY <1>4 DEF Abort
  <2>2. timer.kind # "progress"
    BY <1>1, <1>4 DEF IInv, ProgressTimer
  <2>3. timer = NoTimer /\ timer.kind = "none" /\ phase # "running"
    BY <1>2, <2>2, TimerFacts DEF IInv, TimerWhileRunning
  <2>4. TypeOK'
    BY <1>1, <2>1 DEF IInv, TypeOK
  <2>5. SignalsOffered' /\ OutcomeWhenEnded' /\ PastInstants' /\ CauseHolds
    BY <1>1 DEF IInv, SignalsOffered, OutcomeWhenEnded, PastInstants, TypeOK, CauseHolds
  <2> QED BY <1>1, <2>1, <2>3, <2>4, <2>5
          DEF IInv, TimerWhileRunning, ProgressTimer, AbortTimer, NotOverdue
<1> QED BY <1>3, <1>4

\* A release ends the run, or finds nobody listening.
LEMMA ReleaseStep ==
    ASSUME IInv, Release
    PROVE  IInv' /\ CauseHolds
<1>1. options.release /\ ~released /\ released'
      /\ UNCHANGED <<now, options, startedAt, progressAt, aborted, graceFrom>>
  BY DEF Release
<1>2. CASE "release" \in listeners
  <2>1. End("release-signal")
    BY <1>2 DEF Release
  <2>2. CauseHolds
    BY <1>1, <2>1 DEF CauseHolds, End
  <2> QED BY <1>1, <2>1, <2>2, EndStep DEF Causes
<1>3. CASE "release" \notin listeners
  <2>1. UNCHANGED <<phase, outcome, timer, listeners>>
    BY <1>3 DEF Release
  <2>2. timer.kind # "progress"
    BY <1>1, <1>3 DEF IInv, ProgressTimer
  <2>3. TypeOK' /\ CauseHolds
    BY <1>1, <2>1 DEF IInv, TypeOK, CauseHolds
  <2>4. SignalsOffered' /\ OutcomeWhenEnded' /\ PastInstants' /\ NotOverdue'
    BY <1>1, <2>1 DEF IInv, SignalsOffered, OutcomeWhenEnded, PastInstants, TypeOK, NotOverdue, Due
  <2>5. AbortTimer'
    BY <1>1, <1>3, <2>1 DEF IInv, AbortTimer
  <2> QED BY <2>1, <2>2, <2>3, <2>4, <2>5 DEF IInv, TimerWhileRunning, ProgressTimer
<1> QED BY <1>2, <1>3

\* A due progress timer ends an idle task and re-arms for the rest otherwise.
LEMMA ProgressTimerStep ==
    ASSUME IInv, ProgressTimerFires
    PROVE  IInv' /\ CauseHolds
<1>1. timer.kind = "progress" /\ Due(timer) <= now
      /\ UNCHANGED <<now, options, startedAt, progressAt, aborted, released, graceFrom>>
  BY DEF ProgressTimerFires, TimerDue, signals
<1>2. ~aborted /\ phase = "running" /\ outcome = "none" /\ now \in Nat /\ startedAt \in Nat
  BY <1>1, TimerFacts DEF IInv, ProgressTimer, TimerWhileRunning, OutcomeWhenEnded, TypeOK
<1>3. CASE Idle >= TaskTimeout
  <2> DEFINE how == IF options.progress = "none" THEN "task-budget" ELSE "progress-idle"
  <2>1. End(how)
    BY <1>3 DEF ProgressTimerFires
  <2>2. options.progress = "none" => LastProgress = startedAt
    BY DEF LastProgress
  <2>3. CauseHolds
    BY <1>2, <1>3, <2>1, <2>2 DEF CauseHolds, End, Idle
  <2> QED BY <1>1, <2>1, <2>3, EndStep DEF Causes, IInv, TypeOK, SignalsOffered
<1>4. CASE ~(Idle >= TaskTimeout)
  <2>1. timer' = [kind |-> "progress", armedAt |-> now, delay |-> TaskTimeout - Idle]
        /\ UNCHANGED <<phase, outcome, listeners>>
    BY <1>4 DEF ProgressTimerFires, Armed
  <2>2. LastProgress \in Nat /\ LastProgress' = LastProgress
    BY <1>1, LastProgressFacts DEF IInv, LastProgress
  <2>3. TaskTimeout - Idle \in Nat \ {0} /\ now + (TaskTimeout - Idle) = LastProgress + TaskTimeout
    BY <1>2, <1>4, <2>2, TimingAssumption DEF Idle
  <2>4. TypeOK'
    BY <1>1, <2>1, <2>3 DEF IInv, TypeOK, Timers
  <2>5. timer' # NoTimer /\ Due(timer)' = LastProgress + TaskTimeout
    BY <2>1, <2>3 DEF NoTimer, Due
  <2>6. NotOverdue'
    BY <1>1, <1>2, <2>1, <2>3, <2>5, TimingAssumption DEF NotOverdue, Due
  <2>7. ProgressTimer' /\ AbortTimer'
    BY <1>1, <2>1, <2>2, <2>3, <2>5, TimingAssumption DEF IInv, ProgressTimer, AbortTimer
  <2>8. SignalsOffered' /\ OutcomeWhenEnded' /\ PastInstants' /\ CauseHolds
    BY <1>1, <2>1 DEF IInv, SignalsOffered, OutcomeWhenEnded, PastInstants, TypeOK, CauseHolds
  <2> QED BY <1>2, <2>1, <2>4, <2>5, <2>6, <2>7, <2>8 DEF IInv, TimerWhileRunning
<1>5. Idle >= TaskTimeout \/ ~(Idle >= TaskTimeout)
  OBVIOUS
<1> QED BY <1>3, <1>4, <1>5

\* A due abort timer ends the task after its whole grace.
LEMMA AbortTimerStep ==
    ASSUME IInv, AbortTimerFires
    PROVE  IInv' /\ CauseHolds
<1>1. timer.kind = "abort" /\ Due(timer) <= now /\ End("abort-grace")
      /\ UNCHANGED <<now, options, startedAt, progressAt, aborted, released, graceFrom>>
  BY DEF AbortTimerFires, TimerDue, signals
<1>2. aborted /\ now - graceFrom >= AbortGrace
  BY <1>1, TimingAssumption DEF IInv, AbortTimer, Due, TypeOK
<1>3. CauseHolds
  BY <1>1, <1>2 DEF CauseHolds, End
<1> QED BY <1>1, <1>3, EndStep DEF Causes, IInv, TypeOK, SignalsOffered

\* Progress never brings the deadline of a running task closer.
LEMMA NoteProgressStep ==
    ASSUME IInv, NoteProgress
    PROVE  IInv' /\ CauseHolds
<1>1. progressAt' = now
      /\ UNCHANGED <<now, options, phase, outcome, startedAt, aborted, released,
                     graceFrom, listeners, timer>>
  BY DEF NoteProgress, signals
<1>2. TypeOK' /\ CauseHolds
  BY <1>1 DEF IInv, TypeOK, CauseHolds
<1> QED
  <2>1. ASSUME timer.kind = "progress"
        PROVE  Due(timer) <= LastProgress' + TaskTimeout
    <3>1. now \in Nat /\ progressAt \in Nat /\ startedAt \in Nat
      BY DEF IInv, TypeOK
    <3>2. CASE now >= LastProgress
      <4>1. LastProgress' >= LastProgress
        BY <1>1, <3>1, <3>2 DEF LastProgress, NoteProgress
      <4>2. LastProgress \in Nat /\ LastProgress' \in Nat /\ Due(timer) \in Nat
        BY <1>2, <2>1, LastProgressFacts, TimerFacts, <1>1 DEF IInv, Due, LastProgress, TypeOK
      <4> QED BY <2>1, <4>1, <4>2, TimingAssumption DEF IInv, ProgressTimer
    <3>3. LastProgress <= now
      BY DEF IInv, PastInstants, LastProgress
    <3> QED BY <3>2, <3>3
  <2> QED BY <1>1, <1>2, <2>1 DEF IInv, SignalsOffered, OutcomeWhenEnded, PastInstants, TypeOK,
             TimerWhileRunning, ProgressTimer, AbortTimer, NotOverdue, Due

\* Time passes only up to MaxLag after a timer was due.
LEMMA TickStep ==
    ASSUME IInv, Tick
    PROVE  IInv' /\ CauseHolds
<1>1. now' = now + 1 /\ (timer # NoTimer => now < Due(timer) + MaxLag)
      /\ UNCHANGED <<options, phase, outcome, startedAt, progressAt, aborted, released,
                     graceFrom, listeners, timer>>
  BY DEF Tick, signals
<1>2. TypeOK' /\ CauseHolds
  BY <1>1 DEF IInv, TypeOK, CauseHolds
<1>3. SignalsOffered' /\ OutcomeWhenEnded' /\ PastInstants'
  BY <1>1 DEF IInv, SignalsOffered, OutcomeWhenEnded, PastInstants, TypeOK
<1>4. NotOverdue'
  BY <1>1, TimerFacts, TimingAssumption DEF IInv, TypeOK, NotOverdue, Due
<1>5. ProgressTimer' /\ AbortTimer' /\ TimerWhileRunning'
  BY <1>1 DEF IInv, ProgressTimer, AbortTimer, TimerWhileRunning, Due, LastProgress
<1> QED BY <1>2, <1>3, <1>4, <1>5 DEF IInv

\* Every step preserves the invariant and reports no false cause.
LEMMA NextStep ==
    ASSUME IInv, [Next]_vars
    PROVE  IInv' /\ [CauseHolds]_vars
<1>1. CASE TaskSettles
  <2>1. /\ phase = "running" /\ End("settled")
        /\ UNCHANGED <<now, options, startedAt, progressAt, aborted, released, graceFrom>>
    BY <1>1 DEF TaskSettles, signals
  <2>2. CauseHolds
    BY <2>1 DEF CauseHolds, End, IInv, OutcomeWhenEnded
  <2> QED BY <2>1, <2>2, EndStep DEF IInv, TypeOK, SignalsOffered
<1>2. CASE UNCHANGED vars
  <2>1. UNCHANGED <<now, options, phase, outcome, startedAt, progressAt, aborted, released,
                    graceFrom, listeners, timer>>
    BY <1>2 DEF vars, signals
  <2>2. TypeOK' /\ SignalsOffered' /\ OutcomeWhenEnded' /\ PastInstants'
    BY <2>1 DEF IInv, TypeOK, SignalsOffered, OutcomeWhenEnded, PastInstants
  <2>3. TimerWhileRunning' /\ ProgressTimer' /\ AbortTimer' /\ NotOverdue'
    BY <2>1 DEF IInv, TimerWhileRunning, ProgressTimer, AbortTimer, NotOverdue, Due, LastProgress
  <2> QED BY <1>2, <2>2, <2>3 DEF IInv
<1> QED BY <1>1, <1>2, StartStep, AbortStep, ReleaseStep, NoteProgressStep,
           ProgressTimerStep, AbortTimerStep, TickStep DEF Next

\* The invariant holds in every reachable state.
THEOREM InductiveInvariant == Spec => []IInv
<1>1. Init => IInv
  BY InitIInv
<1>2. IInv /\ [Next]_vars => IInv'
  BY NextStep
<1> QED BY <1>1, <1>2, PTL DEF Spec

\* Every variable of the timed task keeps its type.
THEOREM TaskTyped == Spec => []TypeOK
<1>1. IInv => TypeOK
  BY DEF IInv
<1> QED BY <1>1, InductiveInvariant, PTL

\* A timer is armed exactly while the task runs (armTimer, the finally block of
\* runQueueEntryTask).
THEOREM TimersEndWithTheTask == Spec => []TimerWhileRunning
<1>1. IInv => TimerWhileRunning
  BY DEF IInv
<1> QED BY <1>1, InductiveInvariant, PTL

\* No timed task outstays its deadline by more than the lag of the timers
\* (armProgressTimeout, armAbortTimeout).
THEOREM DeadlinesHold == Spec => []HeldWithinDeadline
<1>1. ASSUME IInv
      PROVE  HeldWithinDeadline
  <2> SUFFICES ASSUME phase = "running"
               PROVE  now <= MaxLag + (IF aborted THEN graceFrom + AbortGrace
                                       ELSE LastProgress + TaskTimeout)
    BY DEF HeldWithinDeadline
  <2>1. timer # NoTimer /\ now <= Due(timer) + MaxLag /\ now \in Nat
    BY <1>1 DEF IInv, TimerWhileRunning, NotOverdue, TypeOK
  <2>2. LastProgress \in Nat /\ graceFrom \in Nat /\ Due(timer) \in Nat
    BY <1>1, <2>1, LastProgressFacts, TimerFacts DEF IInv, TypeOK, Due
  <2>3. CASE timer.kind = "progress"
    BY <1>1, <2>1, <2>2, <2>3, TimingAssumption DEF IInv, ProgressTimer
  <2>4. CASE timer.kind = "abort"
    <3>1. aborted /\ Due(timer) = graceFrom + AbortGrace
      BY <1>1, <2>4 DEF IInv, AbortTimer, Due
    <3> QED BY <2>1, <2>2, <3>1, TimingAssumption
  <2> QED BY <1>1, <2>1, <2>3, <2>4, TimerFacts DEF IInv
<1> QED BY <1>1, InductiveInvariant, PTL

\* A release request during the run is honoured at once (onRelease).
THEOREM ReleasesAreHonoured == Spec => []ReleaseBeatsGrace
<1>1. ASSUME IInv
      PROVE  ReleaseBeatsGrace
  <2>1. timer.kind = "progress" => ~released
    BY <1>1 DEF IInv, ProgressTimer
  <2>2. phase = "running" => timer.kind \in {"progress", "abort"}
    BY <1>1, TimerFacts DEF IInv, TimerWhileRunning
  <2> QED BY <1>1, <2>1, <2>2 DEF IInv, AbortTimer, SignalsOffered, ReleaseBeatsGrace
<1> QED BY <1>1, InductiveInvariant, PTL

\* The cause a timed out caller is told is true when it is told.
THEOREM CausesAreTruthful == Spec => TruthfulCause
<1>1. IInv /\ [Next]_vars =>
        [outcome' # outcome =>
            CASE outcome' = "task-budget"    -> ~aborted /\ options.progress = "none"
                                                /\ now - startedAt >= TaskTimeout
              [] outcome' = "progress-idle"  -> ~aborted /\ options.progress # "none"
                                                /\ Idle >= TaskTimeout
              [] outcome' = "abort-grace"    -> aborted /\ now - graceFrom >= AbortGrace
              [] outcome' = "release-signal" -> released'
              [] OTHER                       -> outcome = "none"]_vars
  BY NextStep DEF CauseHolds
<1> QED BY <1>1, InductiveInvariant, PTL DEF Spec, TruthfulCause

=============================================================================
