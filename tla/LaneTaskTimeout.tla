-------------------------- MODULE LaneTaskTimeout --------------------------
(***************************************************************************)
(* How one timed task gives up its lane slot                               *)
(* (src/process/command-queue.ts, runQueueEntryTask).                      *)
(*                                                                         *)
(* A task enqueued with taskTimeoutMs races against a timeout promise that *)
(* four things can reject: its budget, a lack of progress, a grace period  *)
(* after its abort signal, and its release signal.  CommandQueue has one   *)
(* action (TimeOut) for all of them; this module has the timer, the two    *)
(* signals and the order in which their listeners are attached.            *)
(*                                                                         *)
(* Time is discrete.  A timer fires at its due time or up to MaxLag later, *)
(* which is how late a busy event loop may run it.                         *)
(***************************************************************************)
EXTENDS Integers

CONSTANTS
    TaskTimeout,      \* taskTimeoutMs, normalised
    AbortGrace,       \* taskTimeoutAbortGraceMs, normalised
    MaxLag,           \* bound: how late the event loop runs a due timer
    Horizon           \* bound: the last instant

ASSUME TimingAssumption ==
    /\ TaskTimeout \in Nat \ {0}
    /\ AbortGrace \in Nat \ {0}
    /\ MaxLag \in Nat
    /\ Horizon \in Nat

VARIABLES
    now,
    options,          \* what the caller passed with the enqueue
    phase,            \* "queued", "running" (in its slot) or "ended"
    outcome,          \* how the race ended: "settled" or a timeout cause
    startedAt,        \* startedAtMs
    progressAt,       \* what taskTimeoutProgressAtMs reports
    aborted,          \* taskTimeoutAbortSignal.aborted
    released,         \* taskTimeoutReleaseSignal.aborted
    graceFrom,        \* abortStartedAtMs
    listeners,        \* abort listeners attached to the two signals
    timer             \* timeoutHandle

signals == <<aborted, released>>
vars == <<now, options, phase, outcome, startedAt, progressAt, signals,
          graceFrom, listeners, timer>>

Options == [progress : {"none", "tracked", "throws"}, abort : BOOLEAN, release : BOOLEAN]
Causes == {"task-budget", "progress-idle", "abort-grace", "release-signal"}
NoTimer == [kind |-> "none", armedAt |-> 0, delay |-> 0]
Timers == [kind : {"progress", "abort"}, armedAt : Nat, delay : Nat \ {0}]

TypeOK ==
    /\ now \in Nat
    /\ options \in Options
    /\ phase \in {"queued", "running", "ended"}
    /\ outcome \in Causes \cup {"none", "settled"}
    /\ startedAt \in Nat /\ progressAt \in Nat /\ graceFrom \in Nat
    /\ aborted \in BOOLEAN /\ released \in BOOLEAN
    /\ listeners \subseteq {"abort", "release"}
    /\ timer \in Timers \cup {NoTimer}

----------------------------------------------------------------------------
\* readLastProgressAtMs: a callback that is missing or throws counts as the start.
LastProgress ==
    IF options.progress = "tracked" /\ progressAt > startedAt THEN progressAt ELSE startedAt

Idle == now - LastProgress

Armed(kind, delay) == [kind |-> kind, armedAt |-> now, delay |-> delay]
Due(t) == t.armedAt + t.delay

\* The race is decided; the finally block clears the timer and the listeners.
End(how) ==
    /\ phase' = "ended"
    /\ outcome' = how
    /\ timer' = NoTimer
    /\ listeners' = {}

Init ==
    /\ now = 0
    /\ options \in Options
    /\ phase = "queued" /\ outcome = "none"
    /\ startedAt = 0 /\ progressAt = 0 /\ graceFrom = 0
    /\ aborted = FALSE /\ released = FALSE
    /\ listeners = {} /\ timer = NoTimer

\* The timeout promise is constructed in one go, before the task body runs.
\* A release already requested rejects at once; an abort already requested arms
\* the grace timer and returns, with no listener attached.
Start ==
    /\ phase = "queued"
    /\ startedAt' = now
    /\ \/ /\ released
          /\ phase' = "ended" /\ outcome' = "release-signal"
          /\ UNCHANGED <<graceFrom, listeners, timer>>
       \/ /\ ~released /\ aborted
          /\ phase' = "running"
          /\ graceFrom' = now
          /\ timer' = Armed("abort", AbortGrace)
          /\ UNCHANGED <<outcome, listeners>>
       \/ /\ ~released /\ ~aborted
          /\ phase' = "running"
          /\ timer' = Armed("progress", TaskTimeout)
          /\ listeners' = {s \in {"abort", "release"} : options[s]}
          /\ UNCHANGED <<outcome, graceFrom>>
    /\ UNCHANGED <<now, options, progressAt, signals>>

\* The task promise settles first.
TaskSettles ==
    /\ phase = "running"
    /\ End("settled")
    /\ UNCHANGED <<now, options, startedAt, progressAt, signals, graceFrom>>

\* The caller reports progress (noteLaneTaskProgress).
NoteProgress ==
    /\ options.progress = "tracked" /\ phase # "ended"
    /\ progressAt' = now
    /\ UNCHANGED <<now, options, phase, outcome, startedAt, signals, graceFrom,
                   listeners, timer>>

\* A mutant: onAbort detaches both listeners.
AbortDetachesAll ==
    /\ options.abort /\ ~aborted
    /\ aborted' = TRUE
    /\ IF "abort" \in listeners
       THEN /\ graceFrom' = now
            /\ timer' = Armed("abort", AbortGrace)
            /\ listeners' = {}
       ELSE UNCHANGED <<graceFrom, timer, listeners>>
    /\ UNCHANGED <<now, options, phase, outcome, startedAt, progressAt, released>>

\* The caller aborts the task: onAbort replaces the progress timer by the grace.
Abort ==
    /\ options.abort /\ ~aborted
    /\ aborted' = TRUE
    /\ IF "abort" \in listeners
       THEN /\ graceFrom' = now
            /\ timer' = Armed("abort", AbortGrace)
            /\ listeners' = listeners \ {"abort"}
       ELSE UNCHANGED <<graceFrom, timer, listeners>>
    /\ UNCHANGED <<now, options, phase, outcome, startedAt, progressAt, released>>

\* The caller asks for the slot back: onRelease.
Release ==
    /\ options.release /\ ~released
    /\ released' = TRUE
    /\ IF "release" \in listeners
       THEN End("release-signal")
       ELSE UNCHANGED <<phase, outcome, timer, listeners>>
    /\ UNCHANGED <<now, options, startedAt, progressAt, aborted, graceFrom>>

TimerDue(kind) == timer.kind = kind /\ Due(timer) <= now

\* Mutants: the timer waits a whole budget again; it does not look at progress;
\* it times out only past the budget, so it may re-arm with no time left.
ProgressTimerWaitsAgain ==
    /\ TimerDue("progress")
    /\ IF Idle >= TaskTimeout
       THEN End(IF options.progress = "none" THEN "task-budget" ELSE "progress-idle")
       ELSE /\ timer' = Armed("progress", TaskTimeout)
            /\ UNCHANGED <<phase, outcome, listeners>>
    /\ UNCHANGED <<now, options, startedAt, progressAt, signals, graceFrom>>

ProgressTimerBlind ==
    /\ TimerDue("progress")
    /\ End(IF options.progress = "none" THEN "task-budget" ELSE "progress-idle")
    /\ UNCHANGED <<now, options, startedAt, progressAt, signals, graceFrom>>

\* armProgressTimeout as the timer's callback: time out, or wait for the rest.
ProgressTimerFires ==
    /\ TimerDue("progress")
    /\ IF Idle >= TaskTimeout
       THEN End(IF options.progress = "none" THEN "task-budget" ELSE "progress-idle")
       ELSE /\ timer' = Armed("progress", TaskTimeout - Idle)
            /\ UNCHANGED <<phase, outcome, listeners>>
    /\ UNCHANGED <<now, options, startedAt, progressAt, signals, graceFrom>>

\* armAbortTimeout's callback.
AbortTimerFires ==
    /\ TimerDue("abort")
    /\ End("abort-grace")
    /\ UNCHANGED <<now, options, startedAt, progressAt, signals, graceFrom>>

\* Time passes, but no further than MaxLag past the due time of the timer.
Tick ==
    /\ now < Horizon
    /\ timer # NoTimer => now < Due(timer) + MaxLag
    /\ now' = now + 1
    /\ UNCHANGED <<options, phase, outcome, startedAt, progressAt, signals, graceFrom,
                   listeners, timer>>

Next ==
    \/ Start \/ TaskSettles \/ NoteProgress
    \/ Abort \/ Release
    \/ ProgressTimerFires \/ AbortTimerFires
    \/ Tick

Spec == Init /\ [][Next]_vars

----------------------------------------------------------------------------
(* Properties                                                              *)

\* A slot is never held much longer than its caller allowed: within MaxLag of
\* one budget after the last progress, and once aborted within MaxLag of the
\* grace, whatever progress the task still reports and however the timer was
\* re-armed (armTimer, armProgressTimeout, armAbortTimeout).
HeldWithinDeadline ==
    phase = "running" =>
        now <= MaxLag + (IF aborted THEN graceFrom + AbortGrace ELSE LastProgress + TaskTimeout)

\* Exactly the running task has a timer; one that ended leaves none behind to
\* reject or to keep the signals' listeners alive (the finally block).
TimerWhileRunning ==
    /\ phase = "running" <=> timer # NoTimer
    /\ phase # "running" => listeners = {}

\* The release signal frees the slot of every task whose abort signal was not
\* already set when it started: a later abort does not detach onRelease.
ReleaseBeatsGrace ==
    released /\ phase = "running" => aborted /\ graceFrom = startedAt

\* The cause the caller is told is true at the instant it is reported: no task
\* that progressed within its budget, or was aborted, is ended for idleness, and
\* no aborted task loses part of its grace (rejectForTimeout's four details).
TruthfulCause ==
    [][outcome' # outcome =>
        CASE outcome' = "task-budget"    -> ~aborted /\ options.progress = "none"
                                            /\ now - startedAt >= TaskTimeout
          [] outcome' = "progress-idle"  -> ~aborted /\ options.progress # "none"
                                            /\ Idle >= TaskTimeout
          [] outcome' = "abort-grace"    -> aborted /\ now - graceFrom >= AbortGrace
          [] outcome' = "release-signal" -> released'
          [] OTHER                       -> outcome = "none"]_vars

=============================================================================
