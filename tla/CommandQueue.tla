---------------------------- MODULE CommandQueue ----------------------------
(***************************************************************************)
(* The in-process command queue (src/process/command-queue.ts).            *)
(*                                                                         *)
(* Work is queued per lane.  A lane holds a priority-ordered queue, the    *)
(* ids of the tasks that occupy its slots, a concurrency limit and a       *)
(* generation.  Every public call and every task settlement runs to        *)
(* completion on the event loop, so each of them is one action here,       *)
(* including the pump (drainLane) it ends with.  The `draining` flag of a  *)
(* lane is true only inside that synchronous pump and is left out.         *)
(*                                                                         *)
(* An entry is identified with its `sequence` number.  It starts at most   *)
(* once, so the same number stands for its `taskId`.                       *)
(***************************************************************************)
EXTENDS Integers, FiniteSets, SequencesExt

CONSTANTS
    Lanes,            \* the command lanes ("main", "cron", "session:...", ...)
    ProbeLanes,       \* lanes isQuietProbeLane recognises
    Waiters,          \* calls to waitForActiveTasks
    Priorities,       \* resolveQueuePriority: foreground 1, normal 0, background -1
    TimedChoices,     \* whether an enqueue carries a taskTimeoutMs
    MaxConcurrency,   \* bound: largest concurrency a caller sets
    MaxEntries,       \* bound: number of enqueue calls that are accepted
    MaxGeneration     \* bound: number of resets of one lane

ASSUME ConstantsAssumption ==
    /\ ProbeLanes \subseteq Lanes
    /\ Priorities \subseteq Int
    /\ TimedChoices \subseteq BOOLEAN
    /\ MaxConcurrency \in Nat
    /\ MaxEntries \in Nat
    /\ MaxGeneration \in Nat

Ids == 1..MaxEntries

VARIABLES
    queue,            \* queue[l]: ids waiting in lane l, head first
    active,           \* active[l]: ids occupying a slot of lane l (activeTaskIds)
    maxConcurrent,    \* maxConcurrent[l]
    generation,       \* generation[l]
    nextSequence,     \* nextQueueSequence
    entry,            \* entry[i]: what enqueue i asked for
    body,             \* body[i]: the task function of entry i
    taskGeneration,   \* taskGeneration[i]: lane generation captured when i started
    promise,          \* promise[i]: what the caller of enqueue i sees
    admissionClosed,  \* isGatewaySubordinateWorkAdmissionClosed()
    waiter            \* waiter[w]: an ActiveTaskWaiter

laneVars == <<queue, active, maxConcurrent, generation>>
taskVars == <<entry, body, taskGeneration, promise>>
vars == <<laneVars, taskVars, nextSequence, admissionClosed, waiter>>

EntryType == [lane : Lanes, priority : Priorities, timed : BOOLEAN]

\* A body runs attached to its slot until it settles; after a lane timeout it
\* may keep running "late", detached from slot and promise.
BodyStates == {"none", "running", "late", "ended"}
PromiseStates == {"none", "pending", "resolved", "rejected"}
WaiterStates == {"idle", "waiting", "drained", "notDrained"}

TypeOK ==
    /\ queue \in [Lanes -> Seq(Ids)]
    /\ active \in [Lanes -> SUBSET Ids]
    /\ maxConcurrent \in [Lanes -> Nat]
    /\ generation \in [Lanes -> Nat]
    /\ nextSequence \in 1..(MaxEntries + 1)
    /\ entry \in Seq(EntryType)
    /\ Len(entry) = nextSequence - 1
    /\ body \in [Ids -> BodyStates]
    /\ taskGeneration \in [Ids -> Nat]
    /\ promise \in [Ids -> PromiseStates]
    /\ admissionClosed \in BOOLEAN
    /\ waiter \in [Waiters -> [state : WaiterStates, ids : SUBSET Ids, timed : BOOLEAN]]

----------------------------------------------------------------------------
(* Queue order and the pump                                                *)

\* findIndex's predicate: the queued entry j must stay behind the new entry i.
Behind(e, j, i) ==
    \/ e[j].priority < e[i].priority
    \/ e[j].priority = e[i].priority /\ j > i

\* Mutant: push without looking for the entry's place.
InsertIndexAtTail(e, q, i) == Len(q) + 1

InsertIndex(e, q, i) ==
    CHOOSE k \in 1..(Len(q) + 1) :
        /\ k = Len(q) + 1 \/ Behind(e, q[k], i)
        /\ \A n \in 1..(k - 1) : ~Behind(e, q[n], i)

InsertEntry(e, q, i) == InsertAt(q, InsertIndex(e, q, i), i)

\* The while loop of pump: entries leave the head while the lane has room.
Room(a, m) == IF Cardinality(a) < m THEN m - Cardinality(a) ELSE 0
Taken(q, a, m) == IF Len(q) < Room(a, m) THEN Len(q) ELSE Room(a, m)
Started(q, a, m) == {q[k] : k \in 1..Taken(q, a, m)}
Remaining(q, a, m) == SubSeq(q, Taken(q, a, m) + 1, Len(q))

\* drainLane on every lane of L, from lane contents q, a, limits m and
\* generations g; e and b are entry and body as the caller leaves them.
DrainLanes(L, q, a, m, g, e, b) ==
    LET started(l) == IF l \in L THEN Started(q[l], a[l], m[l]) ELSE {}
    IN  /\ queue' = [l \in Lanes |->
                        IF l \in L THEN Remaining(q[l], a[l], m[l]) ELSE q[l]]
        /\ active' = [l \in Lanes |-> a[l] \cup started(l)]
        /\ body' = [i \in Ids |->
                        IF \E l \in L : i \in started(l) THEN "running" ELSE b[i]]
        /\ taskGeneration' = [i \in Ids |->
                        IF \E l \in L : i \in started(l)
                        THEN g[e[i].lane] ELSE taskGeneration[i]]

\* Mutant: nobody calls notify.
NotifiedNever(a) == waiter

\* notifyActiveTaskWaiters, given the lanes' active sets.
Notified(a) ==
    [w \in Waiters |->
        IF waiter[w].state = "waiting" /\ \A l \in Lanes : waiter[w].ids \cap a[l] = {}
        THEN [waiter[w] EXCEPT !.state = "drained"]
        ELSE waiter[w]]

\* isCommandLaneTaskMarkerCurrent for the marker handed to task i.
MarkerCurrent(i) ==
    LET l == entry[i].lane
    IN  generation[l] = taskGeneration[i] /\ i \in active[l]

----------------------------------------------------------------------------
Init ==
    /\ queue = [l \in Lanes |-> <<>>]
    /\ active = [l \in Lanes |-> {}]
    /\ maxConcurrent = [l \in Lanes |-> 1]
    /\ generation = [l \in Lanes |-> 0]
    /\ nextSequence = 1
    /\ entry = <<>>
    /\ body = [i \in Ids |-> "none"]
    /\ taskGeneration = [i \in Ids |-> 0]
    /\ promise = [i \in Ids |-> "none"]
    /\ admissionClosed = FALSE
    /\ waiter = [w \in Waiters |-> [state |-> "idle", ids |-> {}, timed |-> FALSE]]

\* enqueueCommandInLane.  A call made while admission is closed returns a
\* rejected promise and changes nothing, so it is a stuttering step.
Enqueue(l, p, t) ==
    LET i == nextSequence
        entries == Append(entry, [lane |-> l, priority |-> p, timed |-> t])
    IN  /\ ~admissionClosed
        /\ nextSequence <= MaxEntries
        /\ nextSequence' = nextSequence + 1
        /\ entry' = entries
        /\ promise' = [promise EXCEPT ![i] = "pending"]
        /\ DrainLanes({l}, [queue EXCEPT ![l] = InsertEntry(entries, @, i)],
                      active, maxConcurrent, generation, entries, body)
        /\ UNCHANGED <<maxConcurrent, generation, admissionClosed, waiter>>

\* The async wrapper drainLane puts around runQueueEntryTask, from the moment
\* the task or its lane timer settles: completeTask frees the slot only for
\* the generation that handed it out, then waiters are told and the lane is
\* pumped; the caller's promise settles in either case.
SettleTask(i, bodyState, outcome) ==
    LET l == entry[i].lane
        freed == [active EXCEPT ![l] = @ \ {i}]
        ended == [body EXCEPT ![i] = bodyState]
    IN  /\ body[i] = "running"
        /\ promise' = [promise EXCEPT ![i] = outcome]
        /\ IF taskGeneration[i] = generation[l]
           THEN /\ waiter' = Notified(freed)
                /\ DrainLanes({l}, queue, freed, maxConcurrent, generation, entry, ended)
           ELSE /\ body' = ended
                /\ UNCHANGED <<queue, active, taskGeneration, waiter>>
        /\ UNCHANGED <<maxConcurrent, generation, nextSequence, entry, admissionClosed>>

\* The task function returns or throws before its lane timer fires.
Complete(i, outcome) == SettleTask(i, "ended", outcome)

\* Mutants: the timer gives up once a reset has retired its task; the late
\* end of a timed-out task settles the promise again.
TimeOutIfCurrent(i) ==
    /\ body[i] = "running"
    /\ entry[i].timed
    /\ MarkerCurrent(i)
    /\ SettleTask(i, "late", "rejected")

LateEndSettles(i) ==
    /\ body[i] = "late"
    /\ body' = [body EXCEPT ![i] = "ended"]
    /\ promise' = [promise EXCEPT ![i] = "resolved"]
    /\ UNCHANGED <<laneVars, entry, taskGeneration, nextSequence, admissionClosed, waiter>>

\* The lane timer fires: the race rejects with CommandLaneTaskTimeoutError,
\* and the task function keeps running with nobody listening.
TimeOut(i) ==
    /\ body[i] = "running"
    /\ entry[i].timed
    /\ SettleTask(i, "late", "rejected")

\* A task that outlived its timeout finally returns or throws.
LateEnd(i) ==
    /\ body[i] = "late"
    /\ body' = [body EXCEPT ![i] = "ended"]
    /\ UNCHANGED <<laneVars, entry, taskGeneration, promise, nextSequence,
                   admissionClosed, waiter>>

\* setCommandLaneConcurrency: a probe lane keeps at least one slot, and a lane
\* set to zero is not pumped.
SetConcurrency(l, m) ==
    LET clamped == IF l \in ProbeLanes /\ m < 1 THEN 1 ELSE m
        limits == [maxConcurrent EXCEPT ![l] = clamped]
    IN  /\ maxConcurrent' = limits
        /\ DrainLanes(IF clamped > 0 THEN {l} ELSE {},
                      queue, active, limits, generation, entry, body)
        /\ UNCHANGED <<generation, nextSequence, entry, promise, admissionClosed, waiter>>

\* Mutant: the queue is emptied and its callers are left hanging.
ClearLaneSilently(l) ==
    /\ queue' = [queue EXCEPT ![l] = <<>>]
    /\ UNCHANGED <<active, maxConcurrent, generation, taskVars, nextSequence,
                   admissionClosed, waiter>>

\* clearCommandLane: every waiting entry is rejected, running ones are kept.
ClearLane(l) ==
    /\ queue' = [queue EXCEPT ![l] = <<>>]
    /\ promise' = [i \in Ids |-> IF i \in ToSet(queue[l]) THEN "rejected" ELSE promise[i]]
    /\ UNCHANGED <<active, maxConcurrent, generation, entry, body, taskGeneration,
                   nextSequence, admissionClosed, waiter>>

\* Mutants: a reset keeps the generation; a reset leaves the pump to the next
\* enqueue.
BumpedNever(L) == generation
BacklogIgnored(L) == {}

Bumped(L) == [l \in Lanes |-> IF l \in L THEN generation[l] + 1 ELSE generation[l]]
Backlog(L) == {l \in L : queue[l] # <<>>}

\* Mutant: the waiters are told before the running tasks are forgotten.
ResetLanesTellsFirst(L) ==
    LET idle == [l \in Lanes |-> IF l \in L THEN {} ELSE active[l]]
    IN  /\ \A l \in L : generation[l] < MaxGeneration
        /\ generation' = Bumped(L)
        /\ DrainLanes(Backlog(L), queue, idle, maxConcurrent, Bumped(L), entry, body)
        /\ waiter' = Notified(active)
        /\ UNCHANGED <<maxConcurrent, nextSequence, entry, promise>>

\* The reset shared by resetCommandLane and resetAllLanes: bump generations,
\* forget the running tasks, pump what is queued, then tell the waiters.
ResetLanes(L) ==
    LET idle == [l \in Lanes |-> IF l \in L THEN {} ELSE active[l]]
    IN  /\ \A l \in L : generation[l] < MaxGeneration
        /\ generation' = Bumped(L)
        /\ DrainLanes(Backlog(L), queue, idle, maxConcurrent, Bumped(L), entry, body)
        /\ waiter' = Notified(active')
        /\ UNCHANGED <<maxConcurrent, nextSequence, entry, promise>>

ResetLane(l) == ResetLanes({l}) /\ UNCHANGED admissionClosed

\* resetAllLanes also reopens work admission (resetGatewayWorkAdmission).
ResetAllLanes == ResetLanes(Lanes) /\ admissionClosed' = FALSE

\* markGatewayDraining and the suspend phases close admission; a suspend or a
\* restart fence that is rolled back opens it again.
SetAdmission(closed) ==
    /\ admissionClosed # closed
    /\ admissionClosed' = closed
    /\ UNCHANGED <<laneVars, taskVars, nextSequence, waiter>>

\* waitForActiveTasks(timeoutMs): timed is whether timeoutMs was passed, expired
\* whether it was zero or negative.
WaitForActiveTasks(w, timed, expired) ==
    LET ids == UNION {active[l] : l \in Lanes}
        answer == IF ids = {} THEN "drained"
                  ELSE IF timed /\ expired THEN "notDrained"
                  ELSE "waiting"
    IN  /\ waiter[w].state = "idle"
        /\ waiter' = [waiter EXCEPT ![w] = [state |-> answer, ids |-> ids, timed |-> timed]]
        /\ UNCHANGED <<laneVars, taskVars, nextSequence, admissionClosed>>

WaiterTimeout(w) ==
    /\ waiter[w].state = "waiting"
    /\ waiter[w].timed
    /\ waiter' = [waiter EXCEPT ![w].state = "notDrained"]
    /\ UNCHANGED <<laneVars, taskVars, nextSequence, admissionClosed>>

Next ==
    \/ \E l \in Lanes, p \in Priorities, t \in TimedChoices : Enqueue(l, p, t)
    \/ \E i \in Ids, o \in {"resolved", "rejected"} : Complete(i, o)
    \/ \E i \in Ids : TimeOut(i)
    \/ \E i \in Ids : LateEnd(i)
    \/ \E l \in Lanes, m \in 0..MaxConcurrency : SetConcurrency(l, m)
    \/ \E l \in Lanes : ClearLane(l)
    \/ \E l \in Lanes : ResetLane(l)
    \/ ResetAllLanes
    \/ \E closed \in BOOLEAN : SetAdmission(closed)
    \/ \E w \in Waiters, timed, expired \in BOOLEAN : WaitForActiveTasks(w, timed, expired)
    \/ \E w \in Waiters : WaiterTimeout(w)

Spec == Init /\ [][Next]_vars

----------------------------------------------------------------------------
(* Safety                                                                  *)

\* The slots of a lane are exactly the tasks started under its current
\* generation that have neither settled nor timed out.  A stale completion, a
\* reset in mid-flight or a lane timeout that freed the wrong slot, freed it
\* twice or leaked it would break this (completeTask, resetCommandLane).
SlotAccounting ==
    \A l \in Lanes : \A i \in Ids :
        i \in active[l] <=> /\ i < nextSequence
                            /\ entry[i].lane = l
                            /\ body[i] = "running"
                            /\ taskGeneration[i] = generation[l]

\* A lane never has waiting work and a free slot at the same time: every code
\* path that frees a slot, adds work or raises the limit pumps the lane.
NoIdleSlot ==
    \A l \in Lanes : queue[l] # <<>> => Cardinality(active[l]) >= maxConcurrent[l]

\* Each lane's queue is in priority order and, within a priority, in arrival
\* order, which is what enqueueLaneEntry's findIndex relies on and keeps.
QueueSorted ==
    \A l \in Lanes : \A m, n \in 1..Len(queue[l]) :
        m < n => Behind(entry, queue[l][n], queue[l][m])

\* A caller whose promise is pending has its entry in exactly one place: the
\* queue of its own lane before the task starts, or a running task after.
\* Nothing is lost by a clear, a reset or a timeout, and nothing runs twice.
PendingIsHeld ==
    \A i \in Ids :
        /\ promise[i] = "pending" <=>
              \/ body[i] = "running"
              \/ \E l \in Lanes : i \in ToSet(queue[l])
        /\ \A l \in Lanes : i \in ToSet(queue[l]) =>
              i < nextSequence /\ entry[i].lane = l /\ body[i] = "none"

\* A waiter that has not answered still waits for a task that holds a slot:
\* completion, timeout and both resets all notify (notifyActiveTaskWaiters).
WaiterHasReason ==
    \A w \in Waiters : waiter[w].state = "waiting" =>
        \E l \in Lanes : waiter[w].ids \cap active[l] # {}

----------------------------------------------------------------------------
(* What a step may never do                                                *)

Starts(i) == body[i] = "none" /\ body'[i] = "running"

\* An entry that starts is never behind, in priority and then in arrival, one
\* of the same lane that is left waiting (enqueueLaneEntry and pump together).
NoOvertaking ==
    [][\A l \in Lanes : \A i \in Ids : Starts(i) /\ entry'[i].lane = l =>
          \A j \in ToSet(queue'[l]) : ~Behind(entry', i, j)]_vars

\* Only a lower limit may leave a lane over its concurrency: a step that gives
\* out a slot leaves the lane within maxConcurrent.
SlotsWithinLimit ==
    [][\A l \in Lanes : ~(active'[l] \subseteq active[l]) =>
          Cardinality(active'[l]) <= maxConcurrent'[l]]_vars

\* A settled promise keeps its answer and its entry never starts afterwards:
\* not after a clear, nor when a task that timed out finally ends.
SettledIsFinal ==
    [][\A i \in Ids : promise[i] \in {"resolved", "rejected"} =>
          promise'[i] = promise[i] /\ ~Starts(i)]_vars

----------------------------------------------------------------------------
(* What the queue implements                                               *)

\* Where entry i stands for its caller.  The queue sequences, generations,
\* markers, late tasks, admission and waiters do not show.
JobState(i) ==
    IF promise[i] \in {"none", "resolved", "rejected"}
    THEN IF promise[i] = "none" THEN "new" ELSE promise[i]
    ELSE IF body[i] # "running" THEN "waiting"
    ELSE IF i \in active[entry[i].lane] THEN "holding"
    ELSE "retired"

Scheduler == INSTANCE LaneScheduler WITH
    Jobs <- Ids,
    Requests <- EntryType,
    Limits <- 0..MaxConcurrency \cup {1},
    asked <- entry,
    job <- [i \in Ids |-> JobState(i)],
    limit <- maxConcurrent

\* The queue is a lane scheduler: whatever is enqueued, settled, timed out,
\* cleared, reset or reconfigured, in any order, every call leaves each lane it
\* touched dispatched in order and within its limit, and every accepted entry
\* gets at most one outcome (command-queue.ts as a whole).
ImplementsLanes == Scheduler!Spec

----------------------------------------------------------------------------
(* Liveness                                                                *)

\* Armed timers fire: setTimeout is the only scheduling the queue relies on.
\* No fairness is assumed of task functions: they may hang forever.
Fairness ==
    /\ \A i \in Ids : WF_vars(TimeOut(i))
    /\ \A w \in Waiters : WF_vars(WaiterTimeout(w))

FairSpec == Spec /\ Fairness

\* When every task carries a lane timeout and no lane is left suspended at
\* concurrency zero, every accepted entry settles even though no task ever
\* ends by itself and lanes are reset and cleared at any moment.
TimedWorkSettles ==
    (\A l \in Lanes : <>[](maxConcurrent[l] > 0)) =>
        \A i \in Ids : promise[i] = "pending" ~> promise[i] # "pending"

\* When every task carries a lane timeout, a waiter without a timeout of its
\* own is answered too: each captured task loses its slot.
WaitersAnswered ==
    \A w \in Waiters : waiter[w].state = "waiting" ~> waiter[w].state # "waiting"

=============================================================================
