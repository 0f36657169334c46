-------------------------- MODULE GatewayAdmission --------------------------
(***************************************************************************)
(* Root work admission of the gateway process                              *)
(* (src/process/gateway-work-admission.ts).                                *)
(*                                                                         *)
(* Requests, timers and detached work run on asynchronous chains.  A chain *)
(* joins the set of active roots while admission is open; three fences can *)
(* close it: the one-way restart drain, the reversible restart-signal      *)
(* fence and a host suspension.  A chain inherits the AsyncLocalStorage    *)
(* store of the chain that spawned it, so it can outlive the root it runs  *)
(* under.  Suspension is seen here as any holder of any lease ever handed  *)
(* out calling it at any time; SuspendCoordinator has the real holder.     *)
(***************************************************************************)
EXTENDS Integers, FiniteSets

CONSTANTS
    Chains,           \* asynchronous call chains
    Emitters,         \* holders of restart-signal leases
    MaxRoots,         \* bound: roots ever admitted
    MaxGeneration     \* bound: fences closed and resets, per kind of fence

ASSUME AdmissionAssumption ==
    IsFiniteSet(Chains) /\ MaxRoots \in Nat /\ MaxGeneration \in Nat

Roots == 1..MaxRoots
NoRoot == 0

VARIABLES
    restartDraining, signalPending, signalGeneration,
    signalLease,      \* signalLease[e]: generation captured by e's rollback, 0 if none
    suspendPhase, suspendGeneration,
    created,          \* number of roots created so far
    activeRootWork,   \* set of active roots
    references,       \* references[r]
    released,         \* roots whose admission record says released
    spent,            \* active roots one of whose leases is released already
    origin,           \* origin[r]: the first root of r's line of continuations
    store,            \* store[c]: the root in c's AsyncLocalStorage
    own, retained,    \* root whose lease c has yet to release, begun or retained
    waiter,           \* waiter[c]: where c is in beginGatewayRootWorkAdmissionWhenOpen
    drain             \* the run loop's waitForActiveGatewayRootWork

fenceVars == <<restartDraining, signalPending, signalGeneration, signalLease>>
phaseVars == <<suspendPhase, suspendGeneration>>
rootVars == <<created, activeRootWork, references, released, spent, origin>>
chainVars == <<store, own, retained>>
admissionVars == <<fenceVars, phaseVars, rootVars, chainVars, waiter, drain>>

Phases == {"accepting", "preparing", "prepared"}

TypeOK ==
    /\ restartDraining \in BOOLEAN /\ signalPending \in BOOLEAN
    /\ signalGeneration \in Nat /\ signalLease \in [Emitters -> Nat]
    /\ suspendPhase \in Phases /\ suspendGeneration \in Nat
    /\ created \in 0..MaxRoots
    /\ activeRootWork \subseteq 1..created /\ released \subseteq 1..created
    /\ spent \subseteq 1..created
    /\ references \in [Roots -> Nat] /\ origin \in [Roots -> Nat]
    /\ store \in [Chains -> 0..created]
    /\ own \in [Chains -> 0..created] /\ retained \in [Chains -> 0..created]
    /\ waiter \in [Chains -> {"none", "waiting", "woken", "refused"}]
    /\ drain \in {"none", "waiting", "woken", "drained", "notDrained"}

----------------------------------------------------------------------------
\* isGatewayWorkAdmissionClosed
Closed == restartDraining \/ signalPending \/ suspendPhase # "accepting"

\* The chain runs under a root that has not been released.
Live(c) == store[c] # NoRoot /\ store[c] \notin released

Running(c) == waiter[c] \in {"none", "refused"}

\* The chain holds no root of its own.  A run nested in one that does is a chain
\* that its caller spawns and waits for.
Free(c) == Running(c) /\ own[c] = NoRoot

\* The chain is between admissions.
Idle(c) == Free(c) /\ ~Live(c)

\* Bound: every chain that waits keeps a root to be admitted with.
Waiting == {c \in Chains : waiter[c] \in {"waiting", "woken"}}
Spare == created + Cardinality(Waiting) < MaxRoots

\* resolveSuspendOpenWaiters: the waiters will look again.
Woken == [c \in Chains |-> IF waiter[c] = "waiting" THEN "woken" ELSE waiter[c]]

\* createGatewayRootWorkAdmission, with the chain running inside it.
NewRoot(c, from) ==
    /\ created < MaxRoots
    /\ created' = created + 1
    /\ activeRootWork' = activeRootWork \cup {created + 1}
    /\ references' = [references EXCEPT ![created + 1] = 1]
    /\ origin' = [origin EXCEPT ![created + 1] = IF from = NoRoot THEN @ ELSE origin[from]]
    /\ store' = [store EXCEPT ![c] = created + 1]
    /\ own' = [own EXCEPT ![c] = created + 1]
    /\ UNCHANGED <<released, spent, retained>>

Init ==
    /\ restartDraining = FALSE /\ signalPending = FALSE
    /\ signalGeneration = 0 /\ signalLease = [e \in Emitters |-> 0]
    /\ suspendPhase = "accepting" /\ suspendGeneration = 0
    /\ created = 0 /\ activeRootWork = {} /\ released = {} /\ spent = {}
    /\ references = [r \in Roots |-> 0] /\ origin = [r \in Roots |-> r]
    /\ store = [c \in Chains |-> NoRoot]
    /\ own = store /\ retained = store
    /\ waiter = [c \in Chains |-> "none"]
    /\ drain = "none"

\* tryBeginGatewayRootWorkAdmission, tryBeginGatewayIndependentRootWorkAdmission and
\* the loops that wait for them, when open.  The independent one never looks at the
\* store; the other joins a live root there, which changes nothing.
Begin(c) ==
    /\ Free(c) /\ ~Closed /\ Spare
    /\ NewRoot(c, NoRoot)
    /\ waiter' = [waiter EXCEPT ![c] = "none"]
    /\ UNCHANGED <<fenceVars, phaseVars, drain>>

\* beginGatewayRootWorkAdmissionWhenOpen and
\* runWithGatewayIndependentRootWorkAdmission, when closed.
AwaitOpen(c) ==
    /\ Free(c) /\ Closed /\ Spare
    /\ waiter' = [waiter EXCEPT ![c] = IF restartDraining THEN "refused" ELSE "waiting"]
    /\ UNCHANGED <<fenceVars, phaseVars, rootVars, chainVars, drain>>

\* A mutant: a woken waiter is admitted whatever has been closed meanwhile.
RecheckBlindly(c) ==
    /\ waiter[c] = "woken" /\ ~restartDraining
    /\ NewRoot(c, NoRoot)
    /\ waiter' = [waiter EXCEPT ![c] = "none"]
    /\ UNCHANGED <<fenceVars, phaseVars, drain>>

\* A woken waiter loops: what it waited for may be closed again by now.
Recheck(c) ==
    /\ waiter[c] = "woken"
    /\ \/ /\ ~Closed
          /\ NewRoot(c, NoRoot)
          /\ waiter' = [waiter EXCEPT ![c] = "none"]
       \/ /\ Closed
          /\ waiter' = [waiter EXCEPT ![c] = IF restartDraining THEN "refused" ELSE "waiting"]
          /\ UNCHANGED <<rootVars, chainVars>>
    /\ UNCHANGED <<fenceVars, phaseVars, drain>>

\* A mutant: a continuation is granted to a chain whose root was released.
ContinueStale(c, d) ==
    /\ store[c] # NoRoot /\ Running(c) /\ Idle(d) /\ c # d /\ Spare
    /\ NewRoot(d, store[c])
    /\ waiter' = [waiter EXCEPT ![d] = "none"]
    /\ UNCHANGED <<fenceVars, phaseVars, drain>>

\* runWithGatewayIndependentRootWorkContinuation from a live parent: a tracked
\* root of its own, whatever fence is closed.
Continue(c, d) ==
    /\ Live(c) /\ Running(c) /\ Idle(d) /\ c # d /\ Spare
    /\ NewRoot(d, store[c])
    /\ waiter' = [waiter EXCEPT ![d] = "none"]
    /\ UNCHANGED <<fenceVars, phaseVars, drain>>

\* A detached chain inherits the store without holding the root.
Spawn(c, d) ==
    /\ store[c] # NoRoot /\ Running(c) /\ Idle(d) /\ c # d
    /\ store' = [store EXCEPT ![d] = store[c]]
    /\ UNCHANGED <<fenceVars, phaseVars, rootVars, own, retained, waiter, drain>>

\* The chain ends, or leaves the store (runOutsideGatewayRootWorkAdmission).
Leave(c) ==
    /\ store[c] # NoRoot /\ Free(c) /\ retained[c] = NoRoot
    /\ store' = [store EXCEPT ![c] = NoRoot]
    /\ UNCHANGED <<fenceVars, phaseVars, rootVars, own, retained, waiter, drain>>

\* retainGatewayRootWorkAdmissionContinuation
Retain(c) ==
    /\ Live(c) /\ Running(c) /\ retained[c] = NoRoot
    /\ references' = [references EXCEPT ![store[c]] = @ + 1]
    /\ retained' = [retained EXCEPT ![c] = store[c]]
    /\ UNCHANGED <<fenceVars, phaseVars, created, activeRootWork, released, spent, origin,
                   store, own, waiter, drain>>

\* A mutant: releases do not remember that they were called.
ReleaseForgets(r, leaseReleased) ==
    /\ IF r \in released
       THEN UNCHANGED <<activeRootWork, references, released, spent, drain>>
       ELSE LET last == references[r] = 1
                left == activeRootWork \ {r}
            IN /\ references' = [references EXCEPT ![r] = @ - 1]
               /\ released' = IF last THEN released \cup {r} ELSE released
               /\ activeRootWork' = IF last THEN left ELSE activeRootWork
               /\ spent' = IF last THEN spent \ {r} ELSE spent \cup {r}
               /\ drain' = IF last /\ left = {} /\ drain = "waiting" THEN "woken" ELSE drain
    /\ UNCHANGED <<created, origin>>

\* createGatewayRootWorkRelease: the last reference ends the root and, if it was
\* the last root, wakes the drain.  Nothing happens to a retired root, nor when
\* the lease is released already.
Release(r, leaseReleased) ==
    /\ IF leaseReleased \/ r \in released
       THEN UNCHANGED <<activeRootWork, references, released, spent, drain>>
       ELSE LET last == references[r] = 1
                left == activeRootWork \ {r}
            IN /\ references' = [references EXCEPT ![r] = @ - 1]
               /\ released' = IF last THEN released \cup {r} ELSE released
               /\ activeRootWork' = IF last THEN left ELSE activeRootWork
               /\ spent' = IF last THEN spent \ {r} ELSE spent \cup {r}
               /\ drain' = IF last /\ left = {} /\ drain = "waiting" THEN "woken" ELSE drain
    /\ UNCHANGED <<created, origin>>

\* The admitted run ends; the chain may go on detached, with the store it had.
ReleaseOwn(c, detached) ==
    /\ own[c] # NoRoot
    /\ Release(own[c], FALSE)
    /\ own' = [own EXCEPT ![c] = NoRoot]
    /\ store' = IF detached THEN store ELSE [store EXCEPT ![c] = NoRoot]
    /\ UNCHANGED <<fenceVars, phaseVars, retained, waiter>>

ReleaseRetained(c) ==
    /\ retained[c] # NoRoot
    /\ Release(retained[c], FALSE)
    /\ retained' = [retained EXCEPT ![c] = NoRoot]
    /\ UNCHANGED <<fenceVars, phaseVars, store, own, waiter>>

\* A release function is called once more, while other leases keep the root.
ReleaseAgain(r) ==
    /\ Release(r, TRUE)
    /\ UNCHANGED <<fenceVars, phaseVars, chainVars, waiter>>

----------------------------------------------------------------------------
(* Restart: the signal fence, the drain and the reset                      *)

\* A mutant: the new fence reuses the generation of the last one.
BeginSignalSameGeneration(e) ==
    /\ ~restartDraining /\ ~signalPending
    /\ signalGeneration < MaxGeneration
    /\ signalPending' = TRUE
    /\ signalLease' = [signalLease EXCEPT ![e] = signalGeneration]
    /\ UNCHANGED <<restartDraining, signalGeneration, phaseVars, rootVars, chainVars, waiter, drain>>

\* beginGatewayRestartSignalAdmission
BeginSignal(e) ==
    /\ ~restartDraining /\ ~signalPending
    /\ signalGeneration < MaxGeneration
    /\ signalPending' = TRUE
    /\ signalGeneration' = signalGeneration + 1
    /\ signalLease' = [signalLease EXCEPT ![e] = signalGeneration + 1]
    /\ UNCHANGED <<restartDraining, phaseVars, rootVars, chainVars, waiter, drain>>

\* A mutant: the fence is reopened without waking those who wait for it.
ClearSignalFenceSilently ==
    /\ signalPending' = FALSE
    /\ signalGeneration' = signalGeneration + 1
    /\ UNCHANGED waiter

\* clearRestartSignalFence
ClearSignalFence ==
    /\ signalPending' = FALSE
    /\ signalGeneration' = signalGeneration + 1
    /\ waiter' = Woken

\* rollback() of the lease e holds, which may be a stale one.
RollbackSignal(e) ==
    /\ ~restartDraining /\ signalPending
    /\ signalLease[e] = signalGeneration
    /\ ClearSignalFence
    /\ UNCHANGED <<restartDraining, signalLease, phaseVars, rootVars, chainVars, drain>>

\* rollbackGatewayRestartSignalFence
RollbackFence ==
    /\ ~restartDraining /\ signalPending
    /\ ClearSignalFence
    /\ UNCHANGED <<restartDraining, signalLease, phaseVars, rootVars, chainVars, drain>>

\* markGatewayRestartDraining; it invalidates a suspension in force.
MarkRestartDraining ==
    /\ ~restartDraining
    /\ restartDraining' = TRUE
    /\ signalPending' = FALSE
    /\ signalGeneration' = signalGeneration + 1
    /\ waiter' = Woken
    /\ suspendPhase' = "accepting"
    /\ suspendGeneration' = IF suspendPhase = "accepting" THEN suspendGeneration
                            ELSE suspendGeneration + 1
    /\ UNCHANGED <<signalLease, rootVars, chainVars, drain>>

\* waitForActiveGatewayRootWork, called by the run loop once it is draining.
WaitForRoots ==
    /\ restartDraining /\ drain = "none"
    /\ drain' = IF activeRootWork = {} THEN "drained" ELSE "waiting"
    /\ UNCHANGED <<fenceVars, phaseVars, rootVars, chainVars, waiter>>

DrainTimeout ==
    /\ drain = "waiting"
    /\ drain' = "woken"
    /\ UNCHANGED <<fenceVars, phaseVars, rootVars, chainVars, waiter>>

\* The awaited promise resolved; the result is what the set says by then.
DrainResumes ==
    /\ drain = "woken"
    /\ drain' = IF activeRootWork = {} THEN "drained" ELSE "notDrained"
    /\ UNCHANGED <<fenceVars, phaseVars, rootVars, chainVars, waiter>>

\* A mutant: the reset forgets the records that surviving chains still see.
ResetWithoutRetiring ==
    /\ restartDraining /\ signalGeneration < MaxGeneration
    /\ activeRootWork' = {}
    /\ drain' = "none"
    /\ restartDraining' = FALSE /\ signalPending' = FALSE
    /\ signalGeneration' = signalGeneration + 1
    /\ suspendPhase' = "accepting"
    /\ suspendGeneration' = suspendGeneration + 1
    /\ waiter' = Woken
    /\ UNCHANGED <<references, released, spent, created, origin, chainVars, signalLease>>

\* resetGatewayWorkAdmission, at the in-process restart the drain leads to.  A
\* drain still waiting is woken; the run loop has moved on either way.
Reset ==
    /\ restartDraining /\ signalGeneration < MaxGeneration
    /\ references' = [r \in Roots |-> IF r \in activeRootWork THEN 0 ELSE references[r]]
    /\ released' = released \cup activeRootWork
    /\ activeRootWork' = {} /\ spent' = {}
    /\ drain' = "none"
    /\ restartDraining' = FALSE /\ signalPending' = FALSE
    /\ signalGeneration' = signalGeneration + 1
    /\ suspendPhase' = "accepting"
    /\ suspendGeneration' = suspendGeneration + 1
    /\ waiter' = Woken
    /\ UNCHANGED <<created, origin, chainVars, signalLease>>

----------------------------------------------------------------------------
(* Suspension leases                                                       *)

\* tryBeginGatewaySuspendAdmission
BeginSuspend ==
    /\ ~Closed /\ suspendGeneration < MaxGeneration
    /\ suspendPhase' = "preparing"
    /\ suspendGeneration' = suspendGeneration + 1
    /\ UNCHANGED <<fenceVars, rootVars, chainVars, waiter, drain>>

\* transition, of the lease with generation g: commit, rollback or release.
Transition(g, expected, next) ==
    /\ suspendGeneration = g /\ suspendPhase = expected
    /\ suspendPhase' = next
    /\ waiter' = IF next = "accepting" THEN Woken ELSE waiter
    /\ UNCHANGED <<fenceVars, suspendGeneration, rootVars, chainVars, drain>>

SuspendLeaseCall(g) ==
    \/ Transition(g, "preparing", "prepared")
    \/ Transition(g, "preparing", "accepting")
    \/ Transition(g, "prepared", "accepting")

ChainStep(c) ==
    \/ Begin(c) \/ AwaitOpen(c) \/ Recheck(c)
    \/ \E d \in Chains : Continue(c, d) \/ Spawn(c, d)
    \/ Leave(c) \/ Retain(c)
    \/ \E detached \in BOOLEAN : ReleaseOwn(c, detached)
    \/ ReleaseRetained(c)
    \/ \E r \in spent : ReleaseAgain(r)

SignalStep ==
    \/ \E e \in Emitters : BeginSignal(e) \/ RollbackSignal(e)
    \/ RollbackFence

DrainStep == WaitForRoots \/ DrainTimeout \/ DrainResumes

Next ==
    \/ \E c \in Chains : ChainStep(c)
    \/ SignalStep \/ MarkRestartDraining \/ DrainStep \/ Reset
    \/ BeginSuspend
    \/ \E g \in 1..suspendGeneration : SuspendLeaseCall(g)

Spec == Init /\ [][Next]_admissionVars

----------------------------------------------------------------------------
(* Properties                                                              *)

\* The drain and the suspension snapshot count exactly the roots somebody still
\* holds: an active root has as many references as chains with a lease on it,
\* and whoever still runs under an unreleased root finds it in the set (the
\* leases of createGatewayRootWorkRelease and the retirement by reset).
RootsAreCounted ==
    /\ activeRootWork = (1..created) \ released
    /\ \A r \in activeRootWork :
          /\ references[r] = Cardinality({c \in Chains : own[c] = r})
                             + Cardinality({c \in Chains : retained[c] = r})
          /\ references[r] > 0

\* Nobody waits for an admission that is open, or that will never open: every
\* path that reopens or starts the one-way drain wakes the waiters (the calls of
\* resolveSuspendOpenWaiters against the loops of the two waiting functions).
WaitersAreWoken ==
    (\E c \in Chains : waiter[c] = "waiting") =>
        ~restartDraining /\ (signalPending \/ suspendPhase # "accepting")

\* The restart never waits for roots that are all gone (the wake-up in release
\* against the size test before the wait).
DrainWaitsForSomething == drain = "waiting" => activeRootWork # {}

\* Once the run loop was told that the roots have drained, none comes back
\* before the reset: no fence reopens, no waiter slips in and no chain that
\* survived its root may start a continuation.
DrainedIsFinal == drain = "drained" => activeRootWork = {}

\* The signal fence in force can be reopened by the lease of exactly one emitter,
\* the one that closed it: no lease is dead while its fence stands, and no older
\* lease reopens a newer fence (the generation captured by
\* beginGatewayRestartSignalAdmission against every bump of it).
FenceHasOneOwner ==
    signalPending =>
        \E e \in Emitters : \A f \in Emitters :
            signalLease[f] = signalGeneration <=> f = e

-----------------------------------------------------------------------------
(* Refinement                                                              *)

\* The gate, its lines of work and its report, as AdmissionGate has them.
Origins(R) == {origin[r] : r \in R}
GateState == IF restartDraining THEN "draining" ELSE IF Closed THEN "fenced" ELSE "open"
DrainReport == IF drain \in {"drained", "notDrained"} THEN drain ELSE "none"

Gate == INSTANCE AdmissionGate WITH
    Lines <- Roots,
    gate <- GateState,
    lines <- Origins(activeRootWork),
    seen <- Origins(1..created),
    report <- DrainReport

\* Admission is a gate: through waiting, waking, continuations, detached chains
\* and resets no line of work starts behind a fence, none comes back once it
\* has ended, and the drain's answer holds until the gateway starts anew.
ImplementsGate == Gate!Spec

=============================================================================
