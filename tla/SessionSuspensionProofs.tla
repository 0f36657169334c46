------------------------ MODULE SessionSuspensionProofs ------------------------
(***************************************************************************)
(* Proofs about SessionSuspension, for every set of lanes and sessions and *)
(* every bound.                                                            *)
(*                                                                         *)
(* The inductive invariant adds to the properties that only the call whose *)
(* patch has returned may have an entry in the store that neither          *)
(* throttled its lane nor was given up, and that a roll-back puts back a   *)
(* suspension that did.                                                    *)
(***************************************************************************)
EXTENDS SessionSuspension, SequenceTheorems, TLAPS

WriteOwnsTheRest ==
    /\ write.previous # 0 => write.previous \in standing
    /\ \A s \in Sessions :
          (store[s] # 0 /\ store[s] \notin standing)
            => /\ write.pc \in {"patched", "rollback"}
               /\ s = Head(chain).session
               /\ store[s] = Head(chain).id

IInv == TypeOK /\ TimersAreFenced /\ ClosedLaneHasResume /\ WriteOwnsTheRest

\* The head of the chain of calls, when there is one, is a call and leaves a chain.
LEMMA HeadOfChain ==
    ASSUME chain \in Seq(Call), chain # << >>
    PROVE  Head(chain) \in Call /\ Tail(chain) \in Seq(Call)
OBVIOUS

\* A gateway that has just started satisfies the invariant.
LEMMA InitEstablishes == Init => IInv
<1> SUFFICES ASSUME Init PROVE IInv
    OBVIOUS
<1>1. TypeOK
    <2>0. 0 \in 0 .. MaxCalls
        BY SuspensionBounds
    <2>1. limit \in [Lanes -> Nat]
        BY LimitsAssumption DEF Init, Published
    <2>2. timer \in [Lanes -> Resumes \cup {None}] /\ cleared \in [Lanes -> Resumes \cup {None}]
        BY DEF Init
    <2>3. write \in Write /\ write = Idle
        BY <2>0 DEF Init, Write, Idle
    <2>4. store \in [Sessions -> 0 .. MaxCalls] /\ calls \in 0 .. MaxCalls
        BY <2>0 DEF Init
    <2>5. chain \in Seq(Call)
        BY EmptySeq DEF Init
    <2> QED
        BY <2>1, <2>2, <2>3, <2>4, <2>5 DEF TypeOK, Init
<1>2. TimersAreFenced
    BY DEF Init, TimersAreFenced
<1>3. ClosedLaneHasResume
    <2>1. \A l \in Published : config[l] \in Nat \ {0}
        BY LimitsAssumption DEF Init
    <2>2. limit = [l \in Lanes |-> IF l \in Published THEN config[l] ELSE 1]
        BY DEF Init
    <2> QED
        BY <2>1, <2>2 DEF ClosedLaneHasResume
<1>4. WriteOwnsTheRest
    BY DEF Init, WriteOwnsTheRest, Idle
<1> QED
    BY <1>1, <1>2, <1>3, <1>4 DEF IInv

\* A call to suspendSession only joins the chain.
LEMMA SuspendPreserves ==
    ASSUME IInv, NEW s \in Sessions, NEW l \in Lanes \cup {NoLane}, SuspendSession(s, l)
    PROVE  IInv'
<1> DEFINE c == [id |-> calls + 1, session |-> s, lane |-> l,
                 resume |-> ResumeConcurrency(l), generation |-> generation]
<1>1. calls \in 0 .. MaxCalls /\ calls < MaxCalls /\ MaxCalls \in Nat
    BY SuspensionBounds DEF IInv, TypeOK, SuspendSession
<1>a. calls + 1 \in Calls
    BY <1>1 DEF Calls
<1>2. ResumeConcurrency(l) \in Nat \ {0}
    <2>1. config \in [Published -> Limits]
        BY DEF IInv, TypeOK
    <2> QED
        <3>1. CASE l \in Published
            <4>1. config[l] \in Limits
                BY <2>1, <3>1
            <4> QED
                BY <3>1, <4>1, LimitsAssumption DEF ResumeConcurrency
        <3>2. CASE l \notin Published
            BY <3>2 DEF ResumeConcurrency
        <3> QED
            BY <3>1, <3>2
<1>3. c \in Call
    BY <1>a, <1>2 DEF Call, IInv, TypeOK
<1>4. chain' = Append(chain, c) /\ chain \in Seq(Call)
    BY DEF SuspendSession, IInv, TypeOK
<1> HIDE DEF c
<1>5. chain' \in Seq(Call) /\ chain' # << >> /\ (chain # << >> => Head(chain') = Head(chain))
    <2>1. chain' \in Seq(Call) /\ chain' # << >>
        BY <1>3, <1>4, AppendProperties
    <2>2. ASSUME chain # << >> PROVE Head(chain') = Head(chain)
        BY <1>3, <1>4, <2>2, HeadTailAppend
    <2> QED
        BY <2>1, <2>2
<1>6. TypeOK'
    <2>1. calls' \in 0 .. MaxCalls
        BY <1>1 DEF SuspendSession
    <2> QED
        BY <2>1, <1>5 DEF IInv, TypeOK, SuspendSession, laneVars
<1>7. TimersAreFenced' /\ ClosedLaneHasResume'
    BY DEF IInv, TimersAreFenced, ClosedLaneHasResume, SuspendSession, laneVars
<1>8. WriteOwnsTheRest'
    <2>1. write' = write /\ store' = store /\ standing' = standing
        BY DEF SuspendSession
    <2>2. write.pc \in {"patched", "rollback"} => chain # << >>
        <3>1. write = Idle => write.pc = "idle"
            BY DEF Idle
        <3> QED
            BY <3>1 DEF IInv, TypeOK
    <2> QED
        BY <2>1, <2>2, <1>5 DEF IInv, WriteOwnsTheRest
<1> QED
    BY <1>6, <1>7, <1>8 DEF IInv

\* A call takes its turn, or is dropped.
LEMMA StartPreserves ==
    ASSUME IInv, NEW known \in BOOLEAN, StartWrite(known)
    PROVE  IInv'
<1>1. Head(chain) \in Call /\ Tail(chain) \in Seq(Call)
    BY HeadOfChain DEF IInv, TypeOK, StartWrite
<1>2. /\ chain' \in Seq(Call)
      /\ write' \in Write
      /\ write'.previous = 0
      /\ write' # Idle => chain' # << >>
    <2>1. chain \in Seq(Call) /\ chain # << >> /\ 0 \in 0 .. MaxCalls
        BY SuspensionBounds DEF StartWrite, IInv, TypeOK
    <2>2. \/ write' = [pc |-> "patching", previous |-> 0] /\ chain' = chain
          \/ write' = Idle /\ chain' = Tail(chain)
        BY DEF StartWrite, EndCall
    <2> QED
        BY <1>1, <2>1, <2>2 DEF Idle, Write
<1>3. TypeOK'
    BY <1>2 DEF IInv, TypeOK, StartWrite, laneVars
<1>4. TimersAreFenced' /\ ClosedLaneHasResume'
    BY DEF IInv, TimersAreFenced, ClosedLaneHasResume, StartWrite, laneVars
<1>5. WriteOwnsTheRest'
    BY <1>2 DEF IInv, WriteOwnsTheRest, StartWrite
<1> QED
    BY <1>3, <1>4, <1>5 DEF IInv

\* The patch of a store entry: only the call at the head of the chain writes.
LEMMA PatchPreserves ==
    ASSUME IInv, NEW result \in {"written", "failed", "missing"}, PatchEntry(result)
    PROVE  IInv'
<1> DEFINE c == Head(chain)
<1>1. write # Idle /\ write.pc = "patching" /\ write \in Write /\ chain # << >>
    BY DEF PatchEntry, Idle, IInv, TypeOK
<1>2. c \in Call /\ Tail(chain) \in Seq(Call) /\ chain \in Seq(Call)
    BY <1>1, HeadOfChain DEF IInv, TypeOK
<1>3. c.id \in Calls /\ c.session \in Sessions
    BY <1>2 DEF Call
<1>4. store[c.session] \in 0 .. MaxCalls
    BY <1>3 DEF IInv, TypeOK
<1>5. \A s \in Sessions : store[s] # 0 => store[s] \in standing
    BY <1>1 DEF IInv, WriteOwnsTheRest
<1>6. /\ write' \in Write
      /\ chain' \in Seq(Call)
      /\ write' # Idle => chain' # << >>
      /\ write'.previous # 0 => write'.previous \in standing
    <2>1. CASE result = "written"
        <3>1. write' = [pc |-> "patched", previous |-> store[c.session]] /\ chain' = chain
            BY <2>1 DEF PatchEntry
        <3> QED
            BY <3>1, <1>1, <1>2, <1>3, <1>4, <1>5 DEF Write
    <2>2. CASE result = "failed"
        <3>1. write' = [write EXCEPT !.pc = "failed"] /\ chain' = chain
            BY <2>2 DEF PatchEntry
        <3> QED
            BY <3>1, <1>1, <1>2 DEF Write, IInv, WriteOwnsTheRest
    <2>3. CASE result = "missing"
        <3>1. write' = Idle /\ chain' = Tail(chain)
            BY <2>3 DEF PatchEntry, EndCall
        <3> QED
            BY <3>1, <1>2, SuspensionBounds DEF Write, Idle
    <2> QED
        BY <2>1, <2>2, <2>3
<1>7. \/ store' = store
      \/ /\ store' = [store EXCEPT ![c.session] = c.id]
         /\ write'.pc = "patched" /\ chain' = chain
    <2>1. CASE result = "written"
        BY <2>1 DEF PatchEntry
    <2>2. CASE result # "written"
        BY <2>2 DEF PatchEntry
    <2> QED
        BY <2>1, <2>2
<1>8. TypeOK'
    BY <1>3, <1>6, <1>7 DEF IInv, TypeOK, PatchEntry, laneVars, Calls
<1>9. TimersAreFenced' /\ ClosedLaneHasResume'
    BY DEF IInv, TimersAreFenced, ClosedLaneHasResume, PatchEntry, laneVars
<1>10. WriteOwnsTheRest'
    <2>1. standing' = standing
        BY DEF PatchEntry
    <2> QED
        BY <2>1, <1>3, <1>5, <1>6, <1>7 DEF WriteOwnsTheRest, IInv, TypeOK
<1> QED
    BY <1>8, <1>9, <1>10 DEF IInv

\* The patch has returned: the lane is throttled, the patch is to be undone, or
\* neither was written.
LEMMA AfterPatchPreserves ==
    ASSUME IInv, AfterPatch
    PROVE  IInv'
<1> DEFINE c == Head(chain)
<1>1. chain \in Seq(Call) /\ chain # << >> /\ write \in Write
    BY DEF AfterPatch, Idle, IInv, TypeOK
<1>2. c \in Call /\ Tail(chain) \in Seq(Call)
    BY <1>1, HeadOfChain
<1>3. c.id \in Calls /\ c.session \in Sessions /\ c.resume \in Nat \ {0}
    BY <1>2 DEF Call
<1>4. UNCHANGED <<config, cleared, generation, cleanupActive, store, calls>>
    BY DEF AfterPatch
<1>5. Idle \in Write /\ Idle.previous = 0
    BY SuspensionBounds DEF Idle, Write
<1>6. CASE ~Overtaken
    <2>1. /\ ~cleanupActive
          /\ chain' = Tail(chain) /\ write' = Idle
          /\ standing' = standing \cup {c.id}
        BY <1>6 DEF AfterPatch, Throttle, EndCall, Overtaken
    <2>2. \/ UNCHANGED <<limit, timer>>
          \/ /\ c.lane \in Lanes
             /\ limit' = [limit EXCEPT ![c.lane] = 0]
             /\ timer' = [timer EXCEPT ![c.lane] = [resume |-> c.resume, left |-> TTL]]
        BY <1>6 DEF AfterPatch, Throttle
    <2>3. [resume |-> c.resume, left |-> TTL] \in Resumes
        BY <1>3, SuspensionBounds DEF Resumes
    <2>4. [resume |-> c.resume, left |-> TTL] # None
        BY <1>3 DEF None
    <2>5. TypeOK'
        <3>1. limit' \in [Lanes -> Nat]
            <4>1. limit \in [Lanes -> Nat] /\ 0 \in Nat
                BY DEF IInv, TypeOK
            <4>2. limit' = limit \/ limit' = [limit EXCEPT ![c.lane] = 0]
                BY <2>2
            <4> HIDE DEF c
            <4> QED
                BY <4>1, <4>2
        <3>4. timer' \in [Lanes -> Resumes \cup {None}]
            BY <2>2, <2>3 DEF IInv, TypeOK
        <3>2. write' \in Write /\ chain' \in Seq(Call) /\ (write' # Idle => chain' # << >>)
            BY <2>1, <1>2, <1>5 DEF IInv
        <3>3. standing' \subseteq Calls
            BY <2>1, <1>3 DEF IInv, TypeOK
        <3> QED
            BY <3>1, <3>2, <3>3, <3>4, <1>4 DEF IInv, TypeOK
    <2>6. TimersAreFenced'
        BY <2>1, <1>4 DEF IInv, TimersAreFenced
    <2>7. ClosedLaneHasResume'
        BY <2>2, <2>4, <1>4 DEF IInv, TypeOK, ClosedLaneHasResume
    <2>8. WriteOwnsTheRest'
        BY <2>1, <1>4 DEF IInv, WriteOwnsTheRest, Idle
    <2> QED
        BY <2>5, <2>6, <2>7, <2>8 DEF IInv
<1>7. CASE Overtaken
    <2>1. UNCHANGED <<limit, timer, standing>>
        BY <1>7 DEF AfterPatch
    <2>2. \/ /\ write.pc = "patched"
             /\ write' = [write EXCEPT !.pc = "rollback"] /\ chain' = chain
          \/ /\ write.pc = "failed"
             /\ chain' = Tail(chain) /\ write' = Idle
        BY <1>7 DEF AfterPatch, EndCall
    <2>3. /\ write' \in Write /\ chain' \in Seq(Call) /\ (write' # Idle => chain' # << >>)
          /\ write'.previous \in {write.previous, 0}
        <3>1. CASE write' = Idle /\ chain' = Tail(chain)
            BY <3>1, <1>2, <1>5
        <3>2. CASE write' = [write EXCEPT !.pc = "rollback"] /\ chain' = chain
            BY <3>2, <1>1 DEF Write
        <3> QED
            BY <3>1, <3>2, <2>2
    <2>4. TypeOK'
        BY <2>1, <2>3, <1>4 DEF IInv, TypeOK
    <2>5. TimersAreFenced' /\ ClosedLaneHasResume'
        BY <2>1, <1>4 DEF IInv, TimersAreFenced, ClosedLaneHasResume
    <2>6. WriteOwnsTheRest'
        <3>1. write.pc = "patched" => write'.pc = "rollback" /\ chain' = chain
            BY <2>2, <1>1 DEF Write
        <3>2. write.pc # "patched" => \A s \in Sessions : store[s] # 0 => store[s] \in standing
            BY <2>2 DEF IInv, WriteOwnsTheRest
        <3> QED
            BY <2>1, <2>3, <3>1, <3>2, <1>4 DEF IInv, WriteOwnsTheRest
    <2> QED
        BY <2>4, <2>5, <2>6 DEF IInv
<1> QED
    BY <1>6, <1>7

\* A roll-back puts a standing suspension back, or gives its own up.
LEMMA RollBackPreserves ==
    ASSUME IInv, NEW fails \in BOOLEAN, RollBack(fails)
    PROVE  IInv'
<1> DEFINE c == Head(chain)
<1>1. chain \in Seq(Call) /\ chain # << >> /\ write \in Write
    BY DEF RollBack, Idle, IInv, TypeOK
<1>2. c \in Call /\ Tail(chain) \in Seq(Call)
    BY <1>1, HeadOfChain
<1>3. c.id \in Calls /\ c.session \in Sessions /\ write.previous \in 0 .. MaxCalls
    BY <1>1, <1>2 DEF Call, Write
<1>4. /\ UNCHANGED <<limit, config, timer, cleared, generation, cleanupActive, calls>>
      /\ chain' = Tail(chain) /\ write' = Idle
    BY DEF RollBack, EndCall, laneVars
<1>5. Idle \in Write /\ Idle.previous = 0
    BY SuspensionBounds DEF Idle, Write
<1>6. /\ store' = IF ~fails /\ store[c.session] = c.id
                  THEN [store EXCEPT ![c.session] = write.previous] ELSE store
      /\ standing' = IF fails THEN standing \cup {c.id} ELSE standing
    BY DEF RollBack
<1>7. TypeOK'
    <2>1. store' \in [Sessions -> 0 .. MaxCalls] /\ standing' \subseteq Calls
        BY <1>3, <1>6 DEF IInv, TypeOK
    <2> QED
        BY <2>1, <1>2, <1>4, <1>5 DEF IInv, TypeOK
<1>8. TimersAreFenced' /\ ClosedLaneHasResume'
    BY <1>4 DEF IInv, TimersAreFenced, ClosedLaneHasResume
<1>9. WriteOwnsTheRest'
    <2>1. \A s \in Sessions : store'[s] # 0 => store'[s] \in standing'
        <3>1. SUFFICES ASSUME NEW s \in Sessions, store'[s] # 0
                       PROVE  store'[s] \in standing'
            OBVIOUS
        <3>2. CASE ~fails /\ store[c.session] = c.id
            BY <3>1, <3>2, <1>3, <1>6 DEF IInv, TypeOK, WriteOwnsTheRest
        <3>3. CASE fails \/ store[c.session] # c.id
            BY <3>1, <3>3, <1>3, <1>6 DEF IInv, TypeOK, WriteOwnsTheRest
        <3> QED
            BY <3>2, <3>3
    <2> QED
        BY <2>1, <1>4, <1>5 DEF WriteOwnsTheRest
<1> QED
    BY <1>7, <1>8, <1>9 DEF IInv

\* Steps that leave the writes alone keep their part of the invariant.
LEMMA WritesUntouched ==
    ASSUME IInv, UNCHANGED writeVars
    PROVE  WriteOwnsTheRest'
BY DEF IInv, WriteOwnsTheRest, writeVars

\* A timer sets a limit that is not zero.
LEMMA TimerPreserves ==
    ASSUME IInv, NEW l \in Lanes, TimerFires(l)
    PROVE  IInv'
<1>1. timer[l] \in Resumes /\ timer[l].resume \in Nat \ {0}
    BY DEF TimerFires, IInv, TypeOK, Resumes
<1>2. TypeOK'
    BY <1>1 DEF IInv, TypeOK, TimerFires, writeVars
<1>3. TimersAreFenced'
    BY DEF IInv, TypeOK, TimersAreFenced, TimerFires
<1>4. ClosedLaneHasResume'
    BY <1>1 DEF IInv, TypeOK, ClosedLaneHasResume, TimerFires
<1> QED
    BY <1>2, <1>3, <1>4, WritesUntouched DEF IInv, TimerFires

\* Time passes for every timer, armed or saved.
LEMMA SoonerIsResume ==
    ASSUME NEW r \in [Lanes -> Resumes \cup {None}]
    PROVE  /\ Sooner(r) \in [Lanes -> Resumes \cup {None}]
           /\ \A l \in Lanes : Sooner(r)[l] = None <=> r[l] = None
<1>1. ASSUME NEW l \in Lanes
      PROVE  /\ Sooner(r)[l] \in Resumes \cup {None}
             /\ Sooner(r)[l] = None <=> r[l] = None
    <2> DEFINE x == [r[l] EXCEPT !.left = IF @ = 0 THEN 0 ELSE @ - 1]
    <2>0. Sooner(r)[l] = x
        BY DEF Sooner
    <2>1. CASE r[l] = None
        BY <2>0, <2>1 DEF None
    <2>2. CASE r[l] \in Resumes
        <3>1. PICK n \in Nat \ {0}, k \in 0 .. TTL : r[l] = [resume |-> n, left |-> k]
            BY <2>2 DEF Resumes
        <3>2. x = [resume |-> n, left |-> IF k = 0 THEN 0 ELSE k - 1]
            BY <3>1
        <3>3. (IF k = 0 THEN 0 ELSE k - 1) \in 0 .. TTL
            BY SuspensionBounds
        <3>4. x \in Resumes /\ x # None /\ r[l] # None
            BY <3>1, <3>2, <3>3 DEF Resumes, None
        <3> QED
            BY <2>0, <3>4
    <2> QED
        BY <2>1, <2>2
<1> QED
    BY <1>1 DEF Sooner

\* Time passing disarms nothing.
LEMMA TickPreserves ==
    ASSUME IInv, Tick
    PROVE  IInv'
<1>1. timer' = Sooner(timer) /\ cleared' = Sooner(cleared)
    BY DEF Tick
<1>2. /\ timer' \in [Lanes -> Resumes \cup {None}]
      /\ cleared' \in [Lanes -> Resumes \cup {None}]
      /\ \A l \in Lanes : timer'[l] = None <=> timer[l] = None
      /\ \A l \in Lanes : cleared'[l] = None <=> cleared[l] = None
    BY <1>1, SoonerIsResume DEF IInv, TypeOK
<1>3. TypeOK'
    BY <1>2 DEF IInv, TypeOK, Tick, writeVars
<1>4. TimersAreFenced' /\ ClosedLaneHasResume'
    BY <1>2 DEF IInv, TimersAreFenced, ClosedLaneHasResume, Tick
<1> QED
    BY <1>3, <1>4, WritesUntouched DEF IInv, Tick

\* The clean-up saves every timer it stops.
LEMMA CleanUpPreserves ==
    ASSUME IInv, CleanUp
    PROVE  IInv'
<1>1. TypeOK'
    BY DEF IInv, TypeOK, CleanUp, writeVars
<1>2. TimersAreFenced' /\ ClosedLaneHasResume'
    BY DEF IInv, TypeOK, TimersAreFenced, ClosedLaneHasResume, CleanUp
<1> QED
    BY <1>1, <1>2, WritesUntouched DEF IInv, CleanUp

\* A start re-arms what has not run out and opens every other lane it manages.
LEMMA StartGatewayPreserves ==
    ASSUME IInv, NEW c \in [Published -> Limits], GatewayStart(c)
    PROVE  IInv'
<1>1. /\ cleanupActive /\ generation' = generation + 1 /\ cleanupActive' = FALSE
      /\ config' = c /\ UNCHANGED writeVars
      /\ cleared' = [l \in Lanes |-> None]
      /\ limit' = [l \in Lanes |-> IF StillSuspended(l) THEN 0 ELSE StartLimit(c, l)]
    BY DEF GatewayStart
<1>2. ASSUME NEW l \in Lanes
      PROVE  /\ LaneKind[l] = "published" => c[l] \in Nat \ {0}
             /\ cleared[l] # None => cleared[l].resume \in Nat \ {0} /\ cleared[l].left \in 0 .. TTL
             /\ limit[l] \in Nat
    <2>1. LaneKind[l] = "published" => c[l] \in Nat \ {0}
        BY LimitsAssumption DEF Published
    <2>2. cleared[l] # None => cleared[l] \in Resumes
        BY DEF IInv, TypeOK
    <2>3. cleared[l] \in Resumes => cleared[l].resume \in Nat \ {0} /\ cleared[l].left \in 0 .. TTL
        BY DEF Resumes
    <2>4. limit[l] \in Nat
        BY DEF IInv, TypeOK
    <2> QED
        BY <2>1, <2>2, <2>3, <2>4
<1>3. ASSUME NEW l \in Lanes
      PROVE  StartLimit(c, l) \in Nat /\ (StartLimit(c, l) = 0 => limit[l] = 0 /\ cleared[l] = None)
    <2>1. CASE LaneKind[l] = "published"
        BY <1>2, <2>1 DEF StartLimit
    <2>2. CASE LaneKind[l] = "nested"
        BY <2>2 DEF StartLimit
    <2>3. CASE LaneKind[l] = "custom"
        BY <1>2, <2>3 DEF StartLimit
    <2> QED
        BY <2>1, <2>2, <2>3, LanesAssumption
<1>4. ASSUME NEW l \in Lanes
      PROVE  /\ timer'[l] \in Resumes \cup {None}
             /\ StillSuspended(l) => timer'[l] # None
    <2>1. CASE StillSuspended(l)
        <3>1. PICK n \in Nat \ {0} : timer'[l] = [resume |-> n, left |-> cleared[l].left]
            <4>1. cleared[l] # None
                BY <2>1 DEF StillSuspended
            <4> QED
                BY <2>1, <4>1, <1>2 DEF GatewayStart
        <3> QED
            BY <2>1, <3>1, <1>2 DEF StillSuspended, Resumes, None
    <2>2. CASE ~StillSuspended(l)
        BY <2>2 DEF GatewayStart, IInv, TypeOK
    <2> QED
        BY <2>1, <2>2
<1>5. \A l \in Lanes : limit[l] = 0 => cleared[l] # None
    BY <1>1 DEF IInv, TimersAreFenced, ClosedLaneHasResume
<1>6. TypeOK'
    <2>1. limit' \in [Lanes -> Nat]
        BY <1>1, <1>3
    <2>2. timer' \in [Lanes -> Resumes \cup {None}] /\ cleared' \in [Lanes -> Resumes \cup {None}]
        BY <1>1, <1>4 DEF GatewayStart
    <2>3. generation' \in Nat /\ cleanupActive' \in BOOLEAN /\ config' \in [Published -> Limits]
        <3>1. generation \in Nat
            BY DEF IInv, TypeOK
        <3>2. generation' = generation + 1 /\ cleanupActive' = FALSE /\ config' = c
            BY <1>1
        <3>3. generation' \in Nat
            BY <3>1, <3>2
        <3>4. cleanupActive' \in BOOLEAN
            BY <3>2
        <3> QED
            BY <3>2, <3>3, <3>4
    <2>4. UNCHANGED <<chain, write, store, calls, standing>>
        BY <1>1 DEF writeVars
    <2> QED
        BY <2>1, <2>2, <2>3, <2>4 DEF IInv, TypeOK
<1>7. TimersAreFenced'
    BY <1>1 DEF TimersAreFenced
<1>8. ClosedLaneHasResume'
    BY <1>1, <1>3, <1>4, <1>5 DEF ClosedLaneHasResume
<1> QED
    BY <1>1, <1>6, <1>7, <1>8, WritesUntouched DEF IInv

\* A live reload publishes limits that are not zero.
LEMMA ReloadPreserves ==
    ASSUME IInv, NEW c \in [Published -> Limits], LiveReload(c)
    PROVE  IInv'
<1>1. \A l \in Lanes : limit'[l] = limit[l] \/ limit'[l] \in Nat \ {0}
    BY LimitsAssumption DEF LiveReload
<1>2. TypeOK'
    <2>1. limit' \in [Lanes -> Nat]
        BY <1>1 DEF LiveReload, IInv, TypeOK
    <2> QED
        BY <2>1 DEF IInv, TypeOK, LiveReload, writeVars
<1>3. TimersAreFenced' /\ ClosedLaneHasResume'
    BY <1>1 DEF IInv, TimersAreFenced, ClosedLaneHasResume, LiveReload
<1> QED
    BY <1>2, <1>3, WritesUntouched DEF IInv, LiveReload

\* Every step keeps the invariant.
LEMMA StepPreserves == IInv /\ [Next]_vars => IInv'
<1> SUFFICES ASSUME IInv, [Next]_vars PROVE IInv'
    OBVIOUS
<1>1. CASE UNCHANGED vars
    BY <1>1 DEF vars, laneVars, writeVars, IInv, TypeOK, TimersAreFenced,
                ClosedLaneHasResume, WriteOwnsTheRest
<1>2. CASE \E s \in Sessions, l \in Lanes \cup {NoLane} : SuspendSession(s, l)
    BY <1>2, SuspendPreserves
<1>3. CASE \E known \in BOOLEAN : StartWrite(known)
    BY <1>3, StartPreserves
<1>4. CASE \E result \in {"written", "failed", "missing"} : PatchEntry(result)
    BY <1>4, PatchPreserves
<1>5. CASE AfterPatch
    BY <1>5, AfterPatchPreserves
<1>6. CASE \E fails \in BOOLEAN : RollBack(fails)
    BY <1>6, RollBackPreserves
<1>7. CASE \E l \in Lanes : TimerFires(l)
    BY <1>7, TimerPreserves
<1>8. CASE Tick
    BY <1>8, TickPreserves
<1>9. CASE CleanUp
    BY <1>9, CleanUpPreserves
<1>10. CASE \E c \in [Published -> Limits] : GatewayStart(c) \/ LiveReload(c)
    BY <1>10, StartGatewayPreserves, ReloadPreserves
<1> QED
    BY <1>1, <1>2, <1>3, <1>4, <1>5, <1>6, <1>7, <1>8, <1>9, <1>10 DEF Next

\* The invariant holds in every behaviour of suspendSession, its timers and the
\* gateway's starts and closes.
LEMMA Invariance == Spec => []IInv
<1> QED
    BY InitEstablishes, StepPreserves, PTL DEF Spec

\* Every variable of the suspensions keeps its type, for all lanes, sessions and bounds.
THEOREM SuspensionTyped == Spec => []TypeOK
<1>1. IInv => TypeOK
    BY DEF IInv
<1> QED
    BY <1>1, Invariance, PTL

\* While the gateway is closed no lane timer exists, whatever suspension writes return
\* meanwhile, and a start leaves none saved (clearSessionSuspensionTimers).
THEOREM ClosedGatewayHasNoTimer == Spec => []TimersAreFenced
<1>1. IInv => TimersAreFenced
    BY DEF IInv
<1> QED
    BY <1>1, Invariance, PTL

\* A lane that is closed has a timer that opens it, or a saved one
\* (enableSessionSuspensionTimersForGatewayStart).
THEOREM NoLaneIsClosedForGood == Spec => []ClosedLaneHasResume
<1>1. IInv => ClosedLaneHasResume
    BY DEF IInv
<1> QED
    BY <1>1, Invariance, PTL

\* The store holds only suspensions that throttled their lane or could not be rolled
\* back (suspendSessionQueued).
THEOREM StoreIsTruthful == Spec => []StoredMeansThrottled
<1>1. IInv => StoredMeansThrottled
    BY DEF IInv, WriteOwnsTheRest, StoredMeansThrottled, Idle
<1> QED
    BY <1>1, Invariance, PTL

\* A lane that waits has a timer or a saved one that says so.
LEMMA WaitingLane ==
    ASSUME TypeOK, NEW l \in Lanes, Waits(l)
    PROVE  timer[l] # None \/ cleared[l] # None
BY DEF Waits, None

\* A closed lane is opened before its time neither by a restart of the gateway
\* nor by what a closing gateway still publishes.
THEOREM SuspensionsHold == Spec => HeldUntilDue
<1>1. ASSUME IInv, [Next]_vars, NEW l \in Lanes,
             limit[l] = 0, Waits(l), l \notin Published \/ cleanupActive
      PROVE  limit'[l] = 0
    <2>1. CASE UNCHANGED limit
        BY <2>1, <1>1
    <2>2. CASE AfterPatch
        BY <2>2, <1>1 DEF AfterPatch, Throttle, IInv, TypeOK
    <2>3. ASSUME NEW k \in Lanes, TimerFires(k)
          PROVE  limit'[l] = 0
        <3>1. timer[k].left = 0 /\ timer[k] # None
            BY <2>3 DEF TimerFires
        <3>2. cleanupActive = FALSE
            BY <1>1, <3>1 DEF IInv, TypeOK, TimersAreFenced
        <3>3. cleared[l] = None
            BY <1>1, <3>2 DEF IInv, TimersAreFenced
        <3>4. cleared[l].left = 0
            BY <3>3 DEF None
        <3>5. k # l
            BY <3>1, <3>4, <1>1 DEF Waits
        <3> QED
            BY <3>5, <2>3, <1>1 DEF TimerFires, IInv, TypeOK
    <2>4. ASSUME NEW c \in [Published -> Limits], GatewayStart(c)
          PROVE  limit'[l] = 0
        <3>1. timer[l] = None
            <4>1. cleanupActive
                BY <2>4 DEF GatewayStart
            <4> QED
                BY <4>1, <1>1 DEF IInv, TimersAreFenced
        <3>2. StillSuspended(l)
            BY <3>1, <1>1 DEF Waits, StillSuspended, None
        <3> QED
            BY <3>2, <2>4 DEF GatewayStart
    <2>5. ASSUME NEW c \in [Published -> Limits], LiveReload(c)
          PROVE  limit'[l] = 0
        <3>1. l \in Published => cleared[l] # None
            BY <1>1 DEF IInv, TimersAreFenced, ClosedLaneHasResume
        <3> QED
            BY <3>1, <2>5, <1>1 DEF LiveReload
    <2> QED
        BY <2>1, <2>2, <2>3, <2>4, <2>5, <1>1
           DEF Next, vars, laneVars, SuspendSession, StartWrite, PatchEntry, RollBack,
               Tick, CleanUp
<1>2. IInv /\ [Next]_vars =>
        [\A l \in Lanes :
            (limit[l] = 0 /\ Waits(l) /\ (l \notin Published \/ cleanupActive))
              => limit'[l] = 0]_vars
    BY <1>1
<1> QED
    BY <1>2, Invariance, PTL DEF Spec, HeldUntilDue
=============================================================================
