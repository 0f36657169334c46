-------------------------- MODULE RestartSignalProofs --------------------------
(***************************************************************************)
(* Proofs about RestartSignal, for every set of hooks, sessions and        *)
(* emitters.                                                               *)
(*                                                                         *)
(* The properties are not inductive alone.  That a fence without a signal  *)
(* has an owner needs the lease to be the fence itself, and a signal to be *)
(* fenced even while the run loop does not drain yet; that prepared hooks  *)
(* are held needs that an emission which is between two passes of its      *)
(* loop, or has not begun them, holds none.  That the last idle check      *)
(* stays true rests on all of these: a step that begins work, another      *)
(* emission or a signal needs the gate open, and the fence of the emission *)
(* that waits is lifted only by the step that ends its wait.               *)
(***************************************************************************)
EXTENDS RestartSignal, TLAPS

Emission ==
    [phase : Body \cup {"idle", "waiting"}, poll : BOOLEAN, reload : BOOLEAN,
     cancelled : BOOLEAN, stale : BOOLEAN, idleCheck : BOOLEAN, current : BOOLEAN, owns : BOOLEAN,
     active : BOOLEAN, ok : BOOLEAN, parked : Hooks \cup {Nobody},
     prepared : Hooks \cup {Nobody}]

Requested ==
    [timer : BOOLEAN, preparing : BOOLEAN, skip : BOOLEAN,
     slot : Hooks \cup {Nobody}, session : Sessions \cup {Nobody}]

Holders == Emitters \cup {Nobody}

Fates == {"new", "parked", "prepared", "over"}

Fenced ==
    /\ lease = fence
    /\ signal => fence # Nobody
    /\ fence # Nobody /\ ~signal =>
          fence \in Emitters /\ InBody(fence) /\ emitter[fence].owns

HandsEmpty ==
    \A e \in Emitters : emitter[e].phase # "drain" => emitter[e].prepared = Nobody

IInv == TypeOK /\ Fenced /\ HandsEmpty /\ PreparedIsHeld

-----------------------------------------------------------------------------
(* Types.                                                                  *)

\* The records the module builds are of the type of an emission or a request.
LEMMA Records ==
    /\ Idle \in Emission /\ Idle.phase = "idle" /\ Idle.prepared = Nobody
    /\ NoRestart \in Requested
    /\ Deferred(Idle) \in Emission /\ Deferred(Idle).phase \in {"idle", "waiting"}
    /\ Deferred(Idle).prepared = Nobody
    /\ [Idle EXCEPT !.reload = TRUE] \in Emission
    /\ [Idle EXCEPT !.reload = TRUE].prepared = Nobody
BY DEF Emission, Requested, Idle, NoRestart, Body, Preparing, Leaving, Deferred

\* A record that is to emit without an idle check.
LEMMA UncheckedRecord ==
    ASSUME NEW r \in Emission
    PROVE  /\ Unchecked(r) \in Emission /\ Unchecked(r).phase = "waiting"
           /\ Unchecked(r).prepared = r.prepared
BY DEF Unchecked, Emission

\* A deferral begins outside its body, with empty hands.
LEMMA BegunRecord ==
    ASSUME NEW q \in Emission, q.prepared = Nobody, NEW r \in Begun(q)
    PROVE  r \in Emission /\ r.phase \in {"idle", "waiting"} /\ r.prepared = Nobody
<1>1. r = Deferred(q) \/ r = Unchecked(q)
    BY DEF Begun
<1>2. Deferred(q) \in Emission /\ Deferred(q).phase \in {"idle", "waiting"}
      /\ Deferred(q).prepared = Nobody
    BY DEF Deferred, Emission
<1> QED
    BY <1>1, <1>2, UncheckedRecord

\* An attempt that is over may take the poll of its deferral with it.
LEMMA PollEnds ==
    ASSUME NEW r \in Emission, NEW b
    PROVE  [r EXCEPT !.poll = @ /\ b] \in Emission
<1>1. (r.poll /\ b) \in BOOLEAN
    OBVIOUS
<1>2. \A p \in BOOLEAN : [r EXCEPT !.poll = p] \in Emission
    BY DEF Emission
<1> QED
    BY <1>1, <1>2

\* A caller's session is a session, or none.
LEMMA CallersSession ==
    ASSUME NEW h \in Hooks \cup {Nobody}
    PROVE  SessionOfCaller(h) \in Sessions \cup {Nobody}
BY DEF SessionOfCaller, Sessions

\* Marking hooks keeps the type of the history.
LEMMA FatesTyped ==
    ASSUME fate \in [Hooks -> Fates], NEW S, NEW f \in Fates
    PROVE  WithFates(S, f) \in [Hooks -> Fates]
BY DEF WithFates

\* TypeOK, by the names used here.
LEMMA Typed ==
    TypeOK <=>
        /\ pending \in Requested /\ emitter \in [Emitters -> Emission]
        /\ fence \in Leases /\ lease \in Leases
        /\ signal \in BOOLEAN /\ draining \in BOOLEAN
        /\ host \in [suspended : BOOLEAN, busy : BOOLEAN]
        /\ held \in Holders
        /\ fate \in [Hooks -> Fates]
BY DEF TypeOK, Requested, Emission, Fates, Holders

\* Whichever way the reload handler forgets its handle, it has one or none.
LEMMA HandleTyped ==
    ASSUME TypeOK, NEW e \in Emitters
    PROVE  held \in Holders /\ HeldAfter(e) \in Holders /\ HeldOnReady(e) \in Holders
BY DEF TypeOK, Holders, HeldAfter, HeldOnReady

-----------------------------------------------------------------------------
(* One emitter takes a step.                                               *)

\* A record in place of another leaves the others alone.
LEMMA OneEmitter ==
    ASSUME emitter \in [Emitters -> Emission], NEW e \in Emitters, NEW r \in Emission,
           emitter' = [emitter EXCEPT ![e] = r]
    PROVE  /\ emitter' \in [Emitters -> Emission] /\ emitter'[e] = r
           /\ \A f \in Emitters \ {e} : emitter'[f] = emitter[f]
OBVIOUS

\* The fence keeps its owner in a step of e that leaves the fence as it is.
LEMMA FenceKept ==
    ASSUME Fenced, emitter \in [Emitters -> Emission], NEW e \in Emitters,
           NEW r \in Emission, emitter' = [emitter EXCEPT ![e] = r],
           UNCHANGED <<fence, lease, signal>>,
           fence = e /\ ~signal => r.phase \in Body /\ r.owns
    PROVE  Fenced'
<1>1. emitter'[e] = r /\ \A f \in Emitters \ {e} : emitter'[f] = emitter[f]
    BY OneEmitter
<1> QED
    BY <1>1 DEF Fenced, InBody

\* Hooks of other emissions stay where they are, and those of e may be over.
LEMMA HooksKept ==
    ASSUME HandsEmpty, PreparedIsHeld, emitter \in [Emitters -> Emission],
           NEW e \in Emitters, NEW r \in Emission, emitter' = [emitter EXCEPT ![e] = r],
           r.phase # "drain" => r.prepared = Nobody,
           \A h \in Hooks : fate'[h] = "prepared" =>
               \/ r.phase = "drain" /\ r.prepared = h
               \/ fate[h] = "prepared" /\ emitter[e].prepared # h
    PROVE  HandsEmpty' /\ PreparedIsHeld'
<1>1. emitter'[e] = r /\ \A f \in Emitters \ {e} : emitter'[f] = emitter[f]
    BY OneEmitter
<1>2. HandsEmpty'
    BY <1>1 DEF HandsEmpty
<1>3. ASSUME NEW h \in Hooks, fate'[h] = "prepared"
      PROVE  \E f \in Emitters : InBody(f)' /\ emitter'[f].prepared = h
    <2>1. CASE r.phase = "drain" /\ r.prepared = h
        BY <1>1, <2>1 DEF InBody, Body, Preparing, Leaving
    <2>2. CASE fate[h] = "prepared" /\ emitter[e].prepared # h
        <3>1. PICK f \in Emitters : InBody(f) /\ emitter[f].prepared = h
            BY <2>2 DEF PreparedIsHeld
        <3>2. f # e
            BY <2>2, <3>1
        <3> QED
            BY <1>1, <3>1, <3>2 DEF InBody
    <2> QED
        BY <1>3, <2>1, <2>2
<1> QED
    BY <1>2, <1>3 DEF PreparedIsHeld

\* An emission without prepared hooks, in a step that changes no fate.
LEMMA HooksUntouched ==
    ASSUME HandsEmpty, PreparedIsHeld, emitter \in [Emitters -> Emission],
           NEW e \in Emitters, NEW r \in Emission, emitter' = [emitter EXCEPT ![e] = r],
           r.phase # "drain" => r.prepared = Nobody,
           emitter[e].phase # "drain", UNCHANGED fate
    PROVE  HandsEmpty' /\ PreparedIsHeld'
<1>1. \A h \in Hooks : emitter[e].prepared # h
    BY RestartAssumption DEF HandsEmpty
<1> QED
    BY <1>1, HooksKept

\* The record of an emission without its poll.
LEMMA PollOff ==
    ASSUME NEW r \in Emission
    PROVE  LET q == [r EXCEPT !.poll = FALSE]
           IN  /\ q \in Emission /\ q.phase = r.phase
               /\ q.owns = r.owns /\ q.prepared = r.prepared
BY DEF Emission

\* The polls of all emitters end: nothing in the body of an emission changes.
LEMMA PollsEnd ==
    ASSUME NEW em \in [Emitters -> Emission]
    PROVE  /\ PollsOff(em) \in [Emitters -> Emission]
           /\ \A f \in Emitters :
                 /\ PollsOff(em)[f].phase = em[f].phase
                 /\ em[f].phase # "idle" => /\ PollsOff(em)[f].owns = em[f].owns
                                            /\ PollsOff(em)[f].prepared = em[f].prepared
                 /\ em[f].phase = "idle" => PollsOff(em)[f].prepared = Nobody
<1>1. Idle \in Emission /\ Idle.phase = "idle" /\ Idle.prepared = Nobody
    BY Records
<1> DEFINE g(f) == IF em[f].phase = "idle" THEN Idle ELSE [em[f] EXCEPT !.poll = FALSE]
<1>2. PollsOff(em) = [f \in Emitters |-> g(f)]
    BY DEF PollsOff
<1>3. ASSUME NEW f \in Emitters
      PROVE  /\ g(f) \in Emission /\ g(f).phase = em[f].phase
             /\ em[f].phase # "idle" => g(f).owns = em[f].owns /\ g(f).prepared = em[f].prepared
             /\ em[f].phase = "idle" => g(f).prepared = Nobody
    <2>1. em[f] \in Emission
        OBVIOUS
    <2>2. CASE em[f].phase = "idle"
        BY <1>1, <2>2
    <2>3. CASE em[f].phase # "idle"
        <3>1. g(f) = [em[f] EXCEPT !.poll = FALSE]
            BY <2>3
        <3> QED
            BY <2>1, <2>3, <3>1, PollOff
    <2> QED
        BY <2>2, <2>3
<1> HIDE DEF g
<1> QED
    BY <1>2, <1>3

\* A record that rests is idle and holds nothing.
LEMMA RestedRecord ==
    ASSUME NEW r \in Emission
    PROVE  Rested(r) \in Emission /\ Rested(r).phase = "idle" /\ Rested(r).prepared = Nobody
<1>1. CASE r.poll
    <2>1. Rested(r) = [r EXCEPT !.phase = "idle", !.owns = FALSE, !.active = FALSE,
                                !.ok = FALSE, !.parked = Nobody, !.prepared = Nobody]
        BY <1>1 DEF Rested
    <2> QED
        BY <2>1 DEF Emission
<1>2. CASE ~r.poll
    <2>1. Rested(r) = Idle
        BY <1>2 DEF Rested
    <2> QED
        BY <2>1, Records
<1> QED
    BY <1>1, <1>2

\* An emission that rejects its hooks holds none, and is still behind its fence.
LEMMA RejectsRecord ==
    ASSUME NEW r \in Emission, NEW attempted \in BOOLEAN
    PROVE  /\ Rejects(r, attempted) \in Emission
           /\ Rejects(r, attempted).phase \in Leaving
           /\ Rejects(r, attempted).prepared = Nobody
           /\ Rejects(r, attempted).owns = r.owns
BY DEF Rejects, Emission, Body, Preparing, Leaving

\* The fence keeps its owner while emissions under way keep what they own.
LEMMA OwnersStay ==
    ASSUME Fenced, UNCHANGED <<fence, lease, signal>>,
           \A f \in Emitters : InBody(f) => InBody(f)' /\ emitter'[f].owns = emitter[f].owns
    PROVE  Fenced'
BY DEF Fenced

\* Hooks are held while emissions under way keep what they hold.
LEMMA HoldersStay ==
    ASSUME HandsEmpty, PreparedIsHeld,
           \A f \in Emitters : InBody(f) => /\ emitter'[f].phase = emitter[f].phase
                                            /\ emitter'[f].prepared = emitter[f].prepared,
           \A f \in Emitters : ~InBody(f) => emitter'[f].prepared = Nobody,
           \A h \in Hooks : fate'[h] = "prepared" => fate[h] = "prepared"
    PROVE  HandsEmpty' /\ PreparedIsHeld'
<1>1. HandsEmpty'
    BY DEF HandsEmpty
<1>2. PreparedIsHeld'
    BY DEF PreparedIsHeld, InBody
<1> QED
    BY <1>1, <1>2

\* The polls end, and one that rests may begin an attempt.
LEMMA PollsEndAround ==
    ASSUME IInv, NEW e \in Emitters, Free(e),
           emitter' = [PollsOff(emitter) EXCEPT ![e].phase = "waiting"]
    PROVE  /\ emitter' \in [Emitters -> Emission]
           /\ \A f \in Emitters :
                 /\ InBody(f) => /\ emitter'[f].phase = emitter[f].phase
                                /\ emitter'[f].owns = emitter[f].owns
                                /\ emitter'[f].prepared = emitter[f].prepared
                 /\ ~InBody(f) => emitter'[f].prepared = Nobody
<1> DEFINE po == PollsOff(emitter)
<1>1. emitter \in [Emitters -> Emission]
    BY Typed DEF IInv
<1>2. /\ po \in [Emitters -> Emission]
      /\ \A f \in Emitters :
            /\ po[f].phase = emitter[f].phase
            /\ emitter[f].phase # "idle" => /\ po[f].owns = emitter[f].owns
                                            /\ po[f].prepared = emitter[f].prepared
            /\ emitter[f].phase = "idle" => po[f].prepared = Nobody
    BY <1>1, PollsEnd
<1> HIDE DEF po
<1>3. emitter[e].phase = "idle"
    BY Records DEF Free
<1>4. [po[e] EXCEPT !.phase = "waiting"] \in Emission
      /\ [po[e] EXCEPT !.phase = "waiting"].prepared = Nobody
    <2>1. po[e] \in Emission /\ po[e].prepared = Nobody
        BY <1>2, <1>3
    <2> QED
        BY <2>1 DEF Emission
<1>5. emitter' = [po EXCEPT ![e] = [po[e] EXCEPT !.phase = "waiting"]]
    BY <1>2 DEF po
<1>6. emitter' \in [Emitters -> Emission] /\ emitter'[e].prepared = Nobody
      /\ \A f \in Emitters \ {e} : emitter'[f] = po[f]
    BY <1>2, <1>4, <1>5
<1>7. ~InBody(e)
    BY <1>3 DEF InBody, Body, Preparing, Leaving
<1>8. ASSUME NEW f \in Emitters, ~InBody(f) PROVE emitter'[f].prepared = Nobody
    <2>1. emitter[f].phase \in {"idle", "waiting"}
        BY <1>1, <1>8 DEF InBody, Emission
    <2>2. emitter[f].prepared = Nobody
        BY <2>1 DEF IInv, HandsEmpty
    <2> QED
        BY <1>2, <1>6, <2>1, <2>2
<1>9. ASSUME NEW f \in Emitters, InBody(f)
      PROVE  /\ emitter'[f].phase = emitter[f].phase
             /\ emitter'[f].owns = emitter[f].owns
             /\ emitter'[f].prepared = emitter[f].prepared
    <2>1. f # e /\ emitter[f].phase # "idle"
        BY <1>7, <1>9 DEF InBody, Body, Preparing, Leaving
    <2> QED
        BY <1>2, <1>6, <2>1
<1> QED
    BY <1>6, <1>8, <1>9

\* Outside the body of an emission nothing is held.
LEMMA OutsideEmpty ==
    ASSUME IInv, NEW f \in Emitters, ~InBody(f)
    PROVE  emitter[f].prepared = Nobody
BY Typed DEF IInv, HandsEmpty, InBody, Body, Preparing, Leaving

-----------------------------------------------------------------------------
(* One lemma per action.                                                   *)

\* A request moves hooks into the slot or past it, and at most ends polls.
LEMMA SchedulePreserves ==
    ASSUME IInv, NEW h \in Hooks \cup {Nobody}, NEW skip \in BOOLEAN,
           NEW preserve \in BOOLEAN, NEW earlier \in BOOLEAN,
           Schedule(h, skip, preserve, earlier)
    PROVE  IInv'
<1>1. /\ pending \in Requested /\ emitter \in [Emitters -> Emission]
      /\ fate \in [Hooks -> Fates]
    BY Typed DEF IInv
<1>2. fate' \in [Hooks -> Fates] /\ \A k \in Hooks : fate'[k] = "prepared" => fate[k] = "prepared"
    <2>1. CASE Parks(h)
        BY <1>1, <2>1 DEF Parks, Fates
    <2>2. CASE Refused(h)
        BY <1>1, <2>2 DEF Refused, WithFates, Fates
    <2>3. CASE UNCHANGED fate
        BY <1>1, <2>3
    <2> QED
        BY <2>1, <2>2, <2>3
           DEF Schedule, JoinsSignal, BypassesDeferral, Reschedules, JoinsPending, StartsTimer
<1>3. pending' \in Requested
    <2>1. SessionOfCaller(h) \in Sessions \cup {Nobody}
        BY CallersSession
    <2>2. CASE JoinsSignal(h)
        BY <1>1, <2>2 DEF JoinsSignal
    <2>3. CASE BypassesDeferral(h, skip, preserve)
        BY <1>1, <2>1, <2>3 DEF BypassesDeferral, Requested
    <2>4. CASE Reschedules(h, skip, preserve, earlier)
        BY <1>1, <2>1, <2>4 DEF Reschedules, Requested, NoRestart
    <2>5. CASE JoinsPending(h, skip, earlier)
        <3>1. h # Nobody => SessionOf[h] \in Sessions
            BY DEF Sessions
        <3> QED
            BY <1>1, <2>5, <3>1 DEF JoinsPending, Requested
    <2>6. CASE StartsTimer(h, skip)
        BY <1>1, <2>1, <2>6 DEF StartsTimer, Requested, NoRestart
    <2> QED
        BY <2>2, <2>3, <2>4, <2>5, <2>6 DEF Schedule
<1>4. /\ emitter' \in [Emitters -> Emission]
      /\ \A f \in Emitters :
            /\ InBody(f) => /\ emitter'[f].phase = emitter[f].phase
                           /\ emitter'[f].owns = emitter[f].owns
                           /\ emitter'[f].prepared = emitter[f].prepared
            /\ ~InBody(f) => emitter'[f].prepared = Nobody
    <2>1. CASE UNCHANGED emitter
        BY <1>1, <2>1, OutsideEmpty
    <2>2. ASSUME NEW e \in Emitters, Free(e),
                 emitter' = [PollsOff(emitter) EXCEPT ![e].phase = "waiting"]
          PROVE  <1>4
        BY <2>2, PollsEndAround
    <2> QED
        BY <2>1, <2>2
           DEF Schedule, JoinsSignal, BypassesDeferral, Reschedules, JoinsPending, StartsTimer
<1>5. UNCHANGED <<fence, lease, signal, draining, host, held>>
    BY DEF Schedule
<1>6. TypeOK'
    BY <1>2, <1>3, <1>4, <1>5 DEF IInv, TypeOK, Requested, Emission, Fates
<1>7. Fenced'
    BY <1>4, <1>5, OwnersStay DEF IInv, InBody
<1>8. HandsEmpty' /\ PreparedIsHeld'
    BY <1>2, <1>4, HoldersStay DEF IInv
<1> QED
    BY <1>6, <1>7, <1>8 DEF IInv

\* An emitter whose attempt is not in its body steps without touching the fence.
LEMMA OutsideStep ==
    ASSUME IInv, NEW e \in Emitters, ~InBody(e), NEW r \in Emission,
           emitter' = [emitter EXCEPT ![e] = r], r.prepared = Nobody,
           pending' \in Requested, held' \in Holders,
           UNCHANGED <<fence, lease, signal, draining, host, fate>>
    PROVE  IInv'
<1>1. emitter \in [Emitters -> Emission]
    BY Typed DEF IInv
<1>2. /\ emitter' \in [Emitters -> Emission] /\ emitter'[e] = r
      /\ \A f \in Emitters \ {e} : emitter'[f] = emitter[f]
    BY <1>1, OneEmitter
<1>3. TypeOK'
    BY <1>2 DEF IInv, TypeOK, Requested, Emission, Holders
<1>4. Fenced'
    BY <1>2, OwnersStay DEF IInv, InBody
<1>5. HandsEmpty' /\ PreparedIsHeld'
    <2>1. \A f \in Emitters : ~InBody(f) => emitter'[f].prepared = Nobody
        BY <1>2, OutsideEmpty
    <2>2. \A f \in Emitters : InBody(f) => emitter'[f] = emitter[f]
        BY <1>2
    <2> QED
        BY <2>1, <2>2, HoldersStay DEF IInv
<1> QED
    BY <1>3, <1>4, <1>5 DEF IInv

\* The pending restart leaves its timer for a deferral or an attempt.
LEMMA TimerPreserves ==
    ASSUME IInv, NEW e \in Emitters, TimerFires(e)
    PROVE  IInv'
<1>1. PICK r \in IF pending.skip THEN {Unchecked(Idle)} ELSE Begun(Idle) :
          emitter' = [emitter EXCEPT ![e] = r]
    BY DEF TimerFires
<1>2. ~InBody(e)
    BY Records DEF TimerFires, Free, InBody, Body, Preparing, Leaving
<1>3. r \in Emission /\ r.prepared = Nobody
    <2>1. r \in Begun(Idle)
        BY <1>1 DEF Begun
    <2> QED
        BY <2>1, Records, BegunRecord
<1>4. pending' \in Requested /\ held' \in Holders
    BY Typed DEF IInv, TimerFires, Requested
<1> QED
    BY <1>1, <1>2, <1>3, <1>4, OutsideStep DEF TimerFires

\* The poll finds the process idle.
LEMMA TickPreserves ==
    ASSUME IInv, NEW e \in Emitters, PollTick(e)
    PROVE  IInv'
<1> DEFINE r == [emitter[e] EXCEPT !.phase = "waiting", !.idleCheck = TRUE]
<1>1. ~InBody(e) /\ emitter \in [Emitters -> Emission]
    BY Typed DEF IInv, PollTick, InBody, Body, Preparing, Leaving
<1>2. r \in Emission /\ r.prepared = Nobody
    <2>1. emitter[e] \in Emission /\ emitter[e].prepared = Nobody
        BY <1>1, OutsideEmpty
    <2> QED
        BY <2>1 DEF Emission
<1>3. emitter' = [emitter EXCEPT ![e] = r]
    BY <1>1 DEF PollTick
<1>4. pending' \in Requested /\ held' \in Holders
    BY Typed DEF IInv, PollTick
<1> QED
    BY <1>1, <1>2, <1>3, <1>4, OutsideStep DEF PollTick

\* An emission under way keeps its place while its poll ends.
LEMMA InsideStep ==
    ASSUME IInv, NEW e \in Emitters, NEW r \in Emission,
           emitter' = [emitter EXCEPT ![e] = r],
           r.phase = emitter[e].phase, r.owns = emitter[e].owns,
           r.prepared = emitter[e].prepared, held' \in Holders,
           UNCHANGED <<pending, fence, lease, signal, draining, host, fate>>
    PROVE  IInv'
<1>1. emitter \in [Emitters -> Emission]
    BY Typed DEF IInv
<1>2. /\ emitter' \in [Emitters -> Emission] /\ emitter'[e] = r
      /\ \A f \in Emitters \ {e} : emitter'[f] = emitter[f]
    BY <1>1, OneEmitter
<1>3. TypeOK'
    BY <1>2 DEF IInv, TypeOK, Emission, Holders
<1>4. Fenced'
    BY <1>2, OwnersStay DEF IInv, InBody
<1>5. HandsEmpty' /\ PreparedIsHeld'
    <2>1. \A f \in Emitters : ~InBody(f) => emitter'[f].prepared = Nobody
        BY <1>2, OutsideEmpty
    <2> QED
        BY <1>2, <2>1, HoldersStay DEF IInv
<1> QED
    BY <1>3, <1>4, <1>5 DEF IInv

\* Emissions under way keep their place and what they hold, the others hold
\* nothing, and the fence stays as it is or is lifted where no signal is out.
LEMMA AroundStep ==
    ASSUME IInv, emitter' \in [Emitters -> Emission], held' \in Holders,
           \A f \in Emitters : InBody(f) => /\ emitter'[f].phase = emitter[f].phase
                                            /\ emitter'[f].owns = emitter[f].owns
                                            /\ emitter'[f].prepared = emitter[f].prepared,
           \A f \in Emitters : ~InBody(f) => emitter'[f].prepared = Nobody,
           UNCHANGED <<pending, signal, draining, host, fate>>,
           \/ UNCHANGED <<fence, lease>>
           \/ ~signal /\ fence' = Nobody /\ lease' = Nobody
    PROVE  IInv'
<1>1. TypeOK'
    BY DEF IInv, TypeOK, Emission, Holders, Leases
<1>2. Fenced'
    <2>1. CASE UNCHANGED <<fence, lease>>
        BY <2>1, OwnersStay DEF IInv, InBody
    <2>2. CASE ~signal /\ fence' = Nobody /\ lease' = Nobody
        BY <2>2 DEF Fenced
    <2> QED
        BY <2>1, <2>2
<1>3. HandsEmpty' /\ PreparedIsHeld'
    BY HoldersStay DEF IInv
<1> QED
    BY <1>1, <1>2, <1>3 DEF IInv

\* An emitter at rest, or an attempt that waits for its root, emits unchecked.
LEMMA UncheckedStep ==
    ASSUME IInv, NEW e \in Emitters, ~InBody(e),
           emitter' = [emitter EXCEPT ![e] = Unchecked(emitter[e])], held' \in Holders,
           UNCHANGED <<pending, fence, lease, signal, draining, host, fate>>
    PROVE  IInv'
<1>1. emitter[e] \in Emission /\ emitter[e].prepared = Nobody /\ pending' \in Requested
    BY Typed, OutsideEmpty DEF IInv
<1> QED
    BY <1>1, UncheckedRecord, OutsideStep

\* The deferral has waited long enough.
LEMMA TimeOutPreserves ==
    ASSUME IInv, NEW e \in Emitters, PollTimesOut(e)
    PROVE  IInv'
<1>1. emitter \in [Emitters -> Emission] /\ emitter[e] \in Emission /\ held' \in Holders
    BY Typed, HandleTyped DEF IInv, PollTimesOut
<1>2. CASE emitter[e].phase = "idle"
    <2>1. ~InBody(e)
        BY <1>2 DEF InBody, Body, Preparing, Leaving
    <2>2. emitter' = [emitter EXCEPT ![e] = Unchecked(emitter[e])]
        BY <1>1, <1>2 DEF PollTimesOut
    <2> QED
        BY <1>1, <2>1, <2>2, UncheckedStep DEF PollTimesOut
<1>3. CASE emitter[e].phase # "idle"
    <2> DEFINE r == [emitter[e] EXCEPT !.poll = FALSE]
    <2>1. /\ r \in Emission /\ r.phase = emitter[e].phase
          /\ r.owns = emitter[e].owns /\ r.prepared = emitter[e].prepared
        BY <1>1, PollOff
    <2>2. emitter' = [emitter EXCEPT ![e] = r]
        BY <1>1, <1>3 DEF PollTimesOut
    <2> QED
        BY <1>1, <2>1, <2>2, InsideStep DEF PollTimesOut
<1> QED
    BY <1>2, <1>3

\* The poll fails: its emitter, or a free one beside its attempt, emits unchecked.
LEMMA ThrowPreserves ==
    ASSUME IInv, NEW e \in Emitters, PollThrows(e)
    PROVE  IInv'
<1>1. emitter \in [Emitters -> Emission] /\ emitter[e] \in Emission /\ held' \in Holders
    BY Typed, HandleTyped DEF IInv, PollThrows
<1>2. CASE emitter[e].phase = "idle"
    <2>1. ~InBody(e)
        BY <1>2 DEF InBody, Body, Preparing, Leaving
    <2> QED
        BY <1>1, <1>2, <2>1, UncheckedStep DEF PollThrows
<1>3. CASE emitter[e].phase # "idle"
    <2>1. PICK f \in Emitters :
              /\ Free(f)
              /\ emitter' = [emitter EXCEPT
                   ![e].poll = FALSE,
                   ![f] = Unchecked([Idle EXCEPT !.reload = emitter[e].reload,
                                                 !.stale = emitter[e].stale])]
        BY <1>3 DEF PollThrows
    <2> DEFINE q == [Idle EXCEPT !.reload = emitter[e].reload, !.stale = emitter[e].stale]
               u == Unchecked(q)
               r == [emitter[e] EXCEPT !.poll = FALSE]
    <2>2. u \in Emission /\ u.prepared = Nobody
        <3>1. q \in Emission /\ q.prepared = Nobody
            BY <1>1 DEF Emission, Idle
        <3> HIDE DEF q
        <3> QED
            BY <3>1, UncheckedRecord
    <2>3. /\ r \in Emission /\ r.phase = emitter[e].phase
          /\ r.owns = emitter[e].owns /\ r.prepared = emitter[e].prepared
        BY <1>1, PollOff
    <2>4. f # e /\ ~InBody(f)
        BY <1>3, <2>1, Records DEF Free, InBody, Body, Preparing, Leaving
    <2>5. emitter' = [emitter EXCEPT ![e] = r, ![f] = u]
        BY <1>1, <2>1
    <2> HIDE DEF r, u
    <2>6. /\ emitter' \in [Emitters -> Emission] /\ emitter'[e] = r /\ emitter'[f] = u
          /\ \A g \in Emitters \ {e, f} : emitter'[g] = emitter[g]
        BY <1>1, <2>2, <2>3, <2>4, <2>5
    <2>7. \A g \in Emitters : InBody(g) => /\ emitter'[g].phase = emitter[g].phase
                                           /\ emitter'[g].owns = emitter[g].owns
                                           /\ emitter'[g].prepared = emitter[g].prepared
        BY <2>3, <2>4, <2>6
    <2>8. \A g \in Emitters : ~InBody(g) => emitter'[g].prepared = Nobody
        BY <2>2, <2>3, <2>6, OutsideEmpty
    <2> QED
        BY <1>1, <2>6, <2>7, <2>8, AroundStep DEF PollThrows
<1> QED
    BY <1>2, <1>3

\* What superseding does to one emitter.
LEMMA SupersededRecord ==
    ASSUME IInv, NEW f \in Emitters
    PROVE  /\ Superseded(f) \in Emission
           /\ InBody(f) => /\ Superseded(f).phase = emitter[f].phase
                           /\ Superseded(f).owns = emitter[f].owns
                           /\ Superseded(f).prepared = emitter[f].prepared
           /\ ~InBody(f) => Superseded(f).prepared = Nobody
<1> DEFINE was == emitter[f]
           a == was.active /\ ~Stops(f)
           s == [was EXCEPT !.stale = TRUE]
           c == [was EXCEPT !.stale = TRUE, !.cancelled = TRUE, !.poll = FALSE, !.active = a]
<1>1. was \in Emission /\ (~InBody(f) => was.prepared = Nobody)
    BY Typed, OutsideEmpty DEF IInv
<1>2. a \in BOOLEAN
    OBVIOUS
<1>3. \/ Superseded(f) = was
      \/ was.phase = "idle" /\ Superseded(f) = Idle
      \/ Superseded(f) = s
      \/ Superseded(f) = c
    BY DEF Superseded
<1> HIDE DEF a
<1>4. s \in Emission /\ s.phase = was.phase /\ s.owns = was.owns /\ s.prepared = was.prepared
    BY <1>1 DEF Emission
<1>5. c \in Emission /\ c.phase = was.phase /\ c.owns = was.owns /\ c.prepared = was.prepared
    <2> HIDE DEF was
    <2> QED
        BY <1>1, <1>2 DEF Emission
<1>6. was.phase = "idle" => ~InBody(f)
    BY DEF InBody, Body, Preparing, Leaving
<1> HIDE DEF s, c
<1>7. Superseded(f) = s \/ Superseded(f) = c \/ Superseded(f) = was \/
          (Superseded(f) = Idle /\ ~InBody(f))
    BY <1>3, <1>6
<1> QED
    BY <1>1, <1>4, <1>5, <1>7, Records

\* The fence of the deferral that is cancelled falls, where no signal is out.
LEMMA FenceLifted ==
    ASSUME IInv, LiftsHeldFence
    PROVE  UNCHANGED <<fence, lease>> \/ (~signal /\ fence' = Nobody /\ lease' = Nobody)
BY DEF LiftsHeldFence, Stops, IInv, Fenced

\* A superseded reload gives its fence back, unless a signal has joined it.
LEMMA SupersedePreserves ==
    ASSUME IInv, Supersede
    PROVE  IInv'
<1>1. \A f \in Emitters : emitter'[f] = Superseded(f)
    BY DEF Supersede
<1>2. emitter' \in [Emitters -> Emission]
    BY SupersededRecord DEF Supersede
<1>3. \/ UNCHANGED <<fence, lease>>
      \/ ~signal /\ fence' = Nobody /\ lease' = Nobody
    BY FenceLifted DEF Supersede
<1>4. held' \in Holders
    BY DEF Supersede, Holders
<1> QED
    BY <1>1, <1>2, <1>3, <1>4, SupersededRecord, AroundStep DEF Supersede

\* A reload supersedes older ones and begins a deferral of its own.
LEMMA ReloadPreserves ==
    ASSUME IInv, NEW e \in Emitters, ReloadDefers(e)
    PROVE  IInv'
<1>1. PICK r \in Begun([Idle EXCEPT !.reload = TRUE]) :
          /\ emitter' = [f \in Emitters |-> IF f = e THEN r ELSE Superseded(f)]
          /\ held' = IF r.poll THEN e ELSE Nobody
    BY DEF ReloadDefers
<1>2. r \in Emission /\ r.prepared = Nobody
    BY Records, BegunRecord
<1>3. emitter'[e] = r /\ \A f \in Emitters \ {e} : emitter'[f] = Superseded(f)
    BY <1>1
<1>4. emitter' \in [Emitters -> Emission]
    BY <1>1, <1>2, SupersededRecord
<1>5. ~InBody(e)
    <2>1. Superseded(e).phase = "idle"
        BY Records DEF ReloadDefers
    <2>2. InBody(e) => Superseded(e).phase = emitter[e].phase
        BY SupersededRecord
    <2> QED
        BY <2>1, <2>2 DEF InBody, Body, Preparing, Leaving
<1>6. \/ UNCHANGED <<fence, lease>>
      \/ ~signal /\ fence' = Nobody /\ lease' = Nobody
    BY FenceLifted DEF ReloadDefers
<1>7. held' \in Holders
    BY <1>1 DEF Holders
<1> QED
    BY <1>2, <1>3, <1>4, <1>5, <1>6, <1>7, SupersededRecord, AroundStep DEF ReloadDefers

\* An emission that returns without a signal: what it holds is rejected, its
\* fence is lifted.
LEMMA AbandonPreserves ==
    ASSUME IInv, NEW e \in Emitters, NEW attempted \in BOOLEAN, Abandons(e, attempted),
           pending' \in Requested, UNCHANGED <<signal, draining, host>>,
           fate' \in [Hooks -> Fates],
           \A h \in Hooks : fate'[h] = "prepared" =>
               fate[h] = "prepared" /\ emitter[e].prepared # h
    PROVE  IInv'
<1> DEFINE q == [emitter[e] EXCEPT !.poll = @ /\ ~attempted]
           r == Rested(q)
           lifts == ~signal /\ emitter[e].owns /\ fence = e
<1>1. emitter \in [Emitters -> Emission] /\ emitter[e] \in Emission
    BY Typed DEF IInv
<1>2. q \in Emission
    BY <1>1, PollEnds
<1>3. r \in Emission /\ r.phase = "idle" /\ r.prepared = Nobody
    <2> HIDE DEF q
    <2> QED
        BY <1>2, RestedRecord
<1>4. /\ emitter' = [emitter EXCEPT ![e] = r]
      /\ lifts => fence' = Nobody /\ lease' = IF lease = e THEN Nobody ELSE lease
      /\ ~lifts => UNCHANGED <<fence, lease>>
    BY DEF Abandons
<1> HIDE DEF r, q
<1>5. /\ emitter' \in [Emitters -> Emission] /\ emitter'[e] = r
      /\ \A f \in Emitters \ {e} : emitter'[f] = emitter[f]
    BY <1>1, <1>3, <1>4, OneEmitter
<1>6. fence' \in Leases /\ lease' \in Leases /\ held' \in Holders
    BY <1>4, HandleTyped DEF IInv, TypeOK, Leases, Abandons
<1>7. TypeOK'
    BY <1>5, <1>6 DEF IInv, TypeOK, Requested, Emission, Fates, Holders
<1>8. Fenced'
    <2>1. CASE lifts
        BY <1>4, <2>1 DEF IInv, Fenced
    <2>2. CASE ~lifts
        <3>1. ~(fence = e /\ ~signal)
            BY <2>2, RestartAssumption DEF IInv, Fenced
        <3> QED
            BY <1>1, <1>3, <1>4, <2>2, <3>1, FenceKept DEF IInv
    <2> QED
        BY <2>1, <2>2
<1>9. HandsEmpty' /\ PreparedIsHeld'
    BY <1>1, <1>3, <1>4, HooksKept DEF IInv
<1> QED
    BY <1>7, <1>8, <1>9 DEF IInv

\* An emission that is in its body, or enters it, and leaves the fence as it is.
LEMMA BodyStep ==
    ASSUME IInv, NEW e \in Emitters, NEW r \in Emission,
           emitter' = [emitter EXCEPT ![e] = r],
           r.phase \in Body, r.owns = emitter[e].owns,
           r.phase # "drain" => r.prepared = Nobody,
           pending' \in Requested, fate' \in [Hooks -> Fates],
           UNCHANGED <<fence, lease, signal, draining, host, held>>,
           \A h \in Hooks : fate'[h] = "prepared" =>
               \/ r.phase = "drain" /\ r.prepared = h
               \/ fate[h] = "prepared" /\ emitter[e].prepared # h
    PROVE  IInv'
<1>1. emitter \in [Emitters -> Emission]
    BY Typed DEF IInv
<1>2. emitter' \in [Emitters -> Emission]
    BY <1>1, OneEmitter
<1>3. TypeOK'
    BY <1>2 DEF IInv, TypeOK, Requested, Emission, Fates
<1>4. Fenced'
    <2>1. fence = e /\ ~signal => r.owns
        BY RestartAssumption DEF IInv, Fenced
    <2> QED
        BY <1>1, <2>1, FenceKept DEF IInv
<1>5. HandsEmpty' /\ PreparedIsHeld'
    BY <1>1, HooksKept DEF IInv
<1> QED
    BY <1>3, <1>4, <1>5 DEF IInv

\* An emission that gives up may have hooks to reject before it returns.
LEMMA GiveUpPreserves ==
    ASSUME IInv, NEW e \in Emitters, NEW attempted \in BOOLEAN, NEW h,
           GivesUp(e, attempted, h),
           pending' \in Requested, UNCHANGED <<signal, draining, host>>,
           fate' \in [Hooks -> Fates],
           \A k \in Hooks : fate'[k] = "prepared" =>
               fate[k] = "prepared" /\ emitter[e].prepared # k
    PROVE  IInv'
<1>1. CASE h = Nobody
    BY <1>1, AbandonPreserves DEF GivesUp
<1>2. CASE h # Nobody
    <2>1. emitter[e] \in Emission
        BY Typed DEF IInv
    <2>2. /\ Rejects(emitter[e], attempted) \in Emission
          /\ Rejects(emitter[e], attempted).phase \in Leaving
          /\ Rejects(emitter[e], attempted).prepared = Nobody
          /\ Rejects(emitter[e], attempted).owns = emitter[e].owns
        BY <2>1, RejectsRecord
    <2>3. Rejects(emitter[e], attempted).phase # "drain"
        BY <2>2 DEF Leaving
    <2> QED
        BY <1>2, <2>2, <2>3, BodyStep DEF GivesUp, Body, Preparing, Leaving
<1> QED
    BY <1>1, <1>2

\* The root is admitted: the attempt coalesces, or closes admission and goes on.
LEMMA AdmitPreserves ==
    ASSUME IInv, NEW e \in Emitters, Admit(e)
    PROVE  IInv'
<1>1. emitter \in [Emitters -> Emission] /\ emitter[e] \in Emission /\ pending \in Requested
    BY Typed DEF IInv
<1>2. ~InBody(e) /\ emitter[e].prepared = Nobody
    BY OutsideEmpty DEF Admit, InBody, Body, Preparing, Leaving
<1>3. fence = Nobody /\ lease = Nobody
    BY DEF Admit, Open, IInv, Fenced
<1>4. CASE emitter' = [emitter EXCEPT ![e] = Rested(emitter[e])] /\ UNCHANGED <<fence, lease>>
    <2>1. Rested(emitter[e]) \in Emission /\ Rested(emitter[e]).prepared = Nobody
        BY <1>1, RestedRecord
    <2>2. pending' \in Requested /\ held' \in Holders
        BY <1>1, HandleTyped DEF Admit, IInv
    <2> QED
        BY <1>2, <1>4, <2>1, <2>2, OutsideStep DEF Admit
<1>5. ASSUME emitter' = [emitter EXCEPT ![e] =
                 [emitter[e] EXCEPT !.phase = IF emitter[e].reload THEN "caller" ELSE "drain",
                                    !.owns = lease = Nobody, !.active = TRUE]],
             fence' = e, lease' = e
      PROVE  IInv'
    <2> DEFINE r == [emitter[e] EXCEPT !.phase = IF emitter[e].reload THEN "caller" ELSE "drain",
                                       !.owns = TRUE, !.active = TRUE]
    <2>1. /\ r \in Emission /\ r.phase \in Body /\ r.owns = TRUE
          /\ r.prepared = Nobody
        BY <1>1, <1>2 DEF Emission, Body, Preparing, Leaving
    <2>2. emitter' = [emitter EXCEPT ![e] = r]
        <3>1. (lease = Nobody) = TRUE
            BY <1>3
        <3> QED
            BY <1>5, <3>1
    <2> HIDE DEF r
    <2>3. /\ emitter' \in [Emitters -> Emission] /\ emitter'[e] = r
          /\ \A f \in Emitters \ {e} : emitter'[f] = emitter[f]
        BY <1>1, <2>1, <2>2, OneEmitter
    <2>4. UNCHANGED <<pending, signal, draining, host, held, fate>>
        BY DEF Admit
    <2>5. TypeOK'
        BY <1>5, <2>3, <2>4 DEF IInv, TypeOK, Requested, Emission, Fates, Leases
    <2>6. Fenced'
        BY <1>5, <2>1, <2>3, RestartAssumption DEF Fenced, InBody
    <2>7. HandsEmpty' /\ PreparedIsHeld'
        <3>1. \A f \in Emitters : ~InBody(f) => emitter'[f].prepared = Nobody
            BY <2>1, <2>3, OutsideEmpty
        <3>2. \A f \in Emitters : InBody(f) => emitter'[f] = emitter[f]
            BY <1>2, <2>3
        <3> QED
            BY <2>4, <3>1, <3>2, HoldersStay DEF IInv
    <2> QED
        BY <2>5, <2>6, <2>7 DEF IInv
<1> QED
    BY <1>3, <1>4, <1>5 DEF Admit

\* The last idle check throws.
LEMMA AdmitThrowPreserves ==
    ASSUME IInv, NEW e \in Emitters, AdmitThrows(e)
    PROVE  IInv'
<1>1. ~InBody(e) /\ held' \in Holders
    BY HandleTyped DEF IInv, AdmitThrows, InBody, Body, Preparing, Leaving
<1> QED
    BY <1>1, UncheckedStep DEF AdmitThrows

\* The gateway drains: the wait for a root ends.
LEMMA AdmitDrainingPreserves ==
    ASSUME IInv, NEW e \in Emitters, AdmitDraining(e)
    PROVE  IInv'
<1>1. ~InBody(e)
    BY DEF AdmitDraining, InBody, Body, Preparing, Leaving
<1>2. pending' \in Requested /\ held' \in Holders
    BY Typed, HandleTyped DEF IInv, AdmitDraining
<1> QED
    BY <1>1, <1>2, Records, OutsideStep DEF AdmitDraining

\* The caller's own beforeEmit returns.
LEMMA CallerPreserves ==
    ASSUME IInv, NEW e \in Emitters, NEW ok \in BOOLEAN, CallerPrepared(e, ok)
    PROVE  IInv'
<1>1. /\ emitter \in [Emitters -> Emission] /\ emitter[e] \in Emission
      /\ pending' \in Requested /\ fate' \in [Hooks -> Fates] /\ fate' = fate
      /\ UNCHANGED <<signal, draining, host>>
    BY Typed DEF IInv, CallerPrepared
<1>2. \A h \in Hooks : emitter[e].prepared # h
    BY RestartAssumption DEF CallerPrepared, IInv, HandsEmpty
<1>3. CASE IsCurrent(e)
    <2> DEFINE r == [emitter[e] EXCEPT !.phase = "drain", !.ok = ok]
    <2>1. r \in Emission /\ r.phase = "drain" /\ r.owns = emitter[e].owns
        BY <1>1 DEF Emission, Body, Preparing, Leaving
    <2>2. emitter' = [emitter EXCEPT ![e] = r] /\ UNCHANGED <<fence, lease, held>>
        BY <1>1, <1>3 DEF CallerPrepared
    <2> QED
        BY <1>1, <1>2, <2>1, <2>2, BodyStep DEF Body, Preparing, Leaving
<1>4. CASE ~IsCurrent(e)
    BY <1>1, <1>2, <1>4, AbandonPreserves DEF CallerPrepared
<1> QED
    BY <1>3, <1>4

\* Parked hooks are taken, those prepared before them are rejected.
LEMMA TakePreserves ==
    ASSUME IInv, NEW e \in Emitters, TakeParked(e)
    PROVE  IInv'
<1> DEFINE r == [emitter[e] EXCEPT
                   !.parked = pending.slot, !.prepared = Nobody,
                   !.phase = IF emitter[e].prepared = Nobody THEN "parked" ELSE "rejecting"]
<1>1. /\ emitter \in [Emitters -> Emission] /\ emitter[e] \in Emission
      /\ pending \in Requested /\ fate \in [Hooks -> Fates]
    BY Typed DEF IInv
<1>2. /\ r \in Emission /\ r.phase \in Body /\ r.prepared = Nobody
      /\ r.owns = emitter[e].owns
    <2>1. pending.slot \in Hooks \cup {Nobody}
        BY <1>1 DEF Requested
    <2> QED
        BY <1>1, <2>1 DEF Emission, Body, Preparing, Leaving
<1>3. emitter' = [emitter EXCEPT ![e] = r]
    BY <1>1 DEF TakeParked
<1>4. pending' \in Requested
    BY <1>1 DEF TakeParked, Requested
<1>5. /\ fate' \in [Hooks -> Fates]
      /\ \A h \in Hooks : fate'[h] = "prepared" =>
             fate[h] = "prepared" /\ emitter[e].prepared # h
    BY <1>1 DEF TakeParked, WithFates, Fates
<1> HIDE DEF r
<1> QED
    BY <1>2, <1>3, <1>4, <1>5, BodyStep DEF TakeParked

\* The rejection of superseded hooks returns.
LEMMA RejectedPreserves ==
    ASSUME IInv, NEW e \in Emitters, ParkedRejected(e)
    PROVE  IInv'
<1>1. /\ emitter \in [Emitters -> Emission] /\ emitter[e] \in Emission
      /\ pending' \in Requested /\ fate' \in [Hooks -> Fates] /\ fate' = fate
      /\ UNCHANGED <<signal, draining, host>>
    BY Typed DEF IInv, ParkedRejected
<1>2. emitter[e].prepared = Nobody /\ \A h \in Hooks : emitter[e].prepared # h
    BY RestartAssumption DEF ParkedRejected, IInv, HandsEmpty
<1>3. CASE IsCurrent(e)
    <2> DEFINE r == [emitter[e] EXCEPT !.phase = "parked"]
    <2>1. /\ r \in Emission /\ r.phase = "parked" /\ r.owns = emitter[e].owns
          /\ r.prepared = Nobody
        BY <1>1, <1>2 DEF Emission, Body, Preparing, Leaving
    <2>2. emitter' = [emitter EXCEPT ![e] = r] /\ UNCHANGED <<fence, lease, held>>
        BY <1>1, <1>3 DEF ParkedRejected
    <2> QED
        BY <1>1, <1>2, <2>1, <2>2, BodyStep DEF Body, Preparing, Leaving
<1>4. CASE ~IsCurrent(e)
    <2>1. Abandons(e, FALSE)
        BY <1>4 DEF ParkedRejected
    <2> QED
        BY <1>1, <1>2, <2>1, AbandonPreserves
<1> QED
    BY <1>3, <1>4

\* The beforeEmit of parked hooks returns.
LEMMA PreparedPreserves ==
    ASSUME IInv, NEW e \in Emitters, NEW ok \in BOOLEAN, ParkedPrepared(e, ok)
    PROVE  IInv'
<1>1. /\ emitter \in [Emitters -> Emission] /\ emitter[e] \in Emission
      /\ pending' \in Requested /\ fate \in [Hooks -> Fates]
      /\ UNCHANGED <<signal, draining, host>>
    BY Typed DEF IInv, ParkedPrepared
<1>2. \A h \in Hooks : emitter[e].prepared # h
    BY RestartAssumption DEF ParkedPrepared, IInv, HandsEmpty
<1>3. CASE IsCurrent(e)
    <2> DEFINE r == [emitter[e] EXCEPT !.phase = "drain", !.parked = Nobody,
                       !.prepared = IF ok THEN emitter[e].parked ELSE Nobody]
    <2>1. /\ r \in Emission /\ r.phase = "drain" /\ r.owns = emitter[e].owns
          /\ r.prepared = IF ok THEN emitter[e].parked ELSE Nobody
        BY <1>1 DEF Emission, Body, Preparing, Leaving
    <2>2. emitter' = [emitter EXCEPT ![e] = r] /\ UNCHANGED <<fence, lease, held>>
        BY <1>1, <1>3 DEF ParkedPrepared
    <2>3. /\ fate' \in [Hooks -> Fates]
          /\ \A h \in Hooks : fate'[h] = "prepared" =>
                 (ok /\ h = emitter[e].parked) \/ fate[h] = "prepared"
        BY <1>1, <1>3 DEF ParkedPrepared, WithFates, Fates
    <2> HIDE DEF r
    <2> QED
        BY <1>1, <1>2, <2>1, <2>2, <2>3, BodyStep DEF Body, Preparing, Leaving
<1>4. CASE ~IsCurrent(e)
    <2>1. GivesUp(e, FALSE, IF ok THEN emitter[e].parked ELSE Nobody)
        BY <1>4 DEF ParkedPrepared
    <2>2. /\ fate' \in [Hooks -> Fates]
          /\ \A h \in Hooks : fate'[h] = "prepared" => fate[h] = "prepared"
        BY <1>1, <1>4 DEF ParkedPrepared, WithFates, Fates
    <2> QED
        BY <1>1, <1>2, <2>1, <2>2, GiveUpPreserves
<1> QED
    BY <1>3, <1>4

\* One signal for everybody, or none and the fence lifted.
LEMMA RequestsPreserve ==
    ASSUME IInv, NEW em \in [Emitters -> Emission], NEW by \in Emitters \cup {"direct"},
           NEW sent \in BOOLEAN, Requests(sent, em, by), held' \in Holders,
           UNCHANGED <<draining, host>>, fate' \in [Hooks -> Fates],
           \A f \in Emitters : em[f].phase # "drain" => em[f].prepared = Nobody,
           \A h \in Hooks : fate'[h] = "prepared" =>
               \E f \in Emitters : em[f].phase \in Body /\ em[f].prepared = h
    PROVE  IInv'
<1> DEFINE po == PollsOff(em)
<1>1. /\ po \in [Emitters -> Emission]
      /\ \A f \in Emitters :
            /\ po[f].phase = em[f].phase
            /\ em[f].phase # "idle" => po[f].prepared = em[f].prepared
            /\ em[f].phase = "idle" => po[f].prepared = Nobody
    BY PollsEnd
<1>2. emitter' = po /\ pending' = NoRestart
    BY DEF Requests
<1> HIDE DEF po
<1>3. Fenced' /\ fence' \in Leases /\ lease' \in Leases /\ signal' \in BOOLEAN
    <2>1. by # Nobody /\ by \in Leases /\ fence \in Leases /\ lease \in Leases /\ lease = fence
        BY RestartAssumption DEF IInv, TypeOK, Fenced, Leases
    <2>2. CASE signal' = TRUE /\ (IF lease = Nobody THEN fence' = by /\ lease' = by
                                                  ELSE UNCHANGED <<fence, lease>>)
        BY <2>1, <2>2 DEF Fenced
    <2>3. CASE ~signal /\ fence' = Nobody /\ lease' = Nobody /\ UNCHANGED signal
        <3>1. signal \in BOOLEAN
            BY DEF IInv, TypeOK
        <3> QED
            BY <2>3, <3>1 DEF Fenced, Leases
    <2> QED
        BY <2>2, <2>3 DEF Requests
<1>4. TypeOK'
    BY <1>1, <1>2, <1>3, Records DEF IInv, TypeOK, Requested, Emission, Fates, Holders
<1>5. HandsEmpty'
    BY <1>1, <1>2 DEF HandsEmpty
<1>6. PreparedIsHeld'
    <2> SUFFICES ASSUME NEW h \in Hooks, fate'[h] = "prepared"
                 PROVE  \E f \in Emitters : InBody(f)' /\ emitter'[f].prepared = h
        BY DEF PreparedIsHeld
    <2>1. PICK f \in Emitters : em[f].phase \in Body /\ em[f].prepared = h
        OBVIOUS
    <2>2. em[f].phase # "idle"
        BY <2>1 DEF Body, Preparing, Leaving
    <2> QED
        BY <1>1, <1>2, <2>1, <2>2 DEF InBody
<1> QED
    BY <1>3, <1>4, <1>5, <1>6 DEF IInv

\* The emission emits, or returns without.
LEMMA EmitPreserves ==
    ASSUME IInv, NEW e \in Emitters, Emit(e)
    PROVE  IInv'
<1>1. /\ emitter \in [Emitters -> Emission] /\ emitter[e] \in Emission
      /\ pending \in Requested /\ fate \in [Hooks -> Fates]
      /\ UNCHANGED <<draining, host>>
    BY Typed DEF IInv, Emit
<1>2. /\ fate' \in [Hooks -> Fates]
      /\ \A h \in Hooks : fate'[h] = "prepared" =>
             fate[h] = "prepared" /\ emitter[e].prepared # h
    BY <1>1 DEF Emit, WithFates, Fates
<1>3. ASSUME NEW attempted \in BOOLEAN, GivesUp(e, attempted, emitter[e].prepared),
             UNCHANGED signal, pending' = [pending EXCEPT !.session = Nobody]
      PROVE  IInv'
    <2>1. pending' \in Requested
        BY <1>1, <1>3 DEF Requested
    <2> QED
        BY <1>1, <1>2, <1>3, <2>1, GiveUpPreserves
<1>4. ASSUME NEW sent \in BOOLEAN,
             Requests(sent, [emitter EXCEPT ![e] = Emitted(emitter[e], sent)], e),
             held' = IF Emitted(emitter[e], sent) = Idle THEN HeldOnReady(e) ELSE held
      PROVE  IInv'
    <2> DEFINE r == Emitted(emitter[e], sent)
               em == [emitter EXCEPT ![e] = r]
    <2>1. r \in Emission /\ r.prepared = Nobody
        BY <1>1, RejectsRecord, Records DEF Emitted
    <2>2. held' \in Holders
        BY <1>4, HandleTyped DEF IInv
    <2>3. Requests(sent, em, e)
        BY <1>4
    <2> HIDE DEF r
    <2>4. /\ em \in [Emitters -> Emission] /\ em[e] = r
          /\ \A f \in Emitters \ {e} : em[f] = emitter[f]
        BY <1>1, <2>1
    <2> HIDE DEF em
    <2>5. \A f \in Emitters : em[f].phase # "drain" => em[f].prepared = Nobody
        BY <2>1, <2>4 DEF IInv, HandsEmpty
    <2>6. ASSUME NEW h \in Hooks, fate'[h] = "prepared"
          PROVE  \E f \in Emitters : em[f].phase \in Body /\ em[f].prepared = h
        <3>1. fate[h] = "prepared" /\ emitter[e].prepared # h
            BY <1>2, <2>6
        <3>2. PICK f \in Emitters : InBody(f) /\ emitter[f].prepared = h
            BY <3>1 DEF IInv, PreparedIsHeld
        <3>3. f # e
            BY <3>1, <3>2
        <3> QED
            BY <2>4, <3>2, <3>3 DEF InBody
    <2> QED
        BY <1>1, <1>2, <2>2, <2>3, <2>4, <2>5, <2>6, RequestsPreserve
<1> QED
    BY <1>3, <1>4 DEF Emit

\* The hooks are rejected, and the attempt ends.
LEMMA HooksRejectedPreserves ==
    ASSUME IInv, NEW e \in Emitters, HooksRejected(e)
    PROVE  IInv'
<1>1. /\ pending' \in Requested /\ fate' \in [Hooks -> Fates] /\ fate' = fate
      /\ UNCHANGED <<signal, draining, host>>
    BY Typed DEF IInv, HooksRejected
<1>2. \A h \in Hooks : emitter[e].prepared # h
    BY RestartAssumption DEF HooksRejected, Leaving, IInv, HandsEmpty
<1> QED
    BY <1>1, <1>2, AbandonPreserves DEF HooksRejected

\* A request that finds the process ready emits at once.
LEMMA DirectPreserves ==
    ASSUME IInv, DirectRequest
    PROVE  IInv'
<1>1. emitter \in [Emitters -> Emission] /\ fate \in [Hooks -> Fates]
    BY Typed DEF IInv
<1>2. /\ fate' \in [Hooks -> Fates]
      /\ \A h \in Hooks : fate'[h] = "prepared" => fate[h] = "prepared"
    BY <1>1 DEF DirectRequest, WithFates, Fates
<1>3. \A f \in Emitters : emitter[f].phase # "drain" => emitter[f].prepared = Nobody
    BY DEF IInv, HandsEmpty
<1>4. \A h \in Hooks : fate'[h] = "prepared" =>
          \E f \in Emitters : emitter[f].phase \in Body /\ emitter[f].prepared = h
    BY <1>2 DEF IInv, PreparedIsHeld, InBody
<1>5. held' \in Holders
    BY Typed DEF IInv, DirectRequest
<1> QED
    BY <1>1, <1>2, <1>3, <1>4, <1>5, RequestsPreserve DEF DirectRequest

\* A step that touches no emission and no hooks, and leaves the fence or lifts it.
LEMMA HostStep ==
    ASSUME IInv, UNCHANGED <<pending, emitter, held, fate>>, draining' \in BOOLEAN,
           host' \in [suspended : BOOLEAN, busy : BOOLEAN],
           \/ UNCHANGED <<fence, lease, signal>>
           \/ fence' = Nobody /\ lease' = Nobody /\ signal' = FALSE
    PROVE  IInv'
<1>1. TypeOK'
    BY DEF IInv, TypeOK, Leases
<1>2. Fenced'
    BY DEF IInv, Fenced, InBody
<1>3. HandsEmpty' /\ PreparedIsHeld'
    BY DEF IInv, HandsEmpty, PreparedIsHeld, InBody
<1> QED
    BY <1>1, <1>2, <1>3 DEF IInv

\* The process starts anew: the fence is lifted, what polled is over.
LEMMA ResetPreserves ==
    ASSUME IInv, Reset
    PROVE  IInv'
<1>1. emitter \in [Emitters -> Emission] /\ fate \in [Hooks -> Fates]
    BY Typed DEF IInv
<1> DEFINE g(f) == IF emitter[f].phase = "idle" THEN Idle
                   ELSE [emitter[f] EXCEPT !.poll = FALSE, !.current = FALSE]
<1>2. ASSUME NEW f \in Emitters
      PROVE  /\ g(f) \in Emission
             /\ InBody(f) => g(f).phase = emitter[f].phase /\ g(f).prepared = emitter[f].prepared
             /\ ~InBody(f) => g(f).prepared = Nobody
    <2>1. CASE emitter[f].phase = "idle"
        BY <2>1, Records DEF InBody, Body, Preparing, Leaving
    <2>2. CASE emitter[f].phase # "idle"
        <3>1. emitter[f] \in Emission /\ (~InBody(f) => emitter[f].prepared = Nobody)
            BY <1>1, OutsideEmpty
        <3>2. g(f) = [emitter[f] EXCEPT !.poll = FALSE, !.current = FALSE]
            BY <2>2
        <3>3. /\ g(f) \in Emission /\ g(f).phase = emitter[f].phase
              /\ g(f).prepared = emitter[f].prepared
            BY <3>1, <3>2 DEF Emission
        <3> QED
            BY <3>1, <3>3
    <2> QED
        BY <2>1, <2>2
<1>3. emitter' = [f \in Emitters |-> g(f)]
    BY DEF Reset
<1> HIDE DEF g
<1>4. /\ fate' \in [Hooks -> Fates]
      /\ \A h \in Hooks : fate'[h] = "prepared" => fate[h] = "prepared"
    BY <1>1 DEF Reset, WithFates, Fates
<1>5. TypeOK'
    <2>1. emitter' \in [Emitters -> Emission]
        BY <1>2, <1>3
    <2>2. host' \in [suspended : BOOLEAN, busy : BOOLEAN]
        BY DEF Reset
    <2> QED
        BY <1>4, <2>1, <2>2, Records, Typed
           DEF Reset, TypeOK, Requested, Emission, Fates, Leases, Holders
<1>6. Fenced'
    BY DEF Reset, Fenced
<1>7. HandsEmpty' /\ PreparedIsHeld'
    BY <1>2, <1>3, <1>4, HoldersStay DEF IInv
<1> QED
    BY <1>5, <1>6, <1>7 DEF IInv

-----------------------------------------------------------------------------
(* The last idle check.                                                    *)

\* What an emitter's record says of an emission that waits for idle work.
Waits(r) == r.phase \in Preparing /\ r.idleCheck /\ r.current /\ r.active

\* A record that is in the body of an emission, or waits there, as another did.
Keeps(r, was) ==
    /\ r.phase \in Body => was.phase \in Body
    /\ Waits(r) => Waits(was)

\* IdleStaysIdle, in terms of the records.
LEMMA WaitingIsAlone ==
    IdleStaysIdle <=>
        \A e \in Emitters : Waits(emitter[e]) =>
            /\ fence = e /\ ~signal /\ ~host.busy
            /\ \A f \in Emitters \ {e} : emitter[f].phase \notin Body
BY DEF IdleStaysIdle, Waits, InBody, IsCurrent, Body

\* A step in which no emission enters its body keeps the answer, if it leaves
\* the fence, the signal and the work to those that wait.
LEMMA IdleKept ==
    ASSUME IdleStaysIdle, \A f \in Emitters : Keeps(emitter'[f], emitter[f]),
           \A f \in Emitters : Waits(emitter'[f]) =>
               UNCHANGED <<fence, signal>> /\ (host.busy' => host.busy)
    PROVE  IdleStaysIdle'
<1> SUFFICES ASSUME NEW e \in Emitters, Waits(emitter'[e])
             PROVE  /\ fence' = e /\ ~signal' /\ ~host.busy'
                    /\ \A f \in Emitters \ {e} : emitter'[f].phase \notin Body
    BY DEF IdleStaysIdle, Waits, InBody, IsCurrent
<1>1. Waits(emitter[e])
    BY DEF Keeps
<1>2. /\ fence = e /\ ~signal /\ ~host.busy
      /\ \A f \in Emitters \ {e} : emitter[f].phase \notin Body
    BY <1>1, WaitingIsAlone
<1> QED
    BY <1>2 DEF Keeps

\* One emitter's record changes into one that keeps it.
LEMMA OneKeeps ==
    ASSUME emitter \in [Emitters -> Emission], NEW e \in Emitters, NEW r \in Emission,
           emitter' = [emitter EXCEPT ![e] = r], Keeps(r, emitter[e])
    PROVE  \A f \in Emitters : Keeps(emitter'[f], emitter[f])
<1>1. emitter'[e] = r /\ \A f \in Emitters \ {e} : emitter'[f] = emitter[f]
    BY OneEmitter
<1>2. \A f \in Emitters : Keeps(emitter[f], emitter[f])
    BY DEF Keeps
<1> QED
    BY <1>1, <1>2

\* The polls end, and one that rests may begin an attempt.
LEMMA PollsEndKeeps ==
    ASSUME NEW em \in [Emitters -> Emission], NEW f \in Emitters
    PROVE  /\ Keeps(PollsOff(em)[f], em[f])
           /\ em[f] = Idle => Keeps([PollsOff(em)[f] EXCEPT !.phase = "waiting"], em[f])
<1>1. PollsOff(em)[f] = IF em[f].phase = "idle" THEN Idle ELSE [em[f] EXCEPT !.poll = FALSE]
    BY DEF PollsOff
<1>2. em[f] \in Emission
    OBVIOUS
<1>3. CASE em[f].phase = "idle"
    <2>1. PollsOff(em)[f] = Idle
        BY <1>1, <1>3
    <2>2. [Idle EXCEPT !.phase = "waiting"].phase = "waiting" /\ Idle.phase = "idle"
        BY DEF Idle
    <2> QED
        BY <2>1, <2>2 DEF Keeps, Waits, Body, Preparing, Leaving
<1>4. CASE em[f].phase # "idle"
    <2> DEFINE was == em[f]
               q == [was EXCEPT !.poll = FALSE]
    <2>1. PollsOff(em)[f] = q /\ was # Idle
        BY <1>1, <1>4, Records
    <2>2. /\ q.phase = was.phase /\ q.idleCheck = was.idleCheck
          /\ q.current = was.current /\ q.active = was.active
        BY <1>2 DEF Emission
    <2>3. Keeps(q, was)
        BY <2>2 DEF Keeps, Waits
    <2> QED
        BY <2>1, <2>3
<1> QED
    BY <1>3, <1>4

\* A request ends polls and begins attempts; it enters no body.
LEMMA ScheduleStaysIdle ==
    ASSUME IInv, IdleStaysIdle, NEW h \in Hooks \cup {Nobody}, NEW skip \in BOOLEAN,
           NEW preserve \in BOOLEAN, NEW earlier \in BOOLEAN,
           Schedule(h, skip, preserve, earlier)
    PROVE  IdleStaysIdle'
<1>1. emitter \in [Emitters -> Emission]
    BY Typed DEF IInv
<1>2. \A f \in Emitters : Keeps(emitter'[f], emitter[f])
    <2>1. CASE UNCHANGED emitter
        BY <2>1 DEF Keeps
    <2>2. ASSUME NEW e \in Emitters, Free(e),
                 emitter' = [PollsOff(emitter) EXCEPT ![e].phase = "waiting"]
          PROVE  <1>2
        <3> DEFINE po == PollsOff(emitter)
        <3>1. po \in [Emitters -> Emission]
            BY <1>1, PollsEnd
        <3>2. /\ \A f \in Emitters : Keeps(po[f], emitter[f])
              /\ Keeps([po[e] EXCEPT !.phase = "waiting"], emitter[e])
            BY <1>1, <2>2, PollsEndKeeps DEF Free
        <3> HIDE DEF po
        <3>3. /\ emitter'[e] = [po[e] EXCEPT !.phase = "waiting"]
              /\ \A f \in Emitters \ {e} : emitter'[f] = po[f]
            BY <2>2, <3>1 DEF po
        <3> QED
            BY <3>2, <3>3
    <2> QED
        BY <2>1, <2>2
           DEF Schedule, JoinsSignal, BypassesDeferral, Reschedules, JoinsPending, StartsTimer
<1>3. UNCHANGED <<fence, signal, host>>
    BY DEF Schedule
<1> QED
    BY <1>2, <1>3, IdleKept

\* A step of an emitter that ends outside its body and leaves the fence alone.
LEMMA OutsideStaysIdle ==
    ASSUME IInv, IdleStaysIdle, NEW e \in Emitters, NEW r \in Emission,
           emitter' = [emitter EXCEPT ![e] = r], r.phase \notin Body,
           UNCHANGED <<fence, signal, host>>
    PROVE  IdleStaysIdle'
<1>1. emitter \in [Emitters -> Emission]
    BY Typed DEF IInv
<1>2. Keeps(r, emitter[e])
    BY DEF Keeps, Waits, Body
<1> QED
    BY <1>1, <1>2, OneKeeps, IdleKept

\* A step inside the body, which neither hastens nor revives the emission.
LEMMA InsideStaysIdle ==
    ASSUME IInv, IdleStaysIdle, NEW e \in Emitters, NEW r \in Emission,
           emitter' = [emitter EXCEPT ![e] = r], emitter[e].phase \in Preparing,
           r.idleCheck = emitter[e].idleCheck, r.current = emitter[e].current,
           r.active = emitter[e].active, UNCHANGED <<fence, signal, host>>
    PROVE  IdleStaysIdle'
<1>1. emitter \in [Emitters -> Emission]
    BY Typed DEF IInv
<1>2. Keeps(r, emitter[e])
    BY DEF Keeps, Waits, Body
<1> QED
    BY <1>1, <1>2, OneKeeps, IdleKept

\* Whatever an emission does to the fence as it stops preparing, nobody waits
\* then: no other emission waits beside one in its body.
LEMMA LeavingStaysIdle ==
    ASSUME IInv, IdleStaysIdle, NEW e \in Emitters, InBody(e),
           ~Waits(emitter'[e]),
           \A f \in Emitters \ {e} : Keeps(emitter'[f], emitter[f])
    PROVE  IdleStaysIdle'
<1>1. ASSUME NEW f \in Emitters PROVE ~Waits(emitter'[f])
    <2>1. CASE f # e
        <3>1. Waits(emitter'[f]) => Waits(emitter[f])
            BY <2>1 DEF Keeps
        <3> QED
            BY <2>1, <3>1, WaitingIsAlone DEF InBody
    <2> QED
        BY <2>1
<1> QED
    BY <1>1 DEF IdleStaysIdle, Waits, InBody, IsCurrent

\* An emission that gives up.
LEMMA AbandonStaysIdle ==
    ASSUME IInv, IdleStaysIdle, NEW e \in Emitters, NEW attempted \in BOOLEAN,
           InBody(e), Abandons(e, attempted)
    PROVE  IdleStaysIdle'
<1> DEFINE q == [emitter[e] EXCEPT !.poll = @ /\ ~attempted]
           r == Rested(q)
<1>1. emitter \in [Emitters -> Emission] /\ emitter[e] \in Emission
    BY Typed DEF IInv
<1>2. q \in Emission
    BY <1>1, PollEnds
<1>3. r \in Emission /\ r.phase = "idle"
    <2> HIDE DEF q
    <2> QED
        BY <1>2, RestedRecord
<1>4. emitter' = [emitter EXCEPT ![e] = r]
    BY DEF Abandons
<1> HIDE DEF r, q
<1>5. emitter'[e] = r /\ \A f \in Emitters \ {e} : emitter'[f] = emitter[f]
    BY <1>1, <1>3, <1>4, OneEmitter
<1>6. ~Waits(emitter'[e]) /\ \A f \in Emitters \ {e} : Keeps(emitter'[f], emitter[f])
    BY <1>3, <1>5 DEF Keeps, Waits, Body, Preparing, Leaving
<1> QED
    BY <1>6, LeavingStaysIdle

\* An emission that gives up, with or without hooks to reject.
LEMMA GiveUpStaysIdle ==
    ASSUME IInv, IdleStaysIdle, NEW e \in Emitters, NEW attempted \in BOOLEAN, NEW h,
           InBody(e), GivesUp(e, attempted, h)
    PROVE  IdleStaysIdle'
<1>1. CASE h = Nobody
    BY <1>1, AbandonStaysIdle DEF GivesUp
<1>2. CASE h # Nobody
    <2> DEFINE r == Rejects(emitter[e], attempted)
    <2>1. emitter \in [Emitters -> Emission] /\ emitter[e] \in Emission
        BY Typed DEF IInv
    <2>2. r \in Emission /\ r.phase \in Leaving
        BY <2>1, RejectsRecord
    <2>3. emitter' = [emitter EXCEPT ![e] = r]
        BY <1>2 DEF GivesUp
    <2> HIDE DEF r
    <2>4. emitter'[e] = r /\ \A f \in Emitters \ {e} : emitter'[f] = emitter[f]
        BY <2>1, <2>2, <2>3, OneEmitter
    <2>5. ~Waits(emitter'[e]) /\ \A f \in Emitters \ {e} : Keeps(emitter'[f], emitter[f])
        BY <2>2, <2>4 DEF Keeps, Waits, Preparing, Leaving
    <2> QED
        BY <2>5, LeavingStaysIdle
<1> QED
    BY <1>1, <1>2

\* An emitter that is to emit unchecked has yet to be admitted.
LEMMA UncheckedStaysIdle ==
    ASSUME IInv, IdleStaysIdle, NEW e \in Emitters,
           emitter' = [emitter EXCEPT ![e] = Unchecked(emitter[e])],
           UNCHANGED <<fence, signal, host>>
    PROVE  IdleStaysIdle'
<1>1. emitter[e] \in Emission
    BY Typed DEF IInv
<1>2. Unchecked(emitter[e]) \in Emission /\ Unchecked(emitter[e]).phase \notin Body
    BY <1>1, UncheckedRecord DEF Body, Preparing, Leaving
<1> QED
    BY <1>2, OutsideStaysIdle

\* Steps outside the body of an emission: the timer and the polls.
LEMMA OutsideActionsStayIdle ==
    ASSUME IInv, IdleStaysIdle, NEW e \in Emitters,
           TimerFires(e) \/ PollTick(e) \/ AdmitThrows(e) \/ AdmitDraining(e)
    PROVE  IdleStaysIdle'
<1>1. emitter \in [Emitters -> Emission] /\ emitter[e] \in Emission
    BY Typed DEF IInv
<1>2. CASE TimerFires(e)
    <2>1. PICK r \in IF pending.skip THEN {Unchecked(Idle)} ELSE Begun(Idle) :
              emitter' = [emitter EXCEPT ![e] = r]
        BY <1>2 DEF TimerFires
    <2>2. r \in Begun(Idle)
        BY <2>1 DEF Begun
    <2>3. r \in Emission /\ r.phase \notin Body
        BY <2>2, Records, BegunRecord DEF Body, Preparing, Leaving
    <2> QED
        BY <1>2, <2>1, <2>3, OutsideStaysIdle DEF TimerFires
<1>3. CASE AdmitThrows(e)
    BY <1>3, UncheckedStaysIdle DEF AdmitThrows
<1>4. CASE PollTick(e)
    <2> DEFINE r == [emitter[e] EXCEPT !.phase = "waiting", !.idleCheck = TRUE]
    <2>1. r \in Emission /\ r.phase \notin Body
        BY <1>1 DEF Emission, Body, Preparing, Leaving
    <2>2. emitter' = [emitter EXCEPT ![e] = r]
        BY <1>1, <1>4 DEF PollTick
    <2> QED
        BY <1>4, <2>1, <2>2, OutsideStaysIdle DEF PollTick
<1>5. CASE AdmitDraining(e)
    BY <1>5, Records, OutsideStaysIdle DEF AdmitDraining, Body, Preparing, Leaving
<1> QED
    BY <1>2, <1>3, <1>4, <1>5

\* A record whose poll ends keeps all that matters of its emission.
LEMMA PollOffKeeps ==
    ASSUME NEW r \in Emission
    PROVE  Keeps([r EXCEPT !.poll = FALSE], r)
BY DEF Keeps, Waits, Emission

\* The end of the wait forces an attempt only where none is under way.
LEMMA TimeOutStaysIdle ==
    ASSUME IInv, IdleStaysIdle, NEW e \in Emitters, PollTimesOut(e)
    PROVE  IdleStaysIdle'
<1>1. emitter \in [Emitters -> Emission] /\ emitter[e] \in Emission
    BY Typed DEF IInv
<1>2. UNCHANGED <<fence, signal, host>>
    BY DEF PollTimesOut
<1>3. CASE emitter[e].phase = "idle"
    <2>1. emitter' = [emitter EXCEPT ![e] = Unchecked(emitter[e])]
        BY <1>1, <1>3 DEF PollTimesOut
    <2> QED
        BY <1>2, <2>1, UncheckedStaysIdle
<1>4. CASE emitter[e].phase # "idle"
    <2> DEFINE r == [emitter[e] EXCEPT !.poll = FALSE]
    <2>1. r \in Emission /\ Keeps(r, emitter[e])
        BY <1>1, PollOff, PollOffKeeps
    <2>2. emitter' = [emitter EXCEPT ![e] = r]
        BY <1>1, <1>4 DEF PollTimesOut
    <2> HIDE DEF r
    <2> QED
        BY <1>1, <1>2, <2>1, <2>2, OneKeeps, IdleKept
<1> QED
    BY <1>3, <1>4

\* A poll that fails begins an attempt, in place of its wait or beside it.
LEMMA ThrowStaysIdle ==
    ASSUME IInv, IdleStaysIdle, NEW e \in Emitters, PollThrows(e)
    PROVE  IdleStaysIdle'
<1>1. emitter \in [Emitters -> Emission] /\ emitter[e] \in Emission
    BY Typed DEF IInv
<1>2. UNCHANGED <<fence, signal, host>>
    BY DEF PollThrows
<1>3. CASE emitter[e].phase = "idle"
    BY <1>2, <1>3, UncheckedStaysIdle DEF PollThrows
<1>4. CASE emitter[e].phase # "idle"
    <2> DEFINE q == [Idle EXCEPT !.reload = emitter[e].reload, !.stale = emitter[e].stale]
               u == Unchecked(q)
               r == [emitter[e] EXCEPT !.poll = FALSE]
    <2>1. PICK f \in Emitters :
              Free(f) /\ emitter' = [emitter EXCEPT ![e].poll = FALSE, ![f] = u]
        BY <1>4 DEF PollThrows
    <2>2. u \in Emission /\ u.phase \notin Body
        <3>1. q \in Emission
            BY <1>1 DEF Emission, Idle
        <3> HIDE DEF q
        <3> QED
            BY <3>1, UncheckedRecord DEF Body, Preparing, Leaving
    <2>3. r \in Emission /\ Keeps(r, emitter[e])
        BY <1>1, PollOff, PollOffKeeps
    <2>4. f # e
        BY <1>4, <2>1, Records DEF Free
    <2>5. emitter' = [emitter EXCEPT ![e] = r, ![f] = u]
        BY <1>1, <2>1
    <2> HIDE DEF r, u
    <2>6. /\ emitter'[e] = r /\ emitter'[f] = u
          /\ \A g \in Emitters \ {e, f} : emitter'[g] = emitter[g]
        BY <1>1, <2>2, <2>3, <2>4, <2>5
    <2>7. \A g \in Emitters : Keeps(emitter'[g], emitter[g])
        BY <2>2, <2>3, <2>6 DEF Keeps, Waits, Body
    <2> QED
        BY <1>2, <2>7, IdleKept
<1> QED
    BY <1>3, <1>4

\* A superseded record keeps what it was, and the cancelled one waits no more.
LEMMA SupersededKeeps ==
    ASSUME IInv, NEW f \in Emitters
    PROVE  /\ Keeps(Superseded(f), emitter[f])
           /\ Stops(f) => ~Waits(Superseded(f))
<1> DEFINE was == emitter[f]
           a == was.active /\ ~Stops(f)
           s == [was EXCEPT !.stale = TRUE]
           c == [was EXCEPT !.stale = TRUE, !.cancelled = TRUE, !.poll = FALSE, !.active = a]
<1>1. was \in Emission
    BY Typed DEF IInv
<1>2. a \in BOOLEAN /\ (a => was.active) /\ (Stops(f) => ~a)
    OBVIOUS
<1>3. \/ ~Stops(f) /\ Superseded(f) = was
      \/ Superseded(f) = Idle
      \/ ~Stops(f) /\ Superseded(f) = s
      \/ Superseded(f) = c
    BY DEF Superseded, Stops
<1> HIDE DEF a
<1>4. Keeps(was, was) /\ Keeps(s, was)
    BY <1>1 DEF Keeps, Waits, Emission
<1>5. Keeps(c, was) /\ (Stops(f) => ~Waits(c))
    <2> HIDE DEF was
    <2>1. /\ c.phase = was.phase /\ c.idleCheck = was.idleCheck
          /\ c.current = was.current /\ c.active = a
        BY <1>1, <1>2 DEF Emission
    <2> QED
        BY <1>2, <2>1 DEF Keeps, Waits
<1>6. Keeps(Idle, was) /\ ~Waits(Idle)
    BY Records DEF Keeps, Waits, Body, Preparing, Leaving
<1> HIDE DEF s, c
<1> QED
    BY <1>3, <1>4, <1>5, <1>6

\* Superseding ends the wait of the emission whose fence it lifts.
LEMMA SupersedeStaysIdle ==
    ASSUME IInv, IdleStaysIdle, LiftsHeldFence, UNCHANGED <<signal, host>>,
           \A f \in Emitters : emitter'[f] = Superseded(f) \/ emitter'[f].phase \notin Body
    PROVE  IdleStaysIdle'
<1>1. \A f \in Emitters : Keeps(emitter'[f], emitter[f])
    <2> SUFFICES ASSUME NEW f \in Emitters PROVE Keeps(emitter'[f], emitter[f])
        OBVIOUS
    <2>1. CASE emitter'[f] = Superseded(f)
        BY <2>1, SupersededKeeps
    <2>2. CASE emitter'[f].phase \notin Body
        BY <2>2 DEF Keeps, Waits, Body
    <2> QED
        BY <2>1, <2>2
<1>2. ASSUME NEW f \in Emitters, Waits(emitter'[f])
      PROVE  UNCHANGED fence
    <2>1. Waits(emitter[f])
        BY <1>1, <1>2 DEF Keeps
    <2>2. fence = f
        BY <2>1, WaitingIsAlone
    <2>3. ~Stops(f)
        <3>1. emitter'[f] = Superseded(f)
            BY <1>2 DEF Waits, Body
        <3> QED
            BY <1>2, <3>1, SupersededKeeps
    <2> QED
        BY <2>2, <2>3 DEF LiftsHeldFence
<1> QED
    BY <1>1, <1>2, IdleKept

\* A reload supersedes, and may begin a deferral in a free emitter.
LEMMA ReloadStaysIdle ==
    ASSUME IInv, IdleStaysIdle, Supersede \/ \E e \in Emitters : ReloadDefers(e)
    PROVE  IdleStaysIdle'
<1>1. CASE Supersede
    <2>1. \A f \in Emitters : emitter'[f] = Superseded(f)
        BY <1>1 DEF Supersede
    <2> QED
        BY <1>1, <2>1, SupersedeStaysIdle DEF Supersede
<1>2. ASSUME NEW e \in Emitters, ReloadDefers(e) PROVE IdleStaysIdle'
    <2>1. PICK r \in Begun([Idle EXCEPT !.reload = TRUE]) :
              emitter' = [f \in Emitters |-> IF f = e THEN r ELSE Superseded(f)]
        BY <1>2 DEF ReloadDefers
    <2>2. r.phase \notin Body
        BY Records, BegunRecord DEF Body, Preparing, Leaving
    <2>3. \A f \in Emitters : emitter'[f] = Superseded(f) \/ emitter'[f].phase \notin Body
        BY <2>1, <2>2
    <2> QED
        BY <1>2, <2>3, SupersedeStaysIdle DEF ReloadDefers
<1> QED
    BY <1>1, <1>2

\* The root is admitted: an attempt goes on only where all is idle, and behind
\* an open gate nobody waits.
LEMMA AdmitStaysIdle ==
    ASSUME IInv, IdleStaysIdle, NEW e \in Emitters, Admit(e)
    PROVE  IdleStaysIdle'
<1>1. emitter \in [Emitters -> Emission] /\ emitter[e] \in Emission
    BY Typed DEF IInv
<1>2. fence = Nobody /\ lease = Nobody /\ UNCHANGED <<signal, host>>
    BY DEF Admit, Open, IInv, Fenced
<1>3. \A f \in Emitters : ~Waits(emitter[f])
    BY <1>2, WaitingIsAlone, RestartAssumption
<1>4. CASE emitter' = [emitter EXCEPT ![e] = Rested(emitter[e])] /\ UNCHANGED <<fence, lease>>
    <2>1. Rested(emitter[e]) \in Emission /\ Rested(emitter[e]).phase \notin Body
        BY <1>1, RestedRecord DEF Body, Preparing, Leaving
    <2> QED
        BY <1>2, <1>4, <2>1, OutsideStaysIdle
<1>5. ASSUME ~signal,
             emitter[e].idleCheck => ~host.busy /\ \A f \in Emitters \ {e} : ~InBody(f),
             emitter' = [emitter EXCEPT ![e] =
                 [emitter[e] EXCEPT !.phase = IF emitter[e].reload THEN "caller" ELSE "drain",
                                    !.owns = lease = Nobody, !.active = TRUE]],
             fence' = e
      PROVE  IdleStaysIdle'
    <2> DEFINE o == (lease = Nobody)
               r == [emitter[e] EXCEPT !.phase = IF emitter[e].reload THEN "caller" ELSE "drain",
                                       !.owns = o, !.active = TRUE]
    <2>1. o \in BOOLEAN
        OBVIOUS
    <2> HIDE DEF o
    <2>2. r \in Emission /\ r.idleCheck = emitter[e].idleCheck
        BY <1>1, <2>1 DEF Emission, Body, Preparing, Leaving
    <2>3. emitter' = [emitter EXCEPT ![e] = r]
        BY <1>5 DEF o
    <2> HIDE DEF r
    <2>4. /\ emitter'[e] = r
          /\ \A f \in Emitters \ {e} : emitter'[f] = emitter[f]
        BY <1>1, <2>2, <2>3, OneEmitter
    <2> SUFFICES ASSUME NEW f \in Emitters, Waits(emitter'[f])
                 PROVE  /\ fence' = f /\ ~signal' /\ ~host.busy'
                        /\ \A g \in Emitters \ {f} : emitter'[g].phase \notin Body
        BY DEF IdleStaysIdle, Waits, InBody, IsCurrent
    <2>5. f = e
        BY <1>3, <2>4
    <2>6. ~host.busy /\ \A g \in Emitters \ {e} : emitter[g].phase \notin Body
        BY <1>5, <2>2, <2>4, <2>5 DEF Waits, InBody
    <2> QED
        BY <1>2, <1>5, <2>4, <2>5, <2>6
<1>6. \/ emitter' = [emitter EXCEPT ![e] = Rested(emitter[e])] /\ UNCHANGED <<fence, lease>>
      \/ /\ ~signal
         /\ emitter[e].idleCheck => ~host.busy /\ \A f \in Emitters \ {e} : ~InBody(f)
         /\ emitter' = [emitter EXCEPT ![e] =
                 [emitter[e] EXCEPT !.phase = IF emitter[e].reload THEN "caller" ELSE "drain",
                                    !.owns = lease = Nobody, !.active = TRUE]]
         /\ fence' = e
    BY <1>2 DEF Admit
<1> QED
    BY <1>4, <1>5, <1>6

\* The hooks of an emission are taken, prepared and rejected.
LEMMA HooksStayIdle ==
    ASSUME IInv, IdleStaysIdle, NEW e \in Emitters, NEW ok \in BOOLEAN,
           \/ CallerPrepared(e, ok) \/ TakeParked(e)
           \/ ParkedRejected(e) \/ ParkedPrepared(e, ok) \/ HooksRejected(e)
    PROVE  IdleStaysIdle'
<1>1. /\ emitter \in [Emitters -> Emission] /\ emitter[e] \in Emission
      /\ pending \in Requested
    BY Typed DEF IInv
<1>2. InBody(e) /\ UNCHANGED <<signal, host>>
    BY DEF CallerPrepared, TakeParked, ParkedRejected, ParkedPrepared, HooksRejected,
           InBody, Body, Preparing, Leaving
<1>3. ASSUME NEW attempted \in BOOLEAN, Abandons(e, attempted) PROVE IdleStaysIdle'
    BY <1>2, <1>3, AbandonStaysIdle
<1>8. ASSUME NEW h, GivesUp(e, FALSE, h) PROVE IdleStaysIdle'
    BY <1>2, <1>8, GiveUpStaysIdle
<1>4. CASE CallerPrepared(e, ok) /\ IsCurrent(e)
    <2> DEFINE r == [emitter[e] EXCEPT !.phase = "drain", !.ok = ok]
    <2>1. /\ r \in Emission /\ r.idleCheck = emitter[e].idleCheck
          /\ r.current = emitter[e].current /\ r.active = emitter[e].active
        BY <1>1 DEF Emission, Body, Preparing, Leaving
    <2>2. emitter' = [emitter EXCEPT ![e] = r] /\ UNCHANGED fence
        BY <1>1, <1>4 DEF CallerPrepared
    <2>3. emitter[e].phase \in Preparing
        BY <1>4 DEF CallerPrepared, Preparing
    <2> HIDE DEF r
    <2> QED
        BY <1>2, <2>1, <2>2, <2>3, InsideStaysIdle
<1>5. CASE TakeParked(e)
    <2> DEFINE r == [emitter[e] EXCEPT
                       !.parked = pending.slot, !.prepared = Nobody,
                       !.phase = IF emitter[e].prepared = Nobody THEN "parked" ELSE "rejecting"]
    <2>1. /\ r \in Emission /\ r.idleCheck = emitter[e].idleCheck
          /\ r.current = emitter[e].current /\ r.active = emitter[e].active
        <3>1. pending.slot \in Hooks \cup {Nobody}
            BY <1>1 DEF Requested
        <3> QED
            BY <1>1, <3>1 DEF Emission, Body, Preparing, Leaving
    <2>2. emitter' = [emitter EXCEPT ![e] = r] /\ UNCHANGED fence
        BY <1>1, <1>5 DEF TakeParked
    <2>3. emitter[e].phase \in Preparing
        BY <1>5 DEF TakeParked, Preparing
    <2> HIDE DEF r
    <2> QED
        BY <1>2, <2>1, <2>2, <2>3, InsideStaysIdle
<1>6. CASE ParkedRejected(e) /\ IsCurrent(e)
    <2> DEFINE r == [emitter[e] EXCEPT !.phase = "parked"]
    <2>1. /\ r \in Emission /\ r.idleCheck = emitter[e].idleCheck
          /\ r.current = emitter[e].current /\ r.active = emitter[e].active
        BY <1>1 DEF Emission, Body, Preparing, Leaving
    <2>2. emitter' = [emitter EXCEPT ![e] = r] /\ UNCHANGED fence
        BY <1>1, <1>6 DEF ParkedRejected
    <2>3. emitter[e].phase \in Preparing
        BY <1>6 DEF ParkedRejected, Preparing
    <2> HIDE DEF r
    <2> QED
        BY <1>2, <2>1, <2>2, <2>3, InsideStaysIdle
<1>7. CASE ParkedPrepared(e, ok) /\ IsCurrent(e)
    <2> DEFINE r == [emitter[e] EXCEPT !.phase = "drain", !.parked = Nobody,
                       !.prepared = IF ok THEN emitter[e].parked ELSE Nobody]
    <2>1. /\ r \in Emission /\ r.idleCheck = emitter[e].idleCheck
          /\ r.current = emitter[e].current /\ r.active = emitter[e].active
        BY <1>1 DEF Emission, Body, Preparing, Leaving
    <2>2. emitter' = [emitter EXCEPT ![e] = r] /\ UNCHANGED fence
        BY <1>1, <1>7 DEF ParkedPrepared
    <2>3. emitter[e].phase \in Preparing
        BY <1>7 DEF ParkedPrepared, Preparing
    <2> HIDE DEF r
    <2> QED
        BY <1>2, <2>1, <2>2, <2>3, InsideStaysIdle
<1> QED
    BY <1>3, <1>4, <1>5, <1>6, <1>7, <1>8
       DEF CallerPrepared, ParkedRejected, ParkedPrepared, HooksRejected

\* An emission emits, or returns without.
LEMMA EmitStaysIdle ==
    ASSUME IInv, IdleStaysIdle, NEW e \in Emitters, Emit(e)
    PROVE  IdleStaysIdle'
<1>1. emitter \in [Emitters -> Emission] /\ emitter[e] \in Emission /\ InBody(e)
    BY Typed DEF IInv, Emit, InBody, Body, Preparing, Leaving
<1>2. ASSUME NEW attempted \in BOOLEAN, GivesUp(e, attempted, emitter[e].prepared)
      PROVE  IdleStaysIdle'
    BY <1>1, <1>2, GiveUpStaysIdle
<1>3. ASSUME NEW sent \in BOOLEAN,
             Requests(sent, [emitter EXCEPT ![e] = Emitted(emitter[e], sent)], e)
      PROVE  IdleStaysIdle'
    <2> DEFINE r == Emitted(emitter[e], sent)
               em == [emitter EXCEPT ![e] = r]
    <2>1. r \in Emission /\ r.phase \in {"idle"} \cup Leaving
        BY <1>1, Records, RejectsRecord DEF Emitted
    <2>2. emitter' = PollsOff(em)
        BY <1>3 DEF Requests
    <2> HIDE DEF r
    <2>3. /\ em \in [Emitters -> Emission] /\ em[e] = r
          /\ \A f \in Emitters \ {e} : em[f] = emitter[f]
        BY <1>1, <2>1
    <2> HIDE DEF em
    <2>4. \A f \in Emitters : Keeps(emitter'[f], em[f])
        BY <2>2, <2>3, PollsEndKeeps
    <2>5. ~Waits(emitter'[e])
        BY <2>1, <2>3, <2>4 DEF Keeps, Waits, Preparing, Leaving
    <2> QED
        BY <1>1, <2>3, <2>4, <2>5, LeavingStaysIdle
<1> QED
    BY <1>2, <1>3 DEF Emit

\* A direct request finds an open gate or work under way: nobody waits then, nor
\* behind a signal, nor in a process that starts anew.
LEMMA OthersStayIdle ==
    ASSUME IInv, IdleStaysIdle, DirectRequest \/ HandleSignal \/ Reset
    PROVE  IdleStaysIdle'
<1>1. emitter \in [Emitters -> Emission]
    BY Typed DEF IInv
<1>2. \A f \in Emitters : ~Waits(emitter'[f])
    <2>1. CASE DirectRequest
        <3>1. \A f \in Emitters : ~Waits(emitter[f])
            BY <2>1, WaitingIsAlone, RestartAssumption DEF DirectRequest, Open
        <3>2. \A f \in Emitters : Keeps(emitter'[f], emitter[f])
            BY <1>1, <2>1, PollsEndKeeps DEF DirectRequest, Requests
        <3> QED
            BY <3>1, <3>2 DEF Keeps
    <2>2. CASE HandleSignal
        BY <2>2, WaitingIsAlone DEF HandleSignal
    <2>3. CASE Reset
        <3> SUFFICES ASSUME NEW f \in Emitters PROVE ~Waits(emitter'[f])
            OBVIOUS
        <3>1. CASE emitter[f].phase = "idle"
            <4>1. emitter'[f] = Idle
                BY <2>3, <3>1 DEF Reset
            <4> QED
                BY <4>1, Records DEF Waits, Body, Preparing, Leaving
        <3>2. CASE emitter[f].phase # "idle"
            <4>1. emitter'[f] = [emitter[f] EXCEPT !.poll = FALSE, !.current = FALSE]
                BY <2>3, <3>2 DEF Reset
            <4>2. emitter[f] \in Emission
                BY <1>1
            <4> QED
                BY <4>1, <4>2 DEF Waits, Emission
        <3> QED
            BY <3>1, <3>2
    <2> QED
        BY <2>1, <2>2, <2>3
<1> QED
    BY <1>2 DEF IdleStaysIdle, Waits, InBody, IsCurrent

\* Work begins only behind an open gate, where nobody waits.
LEMMA HostStaysIdle ==
    ASSUME IInv, IdleStaysIdle,
           Suspend \/ Resume \/ WorkBegins \/ WorkEnds \/ UNCHANGED vars
    PROVE  IdleStaysIdle'
<1>1. UNCHANGED <<emitter, fence, signal>>
    BY DEF Suspend, Resume, WorkBegins, WorkEnds, vars
<1>2. WorkBegins => \A f \in Emitters : ~Waits(emitter[f])
    BY WaitingIsAlone, RestartAssumption DEF WorkBegins, Open
<1>3. ~WorkBegins => (host.busy' => host.busy)
    <2>1. host \in [suspended : BOOLEAN, busy : BOOLEAN]
        BY DEF IInv, TypeOK
    <2> QED
        BY <2>1 DEF Suspend, Resume, WorkEnds, vars
<1>4. \A f \in Emitters : Keeps(emitter'[f], emitter[f])
    BY <1>1 DEF Keeps
<1> QED
    BY <1>1, <1>2, <1>3, <1>4, IdleKept

\* Every step keeps the answer of the last idle check.
LEMMA NextStaysIdle == IInv /\ IdleStaysIdle /\ [Next]_vars => IdleStaysIdle'
<1> SUFFICES ASSUME IInv, IdleStaysIdle, [Next]_vars PROVE IdleStaysIdle'
    OBVIOUS
<1>1. ASSUME NEW h \in Hooks \cup {Nobody}, NEW skip \in BOOLEAN,
             NEW preserve \in BOOLEAN, NEW earlier \in BOOLEAN,
             Schedule(h, skip, preserve, earlier)
      PROVE  IdleStaysIdle'
    BY <1>1, ScheduleStaysIdle
<1>2. ASSUME NEW e \in Emitters,
             TimerFires(e) \/ ReloadDefers(e) \/ PollTick(e) \/ PollThrows(e) \/ PollTimesOut(e)
      PROVE  IdleStaysIdle'
    BY <1>2, OutsideActionsStayIdle, ReloadStaysIdle, ThrowStaysIdle, TimeOutStaysIdle
<1>3. ASSUME NEW e \in Emitters, EmitStep(e) PROVE IdleStaysIdle'
    <2>1. ASSUME NEW ok \in BOOLEAN,
                 \/ CallerPrepared(e, ok) \/ TakeParked(e)
                 \/ ParkedRejected(e) \/ ParkedPrepared(e, ok) \/ HooksRejected(e)
          PROVE  IdleStaysIdle'
        BY <2>1, HooksStayIdle
    <2> QED
        BY <1>3, <2>1, AdmitStaysIdle, OutsideActionsStayIdle, EmitStaysIdle DEF EmitStep
<1> QED
    BY <1>1, <1>2, <1>3, ReloadStaysIdle, OthersStayIdle, HostStaysIdle DEF Next

-----------------------------------------------------------------------------
(* The theorems.                                                           *)

\* Nothing is pending, fenced or prepared when the process starts.
LEMMA InitEstablishes == Init => IInv
<1> SUFFICES ASSUME Init PROVE IInv
    OBVIOUS
<1>1. TypeOK
    BY Records, Typed DEF Init, Leases, Fates, Holders
<1>2. Fenced
    BY DEF Init, Fenced
<1>3. HandsEmpty /\ PreparedIsHeld
    BY Records DEF Init, HandsEmpty, PreparedIsHeld
<1> QED
    BY <1>1, <1>2, <1>3 DEF IInv

\* Every step keeps the invariant.
LEMMA NextPreserves == IInv /\ [Next]_vars => IInv'
<1> SUFFICES ASSUME IInv, [Next]_vars PROVE IInv'
    OBVIOUS
<1>1. host \in [suspended : BOOLEAN, busy : BOOLEAN] /\ draining \in BOOLEAN
    BY DEF IInv, TypeOK
<1>2. ASSUME NEW h \in Hooks \cup {Nobody}, NEW skip \in BOOLEAN,
             NEW preserve \in BOOLEAN, NEW earlier \in BOOLEAN,
             Schedule(h, skip, preserve, earlier)
      PROVE  IInv'
    BY <1>2, SchedulePreserves
<1>3. ASSUME NEW e \in Emitters,
             TimerFires(e) \/ ReloadDefers(e) \/ PollTick(e) \/ PollThrows(e) \/ PollTimesOut(e)
      PROVE  IInv'
    BY <1>3, TimerPreserves, ReloadPreserves, TickPreserves, ThrowPreserves, TimeOutPreserves
<1>4. ASSUME NEW e \in Emitters, EmitStep(e) PROVE IInv'
    BY <1>4, AdmitPreserves, AdmitThrowPreserves, AdmitDrainingPreserves, HooksRejectedPreserves, TakePreserves, RejectedPreserves,
       EmitPreserves, CallerPreserves, PreparedPreserves DEF EmitStep
<1>5. CASE Supersede \/ DirectRequest
    BY <1>5, SupersedePreserves, DirectPreserves
<1>6. CASE HandleSignal
    BY <1>1, <1>6, HostStep DEF HandleSignal
<1>7. CASE Reset
    BY <1>7, ResetPreserves
<1>8. CASE Suspend \/ Resume \/ WorkBegins \/ WorkEnds
    BY <1>1, <1>8, HostStep DEF Suspend, Resume, WorkBegins, WorkEnds
<1>9. CASE UNCHANGED vars
    BY <1>1, <1>9, HostStep DEF vars
<1> QED
    BY <1>2, <1>3, <1>4, <1>5, <1>6, <1>7, <1>8, <1>9 DEF Next

\* The invariant holds in every behaviour.
LEMMA Invariance == Spec => []IInv
BY InitEstablishes, NextPreserves, PTL DEF Spec

\* Every variable keeps its type, whatever is scheduled, deferred, cancelled or reset.
THEOREM RestartTyped == Spec => []TypeOK
<1>1. IInv => TypeOK
    BY DEF IInv
<1> QED
    BY <1>1, Invariance, PTL

\* A fence is up only for an emission under way that will lift it, or for a signal
\* (beginGatewayRestartSignalAdmission and rollbackFence).
THEOREM FenceIsOwned == Spec => []FenceHasOwner
<1>1. IInv => FenceHasOwner
    BY DEF IInv, Fenced, FenceHasOwner
<1> QED
    BY <1>1, Invariance, PTL

\* While a signal waits for the run loop nothing is admitted
\* (requestGatewayRestartWithSignalAdmission).
THEOREM SignalKeepsFence == Spec => []SignalIsFenced
<1>1. IInv => SignalIsFenced
    BY DEF IInv, Fenced, SignalIsFenced
<1> QED
    BY <1>1, Invariance, PTL

\* The answer of the last idle check stays true until the emission emits or gives
\* up: what begins meanwhile is kept out by its fence, and every way to lift that
\* fence ends its wait (finalIdleCheck of emitPreparedGatewayRestart).
THEOREM IdleChecksHold == Spec => []IdleStaysIdle
<1>1. Init => IdleStaysIdle
    BY Records DEF Init, IdleStaysIdle, InBody, Body, Preparing, Leaving
<1> QED
    BY <1>1, Invariance, NextStaysIdle, PTL DEF Spec

\* A restart that was to wait for idle work is emitted while nothing else runs:
\* not when its hooks were called, but at the very step that raises the signal.
WaitedForIdle ==
    [][\A e \in Emitters :
          Emit(e) /\ emitter[e].idleCheck /\ signal' /\ ~signal
             => ~host.busy /\ \A f \in Emitters \ {e} : ~InBody(f)]_vars

\* What deferGatewayRestartUntilIdle promises, at the step that restarts: a
\* deferral that did not time out raises its signal in an idle gateway.
THEOREM DeferralsRestartIdle == Spec => WaitedForIdle
<1>1. ASSUME IdleStaysIdle, NEW e \in Emitters,
             Emit(e), emitter[e].idleCheck, signal', ~signal
      PROVE  ~host.busy /\ \A f \in Emitters \ {e} : ~InBody(f)
    <2>1. emitter[e].phase \in Preparing
        BY <1>1 DEF Emit, Preparing
    <2>2. IsCurrent(e)
        BY <1>1 DEF Emit
    <2> QED
        BY <1>1, <2>1, <2>2 DEF IdleStaysIdle
<1>2. IdleStaysIdle =>
          [\A e \in Emitters :
              Emit(e) /\ emitter[e].idleCheck /\ signal' /\ ~signal
                 => ~host.busy /\ \A f \in Emitters \ {e} : ~InBody(f)]_vars
    BY <1>1
<1> QED
    BY <1>2, IdleChecksHold, PTL DEF WaitedForIdle

\* Prepared hooks are in the hands of an emission that emits or rejects them
\* (the loop of emitPreparedGatewayRestart).
THEOREM HooksAreHeld == Spec => []PreparedIsHeld
<1>1. IInv => PreparedIsHeld
    BY DEF IInv
<1> QED
    BY <1>1, Invariance, PTL

===============================================================================
