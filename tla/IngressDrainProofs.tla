-------------------------- MODULE IngressDrainProofs --------------------------
(***************************************************************************)
(* Proofs about IngressDrain, for any events, lanes, drains, processes,    *)
(* faults and bounds.                                                      *)
(*                                                                         *)
(* The inductive invariant follows a claim: a row names the latest claim   *)
(* of its event; a claim that is neither settled nor taken away has its    *)
(* row; a settled one does not; and a genuine adoption keeps the row until *)
(* it is completed.  What a step does to rows and handlers is one of six   *)
(* things, and the invariant is proved for those rather than for each of   *)
(* the actions.  What such a step shows in the inbox is settled with it;   *)
(* that recovery takes only claims that nobody keeps up needs in addition  *)
(* that a process dies with all its drains.                                *)
(***************************************************************************)
EXTENDS IngressDrain, SequenceTheorems, WellFoundedInduction, TLAPS

Unsettled(t) == h[t].phase \notin {"unstarted", "settled"}

RowsNameTheirClaim ==
    \A e \in Events : row[e].status = "claimed" =>
        /\ row[e].token \in Claims
        /\ h[row[e].token].event = e
        /\ \A u \in Claims : h[u].event = e => u <= row[e].token

\* A claim that a pass holds has not been dispatched.
HeldByPass(d, t) ==
    /\ t \in Claims
    /\ h[t].drain = d /\ h[t].phase = "unstarted" /\ ~h[t].genuine
    /\ t \in detached \/ Owns(t)

PassShape(p) ==
    /\ p \in Pass
    /\ p.pc = "claimed" => p.held # 0
    /\ p.pc \in {"asked", "superseding"} => p.target # 0
    /\ p.target \in 0 .. Len(h)

PassesHoldClaims ==
    \A d \in Drains :
        /\ PassShape(pass[d])
        /\ pass[d].held # 0 => HeldByPass(d, pass[d].held)

OwnersOwn ==
    \A t \in Claims :
        /\ Unsettled(t) => t \in detached \/ Owns(t)
        /\ h[t].phase = "settled" => ~Owns(t)

GenuineStays ==
    \A t \in Claims : h[t].genuine =>
        /\ h[t].phase \in {"unstarted", "adopted", "settled"}
        /\ h[t].settling \in {"no", "complete"}
        /\ t \in detached \/ Owns(t) \/ row[h[t].event].status = "completed"

\* A process dies with all its drains.
DieTogether ==
    \A c, d \in Drains : (ProcOf[c] = ProcOf[d] /\ drain[c] = "crashed") => drain[d] = "crashed"

IInv ==
    /\ TypeOK /\ RowsNameTheirClaim /\ PassesHoldClaims /\ OwnersOwn /\ GenuineStays
    /\ LaneHasOneHandler /\ AdoptedOnce /\ DieTogether

-----------------------------------------------------------------------------
(* Rows, handlers and passes.                                              *)

\* The handlers are indexed by the claims.
LEMMA Typed ==
    ASSUME TypeOK
    PROVE  /\ Len(h) \in Nat /\ Claims = 1 .. Len(h) /\ h \in [Claims -> Handler]
           /\ row \in [Events -> Row] /\ pass \in [Drains -> Pass]
           /\ active \in [Drains -> [Lanes -> 0 .. Len(h)]]
           /\ \A t \in Claims : h[t] \in Handler /\ h[t].event \in Events /\ h[t].drain \in Drains
           /\ \A e \in Events : LaneOf[e] \in Lanes
           /\ Len(h) <= MaxClaims /\ MaxClaims \in Nat
<1>1. h \in Seq(Handler)
    BY DEF TypeOK
<1>2. Len(h) \in Nat /\ Claims = 1 .. Len(h) /\ h \in [Claims -> Handler]
    BY <1>1, LenProperties DEF Claims
<1>3. \A t \in Claims : h[t] \in Handler
    BY <1>2
<1>4. \A x \in Handler : x.event \in Events /\ x.drain \in Drains
    BY DEF Handler
<1> QED
    BY <1>2, <1>3, <1>4, TopologyAssumption, OptionsAssumption DEF TypeOK

\* One handler of the sequence is replaced.
LEMMA OneHandlerMoves ==
    ASSUME TypeOK, NEW t \in Claims, NEW y \in Handler, h' = [h EXCEPT ![t] = y]
    PROVE  /\ h' \in Seq(Handler) /\ Len(h') = Len(h) /\ Claims' = Claims
           /\ h'[t] = y /\ \A u \in Claims \ {t} : h'[u] = h[u]
<1>1. h \in Seq(Handler) /\ t \in 1 .. Len(h)
    BY DEF TypeOK, Claims
<1>2. /\ [h EXCEPT ![t] = y] \in Seq(Handler)
      /\ Len([h EXCEPT ![t] = y]) = Len(h)
      /\ \A j \in 1 .. Len(h) : [h EXCEPT ![t] = y][j] = IF j = t THEN y ELSE h[j]
    BY <1>1, ExceptSeq
<1> QED
    BY <1>1, <1>2 DEF Claims

\* Rows as the queue leaves them.
LEMMA RowsTyped ==
    /\ \A b \in BOOLEAN : /\ PendingRow(b) \in Row /\ PendingRow(b).status = "pending"
                          /\ PendingRow(b).token = 0
    /\ \A s \in {"absent", "completed", "failed"} :
          ClosedRow(s) \in Row /\ ClosedRow(s).status = s /\ ClosedRow(s).token = 0
    /\ \A r \in Row, t \in 0 .. MaxClaims :
          ClaimedRow(r, t) \in Row /\ ClaimedRow(r, t).status = "claimed" /\ ClaimedRow(r, t).token = t
    /\ \A r \in Row : r.erred \in BOOLEAN
<1>1. 0 \in 0 .. MaxClaims
    BY OptionsAssumption
<1>2. \A b \in BOOLEAN : /\ PendingRow(b) \in Row /\ PendingRow(b).status = "pending"
                         /\ PendingRow(b).token = 0
    BY <1>1 DEF Row, PendingRow
<1>3. \A s \in {"absent", "completed", "failed"} :
          ClosedRow(s) \in Row /\ ClosedRow(s).status = s /\ ClosedRow(s).token = 0
    BY <1>1 DEF Row, ClosedRow
<1>4. ASSUME NEW r \in Row, NEW t \in 0 .. MaxClaims
      PROVE  ClaimedRow(r, t) \in Row /\ ClaimedRow(r, t).status = "claimed" /\ ClaimedRow(r, t).token = t
    BY DEF Row, ClaimedRow
<1>5. \A r \in Row : r.erred \in BOOLEAN
    BY DEF Row
<1> QED
    BY <1>2, <1>3, <1>4, <1>5

\* Two claims never own the same row.
LEMMA OneOwner ==
    ASSUME NEW t, NEW u, Owns(t), Owns(u), h[t].event = h[u].event
    PROVE  t = u
BY DEF Owns

\* The first disposition of a claim stands.
LEMMA Settles ==
    ASSUME NEW x \in Handler, NEW f \in {"complete", "release", "fail"}
    PROVE  /\ Settle(x, f) \in Handler
           /\ Settle(x, f).settling = IF x.settling = "no" THEN f ELSE x.settling
           /\ Settle(x, f).drain = x.drain /\ Settle(x, f).event = x.event
           /\ Settle(x, f).phase = x.phase /\ Settle(x, f).genuine = x.genuine
BY DEF Settle, Handler

-----------------------------------------------------------------------------
(* What a step shows in the inbox.                                         *)

InboxStep == Mail!Next \/ UNCHANGED Mail!vars

\* Every claim keeps its event and what it was adopted for.
HandlersStay ==
    /\ Claims' = Claims
    /\ \A t \in Claims : h'[t].event = h[t].event /\ h'[t].genuine = h[t].genuine

\* A row that is listed, or whose lease is renewed, shows the same mail.
RowStays(e) ==
    /\ row'[e].status = row[e].status
    /\ row[e].status = "claimed" => row'[e].token = row[e].token

\* Claims that keep their events and adoptions show nothing.
LEMMA HandlersShowNothing ==
    ASSUME HandlersStay
    PROVE  /\ [e \in Events |-> {t \in Claims : h[t].event = e}]'
                = [e \in Events |-> {t \in Claims : h[t].event = e}]
           /\ {t \in Claims : h[t].genuine}' = {t \in Claims : h[t].genuine}
<1>1. Claims' = Claims /\ \A t \in Claims : h'[t].event = h[t].event /\ h'[t].genuine = h[t].genuine
    BY DEF HandlersStay
<1>2. \A e \in Events : {t \in Claims' : h'[t].event = e} = {t \in Claims : h[t].event = e}
    BY <1>1
<1>3. {t \in Claims' : h'[t].genuine} = {t \in Claims : h[t].genuine}
    BY <1>1
<1> QED
    BY <1>2, <1>3

\* Neither do rows that keep their status and the claim that holds them.
LEMMA RowsShowNothing ==
    ASSUME \A e \in Events : RowStays(e)
    PROVE  /\ [e \in Events |-> row[e].status]' = [e \in Events |-> row[e].status]
           /\ [e \in Events |-> IF row[e].status = "claimed" THEN row[e].token ELSE 0]'
                = [e \in Events |-> IF row[e].status = "claimed" THEN row[e].token ELSE 0]
BY DEF RowStays

\* One row that is written shows as one event that changes hands.
LEMMA OneRowShows ==
    ASSUME row \in [Events -> Row], NEW e \in Events, NEW w, row' = [row EXCEPT ![e] = w]
    PROVE  /\ [f \in Events |-> row[f].status]'
                = [[f \in Events |-> row[f].status] EXCEPT ![e] = w.status]
           /\ [f \in Events |-> IF row[f].status = "claimed" THEN row[f].token ELSE 0]'
                = [[f \in Events |-> IF row[f].status = "claimed" THEN row[f].token ELSE 0]
                     EXCEPT ![e] = IF w.status = "claimed" THEN w.token ELSE 0]
<1>1. row'[e] = w /\ \A f \in Events \ {e} : row'[f] = row[f]
    OBVIOUS
<1> QED
    BY <1>1

\* Passes, callbacks, timers and dying drains mostly show nothing.
LEMMA NothingShows ==
    ASSUME HandlersStay, \A e \in Events : RowStays(e), detached' = detached
    PROVE  InboxStep
<1>1. UNCHANGED Mail!vars
    BY HandlersShowNothing, RowsShowNothing DEF Mail!vars
<1> QED
    BY <1>1 DEF InboxStep

\* A step that leaves rows, claims and handlers alone shows nothing.
LEMMA StillShowsNothing ==
    ASSUME UNCHANGED <<row, h, detached>>
    PROVE  InboxStep
<1>1. HandlersStay /\ \A e \in Events : RowStays(e)
    BY DEF HandlersStay, RowStays, Claims
<1> QED
    BY <1>1, NothingShows

\* A submitted or resubmitted event waits.
LEMMA SubmissionShows ==
    ASSUME row \in [Events -> Row], NEW e \in Events, row[e].status \in {"absent", "failed"},
           row' = [row EXCEPT ![e] = PendingRow(FALSE)], UNCHANGED <<h, detached>>
    PROVE  InboxStep
<1>1. HandlersStay
    BY DEF HandlersStay, Claims
<1>2. PICK w : w = PendingRow(FALSE)
    OBVIOUS
<1>3. w.status = "pending"
    BY <1>2, RowsTyped
<1>4. row' = [row EXCEPT ![e] = w]
    BY <1>2
<1>5. Mail!Submit(e)
    <2>1. [f \in Events |-> row[f].status]' = [[f \in Events |-> row[f].status] EXCEPT ![e] = "pending"]
        BY <1>3, <1>4, OneRowShows
    <2>2. [f \in Events |-> IF row[f].status = "claimed" THEN row[f].token ELSE 0]'
             = [f \in Events |-> IF row[f].status = "claimed" THEN row[f].token ELSE 0]
        BY <1>3, <1>4, OneRowShows
    <2> QED
        BY <1>1, <2>1, <2>2, HandlersShowNothing DEF Mail!Submit
<1> QED
    BY <1>5 DEF InboxStep, Mail!Next

\* The claim that owns a row ends the hold; one that was adopted completes it.
LEMMA FinishShows ==
    ASSUME NEW t, NEW e \in Events, e = h[t].event, Owns(t), HandlersStay, t \in Claims,
           NEW outcome \in {"pending", "completed", "failed"}, row'[e].status = outcome,
           \A f \in Events \ {e} : row'[f] = row[f],
           h[t].genuine => outcome = "completed", detached' = detached
    PROVE  InboxStep
<1>1. row[e].status = "claimed" /\ row[e].token = t
    BY DEF Owns
<1>2. Mail!Finish(e, outcome)
    <2>1. [f \in Events |-> row[f].status]' = [[f \in Events |-> row[f].status] EXCEPT ![e] = outcome]
        OBVIOUS
    <2>2. [f \in Events |-> IF row[f].status = "claimed" THEN row[f].token ELSE 0]'
             = [[f \in Events |-> IF row[f].status = "claimed" THEN row[f].token ELSE 0] EXCEPT ![e] = 0]
        OBVIOUS
    <2> QED
        BY <1>1, <2>1, <2>2, HandlersShowNothing DEF Mail!Finish
<1> QED
    BY <1>2 DEF InboxStep, Mail!Next

\* A claim is adopted while it holds its row, or after it was taken away.
LEMMA AdoptionShows ==
    ASSUME NEW t \in Claims, t \in 1 .. MaxClaims, h[t].event \in Events, t \in detached \/ Owns(t),
           Claims' = Claims, h'[t].genuine,
           \A u \in Claims : h'[u].event = h[u].event /\ (u # t => h'[u].genuine = h[u].genuine),
           \A e \in Events : RowStays(e), detached' = detached
    PROVE  InboxStep
<1>1. {u \in Claims : h[u].genuine}' = {u \in Claims : h[u].genuine} \cup {t}
    <2>1. {u \in Claims' : h'[u].genuine} = {u \in Claims : h[u].genuine} \cup {t}
        OBVIOUS
    <2> QED
        BY <2>1
<1>2. [e \in Events |-> {u \in Claims : h[u].event = e}]' = [e \in Events |-> {u \in Claims : h[u].event = e}]
    <2>1. \A e \in Events : {u \in Claims' : h'[u].event = e} = {u \in Claims : h[u].event = e}
        OBVIOUS
    <2> QED
        BY <2>1
<1>3. \/ t \in detached
      \/ \E e \in Events : /\ [f \in Events |-> row[f].status][e] = "claimed"
                           /\ [f \in Events |-> IF row[f].status = "claimed"
                                                THEN row[f].token ELSE 0][e] = t
    BY DEF Owns
<1>4. Mail!Adopt(t)
    BY <1>1, <1>2, <1>3, RowsShowNothing DEF Mail!Adopt
<1> QED
    BY <1>4 DEF InboxStep, Mail!Next

\* A handler that moves alone adopts its claim, or shows nothing.
LEMMA HandlerShows ==
    ASSUME TypeOK, OwnersOwn, NEW t \in Claims, NEW y \in Handler, h' = [h EXCEPT ![t] = y],
           y.event = h[t].event, h[t].genuine => y.genuine, y.genuine => h[t].genuine \/ Unsettled(t),
           \A e \in Events : RowStays(e), detached' = detached
    PROVE  InboxStep
<1>1. Claims' = Claims /\ h'[t] = y /\ \A u \in Claims \ {t} : h'[u] = h[u]
    BY OneHandlerMoves
<1>2. /\ h[t].event \in Events /\ t \in 1 .. MaxClaims
      /\ h[t].genuine \in BOOLEAN /\ y.genuine \in BOOLEAN
    BY Typed DEF Handler
<1>3. \A u \in Claims : h'[u].event = h[u].event /\ (u # t => h'[u].genuine = h[u].genuine)
    BY <1>1
<1>4. CASE y.genuine = h[t].genuine
    <2>1. HandlersStay
        BY <1>1, <1>3, <1>4 DEF HandlersStay
    <2> QED
        BY <2>1, NothingShows
<1>5. CASE y.genuine # h[t].genuine
    <2>1. y.genuine /\ Unsettled(t)
        BY <1>2, <1>5
    <2>2. t \in detached \/ Owns(t)
        BY <2>1, Zenon DEF OwnersOwn
    <2> QED
        BY <1>1, <1>2, <1>3, <2>1, <2>2, AdoptionShows
<1> QED
    BY <1>4, <1>5

-----------------------------------------------------------------------------
(* What a step does to rows and handlers.                                  *)

\* No handler moves: rows are listed, enqueued, recovered, pruned or handed back.
RowStep ==
    /\ UNCHANGED <<h, active, drain>>
    /\ row' \in [Events -> Row] /\ detached \subseteq detached' /\ detached' \subseteq Claims
    /\ \A e \in Events :
          /\ row'[e].token <= Len(h)
          /\ row'[e].status = "claimed" =>
                row[e].status = "claimed" /\ row'[e].token = row[e].token
    /\ \A t \in Claims \ detached' :
          /\ row[h[t].event].status = "completed" => row'[h[t].event].status = "completed"
          /\ Owns(t) => \/ row'[h[t].event].status = "claimed"
                        \/ /\ h[t].phase = "unstarted" /\ ~h[t].genuine
                           /\ \A d \in Drains : pass'[d].held # t
    /\ pass' \in [Drains -> Pass]
    /\ \A d \in Drains : PassShape(pass'[d]) /\ pass'[d].held \in {0, pass[d].held}

\* Handler t moves, but neither starts nor settles.
HandlerStep(t, y) ==
    /\ t \in Claims /\ y \in Handler /\ h' = [h EXCEPT ![t] = y]
    /\ y.drain = h[t].drain /\ y.event = h[t].event
    /\ h[t].phase # "unstarted" /\ y.phase # "unstarted"
    /\ y.phase = "settled" <=> h[t].phase = "settled"
    /\ y.genuine => /\ h[t].genuine \/ Unsettled(t)
                    /\ y.phase \in {"adopted", "settled"} /\ y.settling \in {"no", "complete"}
    /\ UNCHANGED <<active, drain, detached>>
    /\ row' \in [Events -> Row]
    /\ \A e \in Events : row'[e].status = row[e].status /\ row'[e].token = row[e].token
    /\ pass' \in [Drains -> Pass]
    /\ \A d \in Drains : PassShape(pass'[d]) /\ pass'[d].held \in {0, pass[d].held}

\* A drain stops, or a process dies with its handlers.
LifeStep ==
    /\ UNCHANGED <<row, detached>>
    /\ h' \in Seq(Handler) /\ Len(h') = Len(h)
    /\ \A t \in Claims :
          /\ h'[t].drain = h[t].drain /\ h'[t].event = h[t].event /\ h'[t].genuine = h[t].genuine
          /\ \/ h'[t].phase = h[t].phase /\ h'[t].settling = h[t].settling
             \/ h'[t].phase = "unstarted" /\ h'[t].settling = "no"
          /\ drain'[h[t].drain] \in {"live", "aborted"} =>
                /\ drain[h[t].drain] \in {"live", "aborted"} /\ h'[t].phase = h[t].phase
                /\ active'[h[t].drain] = active[h[t].drain]
    /\ active' \in [Drains -> [Lanes -> 0 .. Len(h)]]
    /\ drain' \in [Drains -> {"live", "aborted", "disposed", "crashed"}]
    /\ pass' \in [Drains -> Pass]
    /\ \A d \in Drains : pass'[d] \in {pass[d], IdlePass}
    /\ DieTogether'

\* The idle pass holds nothing.
LEMMA IdleHoldsNothing ==
    ASSUME TypeOK
    PROVE  IdlePass \in Pass /\ PassShape(IdlePass) /\ IdlePass.held = 0
BY Typed DEF IdlePass, Pass, PassShape

\* Rows that move under unmoving handlers keep the invariant.
LEMMA RowStepKeepsInv ==
    ASSUME IInv, RowStep
    PROVE  IInv'
<1>1. /\ Claims' = Claims /\ h' = h /\ detached \subseteq detached'
      /\ active' = active /\ drain' = drain
    BY DEF RowStep, Claims
<1>2. /\ \A t \in Claims : h[t].event \in Events
      /\ row \in [Events -> Row] /\ row' \in [Events -> Row]
    BY Typed DEF IInv, RowStep
<1>3. ASSUME NEW t \in Claims \ detached', Owns(t)
      PROVE  \/ Owns(t)'
             \/ /\ h[t].phase = "unstarted" /\ ~h[t].genuine
                /\ \A d \in Drains : pass'[d].held # t
    BY <1>1, <1>2, <1>3 DEF RowStep, Owns, Row
<1>4. \A t \in Claims : Owns(t)' => Owns(t)
    BY <1>1, <1>2 DEF RowStep, Owns
<1>5. TypeOK'
    BY <1>1 DEF IInv, TypeOK, RowStep
<1>6. RowsNameTheirClaim'
    BY <1>1 DEF IInv, RowsNameTheirClaim, RowStep
<1>7. PassesHoldClaims'
    <2>1. ASSUME NEW d \in Drains
          PROVE  PassShape(pass[d])' /\ (pass'[d].held # 0 => HeldByPass(d, pass[d].held)')
        <3>1. PassShape(pass[d])'
            BY <1>1 DEF RowStep, PassShape
        <3>2. pass'[d].held # 0 => pass'[d].held = pass[d].held /\ HeldByPass(d, pass[d].held)
            BY DEF RowStep, IInv, PassesHoldClaims
        <3>3. pass'[d].held # 0 => HeldByPass(d, pass[d].held)'
            BY <1>1, <1>3, <3>2 DEF HeldByPass
        <3> QED
            BY <3>1, <3>3
    <2> QED
        BY <2>1 DEF PassesHoldClaims
<1>8. OwnersOwn'
    BY <1>1, <1>3, <1>4 DEF IInv, OwnersOwn, Unsettled
<1>9. GenuineStays'
    <2>1. ASSUME NEW t \in Claims \ detached', h[t].genuine
          PROVE  Owns(t)' \/ row'[h[t].event].status = "completed"
        BY <1>1, <1>3, <2>1 DEF IInv, GenuineStays, RowStep
    <2> QED
        BY <1>1, <2>1 DEF IInv, GenuineStays
<1>10. LaneHasOneHandler' /\ AdoptedOnce'
    BY <1>1 DEF IInv, LaneHasOneHandler, AdoptedOnce, LaneFor
<1>11. DieTogether'
    BY <1>1 DEF IInv, DieTogether
<1> QED
    BY <1>5, <1>6, <1>7, <1>8, <1>9, <1>10, <1>11 DEF IInv

\* A handler that moves keeps the invariant.
LEMMA HandlerStepKeepsInv ==
    ASSUME IInv, NEW t, NEW y, HandlerStep(t, y)
    PROVE  IInv'
<1>1. /\ h' \in Seq(Handler) /\ Len(h') = Len(h) /\ Claims' = Claims
      /\ h'[t] = y /\ (\A u \in Claims \ {t} : h'[u] = h[u]) /\ t \in Claims
    BY OneHandlerMoves DEF IInv, HandlerStep
<1>2. /\ \A u \in Claims : h'[u].drain = h[u].drain /\ h'[u].event = h[u].event
      /\ \A u \in Claims : h'[u].phase = "settled" <=> h[u].phase = "settled"
      /\ \A u \in Claims : h'[u].phase = "unstarted" <=> h[u].phase = "unstarted"
      /\ \A u \in Claims : h'[u].genuine => h[u].genuine \/ Unsettled(u)
      /\ active' = active /\ drain' = drain /\ detached' = detached
    BY <1>1 DEF HandlerStep
<1>3. \A u \in Claims : h[u].event \in Events /\ (Owns(u)' <=> Owns(u))
    BY <1>2, Typed DEF IInv, HandlerStep, Owns
<1>4. TypeOK'
    BY <1>1, <1>2 DEF IInv, TypeOK, HandlerStep
<1>5. RowsNameTheirClaim'
    BY <1>1, <1>2 DEF IInv, RowsNameTheirClaim, HandlerStep
<1>6. PassesHoldClaims'
    <2>1. ASSUME NEW d \in Drains
          PROVE  PassShape(pass[d])' /\ (pass'[d].held # 0 => HeldByPass(d, pass[d].held)')
        <3>1. PassShape(pass[d])'
            BY <1>1 DEF HandlerStep, PassShape
        <3>2. pass'[d].held # 0 => pass'[d].held = pass[d].held /\ HeldByPass(d, pass[d].held)
            BY DEF HandlerStep, IInv, PassesHoldClaims
        <3>3. pass'[d].held # 0 => pass'[d].held # t
            BY <3>2 DEF HandlerStep, HeldByPass
        <3>4. pass'[d].held # 0 => HeldByPass(d, pass[d].held)'
            BY <1>1, <1>2, <1>3, <3>2, <3>3 DEF HeldByPass
        <3> QED
            BY <3>1, <3>4
    <2> QED
        BY <2>1 DEF PassesHoldClaims
<1>7. OwnersOwn'
    BY <1>1, <1>2, <1>3 DEF IInv, OwnersOwn, Unsettled
<1>8. GenuineStays'
    <2>1. ASSUME NEW u \in Claims, h'[u].genuine
          PROVE  /\ h'[u].phase \in {"unstarted", "adopted", "settled"}
                 /\ h'[u].settling \in {"no", "complete"}
                 /\ u \in detached' \/ Owns(u)' \/ row'[h'[u].event].status = "completed"
        <3>1. u \in detached \/ Owns(u) \/ row[h[u].event].status = "completed"
            BY <1>2, <2>1 DEF IInv, GenuineStays, OwnersOwn
        <3>2. h'[u].phase \in {"unstarted", "adopted", "settled"} /\ h'[u].settling \in {"no", "complete"}
            BY <1>1, <2>1 DEF IInv, GenuineStays, HandlerStep
        <3> QED
            BY <1>2, <1>3, <3>1, <3>2 DEF HandlerStep
    <2> QED
        BY <1>1, <2>1 DEF GenuineStays
<1>9. LaneHasOneHandler'
    BY <1>1, <1>2 DEF IInv, LaneHasOneHandler, LaneFor
<1>10. AdoptedOnce'
    <2>1. ASSUME NEW a \in Claims, NEW u \in Claims, a < u, h[a].event = h[u].event, h'[a].genuine
          PROVE  a \in detached
        <3>1. CASE h[a].genuine
            BY <2>1, <3>1 DEF IInv, AdoptedOnce
        <3>2. CASE Unsettled(a)
            <4>1. Owns(a) => u <= a
                BY <1>3, <2>1 DEF IInv, RowsNameTheirClaim, Owns
            <4> QED
                BY <2>1, <3>2, <4>1, Typed DEF IInv, OwnersOwn
        <3> QED
            BY <1>2, <2>1, <3>1, <3>2
    <2> QED
        BY <1>1, <1>2, <2>1 DEF AdoptedOnce
<1>11. DieTogether'
    BY <1>2 DEF IInv, DieTogether
<1> QED
    BY <1>4, <1>5, <1>6, <1>7, <1>8, <1>9, <1>10, <1>11 DEF IInv

\* Drains and processes that stop keep the invariant: the rows stay.
LEMMA LifeStepKeepsInv ==
    ASSUME IInv, LifeStep
    PROVE  IInv'
<1>1. /\ Claims' = Claims /\ row' = row /\ detached' = detached
      /\ \A u \in Claims : h'[u].drain = h[u].drain /\ h'[u].event = h[u].event
      /\ \A u \in Claims : h'[u].genuine = h[u].genuine
      /\ \A u \in Claims : Owns(u)' <=> Owns(u)
    BY DEF LifeStep, Claims, Owns
<1>2. TypeOK'
    BY DEF IInv, TypeOK, LifeStep, Claims
<1>3. RowsNameTheirClaim'
    BY <1>1 DEF IInv, RowsNameTheirClaim
<1>4. PassesHoldClaims'
    <2>1. ASSUME NEW d \in Drains
          PROVE  PassShape(pass[d])' /\ (pass'[d].held # 0 => HeldByPass(d, pass[d].held)')
        <3>1. pass'[d] = pass[d] \/ (pass'[d] = IdlePass /\ pass'[d].held = 0)
            BY IdleHoldsNothing DEF LifeStep, IInv
        <3>2. PassShape(pass[d])'
            BY <3>1, IdleHoldsNothing DEF LifeStep, IInv, PassesHoldClaims, PassShape
        <3>3. pass'[d].held # 0 => pass'[d].held = pass[d].held /\ HeldByPass(d, pass[d].held)
            BY <3>1 DEF IInv, PassesHoldClaims
        <3>4. pass'[d].held # 0 => HeldByPass(d, pass[d].held)'
            BY <1>1, <3>3 DEF HeldByPass, LifeStep
        <3> QED
            BY <3>2, <3>4
    <2> QED
        BY <2>1 DEF PassesHoldClaims
<1>5. OwnersOwn'
    BY <1>1 DEF IInv, OwnersOwn, Unsettled, LifeStep
<1>6. GenuineStays'
    BY <1>1 DEF IInv, GenuineStays, LifeStep
<1>7. LaneHasOneHandler'
    <2>1. ASSUME NEW u \in Claims, drain'[h'[u].drain] \in {"live", "aborted"},
                 h'[u].phase \notin {"unstarted", "settled"}
          PROVE  active'[h'[u].drain][LaneOf[h'[u].event]] = u
        <3>1. /\ drain[h[u].drain] \in {"live", "aborted"} /\ h'[u].phase = h[u].phase
              /\ active'[h[u].drain] = active[h[u].drain]
            BY <1>1, <2>1 DEF LifeStep
        <3>2. active[h[u].drain][LaneOf[h[u].event]] = u
            BY <2>1, <3>1 DEF IInv, LaneHasOneHandler, LaneFor
        <3> QED
            BY <1>1, <3>1, <3>2
    <2> QED
        BY <1>1, <2>1 DEF LaneHasOneHandler, LaneFor
<1>8. AdoptedOnce'
    BY <1>1 DEF IInv, AdoptedOnce
<1>9. DieTogether'
    BY DEF LifeStep
<1> QED
    BY <1>2, <1>3, <1>4, <1>5, <1>6, <1>7, <1>8, <1>9 DEF IInv

-----------------------------------------------------------------------------
(* Claiming, starting and settling.                                        *)

\* A pass goes on.
LEMMA PassGoesOn ==
    ASSUME IInv, NEW d \in Drains, NEW p \in Pass, PassShape(p), p.held \in {0, pass[d].held},
           pass' = [pass EXCEPT ![d] = p]
    PROVE  /\ pass' \in [Drains -> Pass]
           /\ \A c \in Drains : PassShape(pass'[c]) /\ pass'[c].held \in {0, pass[c].held}
<1>1. pass \in [Drains -> Pass] /\ \A c \in Drains : PassShape(pass[c])
    BY Typed DEF IInv, PassesHoldClaims
<1>2. pass' \in [Drains -> Pass]
    BY <1>1
<1>3. pass'[d] = p /\ \A c \in Drains \ {d} : pass'[c] = pass[c]
    BY <1>1
<1> QED
    BY <1>1, <1>2, <1>3

\* claimNext gives a pending event's row to a claim that nobody has seen before.
LEMMA ClaimKeepsInv ==
    ASSUME IInv, NEW d \in Drains, NEW e \in Events, row[e].status = "pending",
           NEW n, n = Len(h) + 1, Len(h) < MaxClaims,
           row' = [row EXCEPT ![e] = ClaimedRow(@, n)],
           h' = Append(h, NewHandler(d, e)),
           pass' = [pass EXCEPT ![d].pc = "claimed", ![d].held = n],
           UNCHANGED <<active, drain, detached>>
    PROVE  IInv' /\ InboxStep
<1> DEFINE x == NewHandler(d, e)
           p == [pass[d] EXCEPT !.pc = "claimed", !.held = n]
<1>1. /\ Len(h) \in Nat /\ n \in Nat /\ Claims = 1 .. Len(h) /\ n \notin Claims /\ n # 0
      /\ n \in 0 .. MaxClaims /\ MaxClaims \in Nat
      /\ \A t \in Claims : t < n
    BY Typed DEF IInv
<1>2. /\ x \in Handler /\ x.drain = d /\ x.event = e /\ x.phase = "unstarted"
      /\ ~x.genuine /\ x.settling = "no"
    BY DEF NewHandler, Handler
<1>3. h \in Seq(Handler) /\ h' = Append(h, x)
    BY DEF IInv, TypeOK
<1>4. row' = [row EXCEPT ![e] = ClaimedRow(row[e], n)] /\ row \in [Events -> Row]
    BY Typed DEF IInv
<1>5. /\ pass' \in [Drains -> Pass] /\ pass'[d].pc = "claimed" /\ pass'[d].held = n
      /\ pass'[d].target = pass[d].target
      /\ \A c \in Drains \ {d} : pass'[c] = pass[c]
    <2>1. pass \in [Drains -> Pass] /\ pass[d] \in Pass
        BY Typed DEF IInv
    <2>2. p \in Pass /\ p.pc = "claimed" /\ p.held = n /\ p.target = pass[d].target
        BY <1>1, <2>1 DEF Pass
    <2>3. pass' = [pass EXCEPT ![d] = p]
        BY <2>1
    <2> HIDE DEF p
    <2> QED
        BY <2>1, <2>2, <2>3
<1> HIDE DEF x, p
<1>6. /\ h' \in Seq(Handler) /\ Len(h') = n /\ h'[n] = x
      /\ \A t \in Claims : h'[t] = h[t]
    BY <1>1, <1>2, <1>3, AppendProperties
<1>7. Claims' = Claims \cup {n}
    BY <1>1, <1>6 DEF Claims
<1>8. /\ row' \in [Events -> Row] /\ row'[e].status = "claimed" /\ row'[e].token = n
      /\ \A f \in Events \ {e} : row'[f] = row[f]
    BY <1>1, <1>4, RowsTyped
<1>9. /\ \A t \in Claims : h[t].event \in Events /\ h[t].drain \in Drains
      /\ \A t \in Claims : Owns(t)' <=> Owns(t)
      /\ Owns(n)'
    <2>1. \A t \in Claims : h[t].event \in Events /\ h[t].drain \in Drains
        BY Typed DEF IInv
    <2>2. ASSUME NEW t \in Claims
          PROVE  Owns(t)' <=> Owns(t)
        BY <1>1, <1>6, <1>8, <2>1 DEF Owns
    <2>3. Owns(n)'
        BY <1>2, <1>6, <1>8 DEF Owns
    <2> QED
        BY <2>1, <2>2, <2>3
<1>10. TypeOK'
    <2>1. ASSUME NEW f \in Events
          PROVE  row'[f].token <= Len(h')
        <3>1. row[f].token \in Nat /\ row[f].token <= Len(h)
            BY <1>4 DEF IInv, TypeOK, Row
        <3> QED
            BY <1>1, <1>6, <1>8, <3>1
    <2>2. 0 .. Len(h) \subseteq 0 .. Len(h') /\ Len(h') <= MaxClaims
        BY <1>1, <1>6
    <2>3. active' \in [Drains -> [Lanes -> 0 .. Len(h')]]
        BY <2>2 DEF IInv, TypeOK
    <2>5. detached' \subseteq Claims'
        BY <1>7 DEF IInv, TypeOK
    <2> QED
        BY <1>5, <1>6, <1>8, <2>1, <2>2, <2>3, <2>5 DEF IInv, TypeOK
<1>11. RowsNameTheirClaim'
    <2>1. ASSUME NEW f \in Events, row'[f].status = "claimed"
          PROVE  /\ row'[f].token \in Claims' /\ h'[row'[f].token].event = f
                 /\ \A u \in Claims' : h'[u].event = f => u <= row'[f].token
        <3>1. CASE f = e
            <4>1. \A u \in Claims' : u <= n
                BY <1>1, <1>7
            <4> QED
                BY <1>2, <1>6, <1>7, <1>8, <3>1, <4>1
        <3>2. CASE f # e
            <4>1. row'[f] = row[f]
                BY <1>8, <3>2
            <4>2. /\ row[f].token \in Claims /\ h[row[f].token].event = f
                  /\ \A u \in Claims : h[u].event = f => u <= row[f].token
                BY <2>1, <4>1 DEF IInv, RowsNameTheirClaim
            <4>3. row'[f].token \in Claims' /\ h'[row'[f].token].event = f
                <5>1. PICK k \in Claims : k = row[f].token
                    BY <4>2
                <5>2. h'[k] = h[k] /\ h[k].event = f /\ row'[f].token = k
                    BY <1>6, <4>1, <4>2, <5>1
                <5>3. k \in Claims' /\ h'[k].event = f
                    BY <1>7, <5>2, Zenon
                <5> QED
                    BY <5>2, <5>3, Zenon
            <4>4. ASSUME NEW u \in Claims', h'[u].event = f
                  PROVE  u <= row'[f].token
                <5>1. u # n
                    BY <1>2, <1>6, <3>2, <4>4
                <5>2. u \in Claims /\ h[u].event = f
                    BY <1>6, <1>7, <4>4, <5>1
                <5> QED
                    BY <4>1, <4>2, <5>2
            <4> QED
                BY <4>3, <4>4
        <3> QED
            BY <3>1, <3>2
    <2> QED
        BY <2>1 DEF RowsNameTheirClaim
<1>12. PassesHoldClaims'
    <2>1. ASSUME NEW c \in Drains, c # d
          PROVE  PassShape(pass[c])' /\ (pass'[c].held # 0 => HeldByPass(c, pass[c].held)')
        <3>1. pass'[c] = pass[c] /\ PassShape(pass[c])
            BY <1>5, <2>1 DEF IInv, PassesHoldClaims
        <3>2. PassShape(pass[c])'
            BY <1>1, <1>6, <3>1 DEF PassShape
        <3>3. pass[c].held # 0 => HeldByPass(c, pass[c].held)
            BY DEF IInv, PassesHoldClaims
        <3>4. \A t : HeldByPass(c, t) => HeldByPass(c, t)'
            BY <1>6, <1>7, <1>9 DEF HeldByPass
        <3> QED
            BY <3>1, <3>2, <3>3, <3>4
    <2>2. PassShape(pass[d])' /\ HeldByPass(d, pass[d].held)'
        <3>1. /\ pass'[d].pc = "claimed" /\ pass'[d].held = n /\ pass'[d].target = pass[d].target
              /\ pass'[d] \in Pass
            BY <1>5
        <3>2. pass[d].target \in 0 .. Len(h)
            BY DEF IInv, PassesHoldClaims, PassShape
        <3>3. PassShape(pass[d])'
            BY <1>1, <1>6, <3>1, <3>2 DEF PassShape
        <3>4. HeldByPass(d, pass[d].held)'
            BY <1>2, <1>6, <1>7, <1>9, <3>1 DEF HeldByPass
        <3> QED
            BY <3>3, <3>4
    <2> QED
        BY <2>1, <2>2 DEF PassesHoldClaims
<1>13. OwnersOwn'
    BY <1>2, <1>6, <1>7, <1>9 DEF IInv, OwnersOwn, Unsettled
<1>14. GenuineStays'
    <2>1. ASSUME NEW t \in Claims, h[t].genuine
          PROVE  /\ h'[t].phase \in {"unstarted", "adopted", "settled"}
                 /\ h'[t].settling \in {"no", "complete"}
                 /\ t \in detached' \/ Owns(t)' \/ row'[h'[t].event].status = "completed"
        <3>1. t \in detached \/ Owns(t) \/ row'[h[t].event].status = "completed"
            BY <1>8, <1>9, <2>1 DEF IInv, GenuineStays
        <3> QED
            BY <1>6, <1>9, <2>1, <3>1 DEF IInv, GenuineStays
    <2>2. \A t \in Claims' : h'[t].genuine => t \in Claims /\ h[t].genuine
        BY <1>2, <1>6, <1>7
    <2> QED
        BY <2>1, <2>2 DEF GenuineStays
<1>15. LaneHasOneHandler'
    <2>1. ASSUME NEW u \in Claims', drain[h'[u].drain] \in {"live", "aborted"},
                 h'[u].phase \notin {"unstarted", "settled"}
          PROVE  active[h'[u].drain][LaneOf[h'[u].event]] = u
        <3>1. u # n
            BY <1>2, <1>6, <2>1
        <3>2. u \in Claims /\ h'[u] = h[u]
            BY <1>6, <1>7, <2>1, <3>1
        <3> QED
            BY <2>1, <3>2 DEF IInv, LaneHasOneHandler, LaneFor
    <2> QED
        BY <2>1 DEF LaneHasOneHandler, LaneFor
<1>16. AdoptedOnce'
    <2>1. ASSUME NEW t \in Claims, h[t].event = e, h[t].genuine
          PROVE  t \in detached
        BY <2>1 DEF IInv, GenuineStays, Owns
    <2>2. ASSUME NEW t \in Claims', NEW u \in Claims', t < u, h'[t].event = h'[u].event, h'[t].genuine
          PROVE  t \in detached
        <3>1. t \in Claims
            BY <1>2, <1>6, <1>7, <2>2
        <3>2. CASE u = n
            BY <1>2, <1>6, <2>1, <2>2, <3>1, <3>2
        <3>3. CASE u \in Claims
            BY <1>6, <2>2, <3>1, <3>3 DEF IInv, AdoptedOnce
        <3> QED
            BY <1>7, <3>2, <3>3
    <2> QED
        BY <2>2 DEF AdoptedOnce
<1>17. DieTogether'
    BY DEF IInv, DieTogether
<1>18. Mail!Claim(e, n)
    <2>1. /\ [f \in Events |-> row[f].status]'
               = [[f \in Events |-> row[f].status] EXCEPT ![e] = "claimed"]
          /\ [f \in Events |-> IF row[f].status = "claimed" THEN row[f].token ELSE 0]'
               = [[f \in Events |-> IF row[f].status = "claimed" THEN row[f].token ELSE 0]
                    EXCEPT ![e] = n]
        BY <1>8
    <2>2. [f \in Events |-> {t \in Claims : h[t].event = f}]'
            = [[f \in Events |-> {t \in Claims : h[t].event = f}] EXCEPT ![e] = @ \cup {n}]
        <3>1. {t \in Claims' : h'[t].event = e} = {t \in Claims : h[t].event = e} \cup {n}
            BY <1>1, <1>2, <1>6, <1>7
        <3>2. ASSUME NEW f \in Events \ {e}
              PROVE  {t \in Claims' : h'[t].event = f} = {t \in Claims : h[t].event = f}
            BY <1>2, <1>6, <1>7
        <3> QED
            BY <3>1, <3>2
    <2>3. {t \in Claims : h[t].genuine}' = {t \in Claims : h[t].genuine}
        <3>1. {t \in Claims' : h'[t].genuine} = {t \in Claims : h[t].genuine}
            BY <1>2, <1>6, <1>7
        <3> QED
            BY <3>1
    <2>4. \A f \in Events : n \notin [g \in Events |-> {t \in Claims : h[t].event = g}][f]
        BY <1>1
    <2>5. [f \in Events |-> row[f].status][e] = "pending"
        OBVIOUS
    <2> QED
        BY <2>1, <2>2, <2>3, <2>4, <2>5 DEF Mail!Claim
<1>19. InboxStep
    <2>1. n \in 1 .. MaxClaims
        BY <1>1
    <2> QED
        BY <1>18, <2>1 DEF InboxStep, Mail!Next
<1> QED
    BY <1>10, <1>11, <1>12, <1>13, <1>14, <1>15, <1>16, <1>17, <1>19 DEF IInv

\* runClaimed dispatches the claim the pass holds on a lane that has no handler.
LEMMA RunKeepsInv ==
    ASSUME IInv, NEW d \in Drains, pass[d].pc = "claimed",
           active[d][LaneFor(pass[d].held)] = 0, RunClaimed(d), UNCHANGED <<drain, detached>>
    PROVE  IInv' /\ InboxStep
<1> DEFINE t == pass[d].held
           l == LaneFor(t)
           y == [h[t] EXCEPT !.phase = "dispatching", !.stall = "armed", !.heartbeat = TRUE]
           p == [pass[d] EXCEPT !.pc = "claim", !.held = 0, !.target = 0,
                                !.blocked = pass[d].blocked \cup {l}]
<1>1. /\ t \in Claims /\ h[t].drain = d /\ h[t].phase = "unstarted" /\ ~h[t].genuine
      /\ t \in detached \/ Owns(t)
    BY DEF IInv, PassesHoldClaims, PassShape, HeldByPass
<1>2. /\ l \in Lanes /\ h[t] \in Handler /\ Len(h) \in Nat /\ Claims = 1 .. Len(h)
      /\ active \in [Drains -> [Lanes -> 0 .. Len(h)]] /\ MaxClaims \in Nat
      /\ pass \in [Drains -> Pass]
    BY <1>1, Typed DEF IInv, LaneFor
<1>3. /\ h' = [h EXCEPT ![t] = y] /\ active' = [active EXCEPT ![d][l] = t]
      /\ pass' = [pass EXCEPT ![d] = p] /\ row' = row
    <2>1. row' = row /\ active' = [active EXCEPT ![d][l] = t]
        BY DEF RunClaimed
    <2>2. pass' = [pass EXCEPT ![d] = p]
        BY <1>2 DEF RunClaimed
    <2>3. h' = [h EXCEPT ![t] = y]
        BY <1>1, <1>2, Typed DEF RunClaimed, IInv
    <2> QED
        BY <2>1, <2>2, <2>3
<1>4. /\ y \in Handler /\ y.drain = h[t].drain /\ y.event = h[t].event
      /\ y.phase = "dispatching" /\ y.genuine = h[t].genuine
    BY <1>2 DEF Handler
<1>5. p \in Pass /\ PassShape(p) /\ p.held = 0
    <2>1. pass[d] \in Pass /\ 0 \in 0 .. MaxClaims /\ 0 \in 0 .. Len(h)
        BY <1>2
    <2> QED
        BY <1>2, <2>1 DEF Pass, PassShape
<1> HIDE DEF y, p
<1>6. /\ h' \in Seq(Handler) /\ Len(h') = Len(h) /\ Claims' = Claims
      /\ h'[t] = y /\ \A u \in Claims \ {t} : h'[u] = h[u]
    BY <1>1, <1>3, <1>4, OneHandlerMoves DEF IInv
<1>7. /\ \A u \in Claims : h'[u].drain = h[u].drain /\ h'[u].event = h[u].event
      /\ \A u \in Claims : h'[u].genuine <=> h[u].genuine
      /\ \A u \in Claims : Owns(u)' <=> Owns(u)
    BY <1>3, <1>4, <1>6 DEF Owns
<1>8. pass' \in [Drains -> Pass] /\ pass'[d] = p /\ \A c \in Drains \ {d} : pass'[c] = pass[c]
    BY <1>2, <1>3, <1>5
<1>9. /\ active' \in [Drains -> [Lanes -> 0 .. Len(h)]] /\ active'[d][l] = t
      /\ \A c \in Drains, k \in Lanes : (c # d \/ k # l) => active'[c][k] = active[c][k]
    <2>1. t \in 0 .. Len(h)
        BY <1>1, <1>2
    <2> HIDE DEF t, l
    <2> QED
        BY <1>2, <1>3, <2>1
<1>10. TypeOK'
    BY <1>3, <1>6, <1>8, <1>9 DEF IInv, TypeOK
<1>11. RowsNameTheirClaim'
    BY <1>3, <1>6, <1>7 DEF IInv, RowsNameTheirClaim
<1>12. PassesHoldClaims'
    <2>1. PassShape(pass[d])' /\ pass'[d].held = 0
        BY <1>5, <1>6, <1>8 DEF PassShape
    <2>2. ASSUME NEW c \in Drains, c # d
          PROVE  PassShape(pass[c])' /\ (pass'[c].held # 0 => HeldByPass(c, pass[c].held)')
        <3>1. /\ pass'[c] = pass[c] /\ PassShape(pass[c])
              /\ pass[c].held # 0 => HeldByPass(c, pass[c].held)
            BY <1>8, <2>2 DEF IInv, PassesHoldClaims
        <3>2. pass[c].held # 0 => pass[c].held # t
            BY <1>1, <2>2, <3>1 DEF HeldByPass
        <3>3. pass[c].held # 0 => HeldByPass(c, pass[c].held)'
            BY <1>6, <1>7, <3>1, <3>2 DEF HeldByPass
        <3> QED
            BY <1>6, <3>1, <3>3 DEF PassShape
    <2> QED
        BY <2>1, <2>2 DEF PassesHoldClaims
<1>13. OwnersOwn'
    BY <1>1, <1>4, <1>6, <1>7 DEF IInv, OwnersOwn, Unsettled
<1>14. GenuineStays'
    BY <1>1, <1>3, <1>6, <1>7 DEF IInv, GenuineStays
<1>15. LaneHasOneHandler'
    <2>1. ASSUME NEW u \in Claims, u # t, drain[h[u].drain] \in {"live", "aborted"}, Unsettled(u)
          PROVE  active'[h[u].drain][LaneFor(u)] = u
        <3>1. active[h[u].drain][LaneFor(u)] = u /\ u # 0
            BY <1>2, <2>1 DEF IInv, LaneHasOneHandler, Unsettled
        <3>2. h[u].drain \in Drains /\ LaneFor(u) \in Lanes
            BY Typed DEF IInv, LaneFor
        <3>3. h[u].drain # d \/ LaneFor(u) # l
            BY <3>1
        <3> QED
            BY <1>9, <3>1, <3>2, <3>3
    <2>2. \A u \in Claims : LaneFor(u)' = LaneFor(u)
        BY <1>7 DEF LaneFor
    <2>3. \A u \in Claims : u # t => h'[u].phase = h[u].phase
        BY <1>6
    <2>4. ASSUME NEW u \in Claims, drain'[h'[u].drain] \in {"live", "aborted"},
                 h'[u].phase \notin {"unstarted", "settled"}
          PROVE  active'[h'[u].drain][LaneOf[h'[u].event]] = u
        <3>0. LaneOf[h'[u].event] = LaneFor(u)
            BY <2>2 DEF LaneFor
        <3>1. CASE u = t
            BY <1>1, <1>7, <1>9, <3>0, <3>1
        <3>2. CASE u # t
            BY <1>7, <2>1, <2>3, <2>4, <3>0, <3>2 DEF Unsettled
        <3> QED
            BY <3>1, <3>2
    <2>5. Claims' = Claims
        BY <1>6
    <2> HIDE DEF l, t
    <2> QED
        BY <2>4, <2>5 DEF LaneHasOneHandler, LaneFor
<1>16. AdoptedOnce'
    BY <1>6, <1>7 DEF IInv, AdoptedOnce
<1>17. DieTogether'
    BY DEF IInv, DieTogether
<1>18. InboxStep
    <2>1. \A e \in Events : RowStays(e)
        BY <1>3 DEF RowStays
    <2> QED
        BY <1>1, <1>3, <1>4, <2>1, HandlerShows DEF IInv
<1> QED
    BY <1>10, <1>11, <1>12, <1>13, <1>14, <1>15, <1>16, <1>17, <1>18 DEF IInv


\* The write of a settlement by the claim that owns the row.
LEMMA WritesOneRow ==
    ASSUME NEW t, Owns(t)
    PROVE  \E w \in Row : /\ Written(t) = [row EXCEPT ![h[t].event] = w] /\ w.token = 0
                          /\ w.status \in {"pending", "completed", "failed"}
                          /\ h[t].settling = "complete" => w.status = "completed"
<1>1. CASE h[t].settling = "complete"
    BY <1>1, RowsTyped DEF Written
<1>2. CASE h[t].settling = "fail"
    BY <1>2, RowsTyped DEF Written
<1>3. CASE h[t].settling \notin {"complete", "fail"}
    BY <1>3, RowsTyped DEF Written
<1> QED
    BY <1>1, <1>2, <1>3

\* A settlement that goes through closes the row of its claim, frees the lane and
\* touches nobody else's row.
LEMMA SettlementKeepsInv ==
    ASSUME IInv, NEW t \in Claims, SettlementWrites(t),
           ~(h[t].settling = "complete" /\ ~Owns(t))
    PROVE  IInv' /\ InboxStep
<1> DEFINE d == h[t].drain
           l == LaneFor(t)
           e == h[t].event
           y == [h[t] EXCEPT !.phase = "settled", !.settling = "no", !.stall = "off",
                             !.heartbeat = FALSE,
                             !.outcome = IF h[t].outcome = "failing" THEN "over" ELSE h[t].outcome,
                             !.adoption = IF h[t].adoption = "awaited" THEN "returned"
                                          ELSE h[t].adoption]
<1>1. /\ h[t] \in Handler /\ d \in Drains /\ e \in Events /\ l \in Lanes
      /\ Len(h) \in Nat /\ Claims = 1 .. Len(h) /\ row \in [Events -> Row]
      /\ active \in [Drains -> [Lanes -> 0 .. Len(h)]]
      /\ \A u \in Claims : h[u].event \in Events /\ h[u].drain \in Drains
    BY Typed DEF IInv, LaneFor
<1>2. /\ row' = Written(t) /\ h' = [h EXCEPT ![t] = y]
      /\ active' = IF active[d][l] = t THEN [active EXCEPT ![d][l] = 0] ELSE active
      /\ UNCHANGED <<drain, pass, detached>>
      /\ h[t].settling # "no" /\ h[t].phase # "unstarted"
    BY <1>1 DEF SettlementWrites, Dispatched
<1>3. /\ y \in Handler /\ y.drain = d /\ y.event = e /\ y.phase = "settled"
      /\ y.settling = "no" /\ y.genuine = h[t].genuine
    <2> DEFINE x == h[t]
               o == IF x.outcome = "failing" THEN "over" ELSE x.outcome
               a == IF x.adoption = "awaited" THEN "returned" ELSE x.adoption
    <2>1. y = [x EXCEPT !.phase = "settled", !.settling = "no", !.stall = "off",
                        !.heartbeat = FALSE, !.outcome = o, !.adoption = a]
        OBVIOUS
    <2>2. /\ x \in Handler /\ o \in {"awaited", "failing", "over"}
          /\ a \in {"none", "awaited", "returned"}
        BY <1>1 DEF Handler
    <2>3. x.drain = d /\ x.event = e
        OBVIOUS
    <2> HIDE DEF x, o, a, y, d, e
    <2>4. y \in Handler
        BY <2>1, <2>2 DEF Handler
    <2>5. /\ y.drain = x.drain /\ y.event = x.event /\ y.phase = "settled"
          /\ y.settling = "no" /\ y.genuine = x.genuine
        BY <2>1, <2>2 DEF Handler
    <2> QED
        BY <2>3, <2>4, <2>5 DEF x
<1> HIDE DEF y
<1>4. /\ h' \in Seq(Handler) /\ Len(h') = Len(h) /\ Claims' = Claims
      /\ h'[t] = y /\ \A u \in Claims \ {t} : h'[u] = h[u]
    BY <1>2, <1>3, OneHandlerMoves DEF IInv
<1>5. /\ \A u \in Claims : h'[u].drain = h[u].drain /\ h'[u].event = h[u].event
      /\ \A u \in Claims : h'[u].genuine <=> h[u].genuine
    BY <1>3, <1>4
<1>6. /\ row' \in [Events -> Row]
      /\ \A f \in Events : f # e => row'[f] = row[f]
      /\ Owns(t) => /\ row'[e].status # "claimed" /\ row'[e].token = 0
                    /\ h[t].settling = "complete" => row'[e].status = "completed"
      /\ ~Owns(t) => row' = row
    <2>1. CASE Owns(t)
        <3>1. PICK w \in Row : /\ row' = [row EXCEPT ![e] = w] /\ w.token = 0
                               /\ w.status \in {"pending", "completed", "failed"}
                               /\ h[t].settling = "complete" => w.status = "completed"
            BY <1>2, <2>1, WritesOneRow
        <3> QED
            BY <1>1, <2>1, <3>1
    <2>2. CASE ~Owns(t)
        BY <1>1, <1>2, <2>2 DEF Written
    <2> QED
        BY <2>1, <2>2
<1>7. /\ \A u \in Claims : Owns(u)' => Owns(u)
      /\ \A u \in Claims \ {t} : Owns(u) => Owns(u)'
      /\ ~Owns(t)'
    <2>1. ASSUME NEW u \in Claims, Owns(u)'
          PROVE  Owns(u)
        <3>1. row'[h[u].event].status = "claimed" /\ row'[h[u].event].token = u
            BY <1>5, <2>1 DEF Owns
        <3>2. row'[h[u].event] = row[h[u].event]
            <4>1. CASE ~Owns(t)
                BY <1>6, <4>1
            <4>2. CASE h[u].event # e
                BY <1>1, <1>6, <4>2
            <4>3. CASE Owns(t) /\ h[u].event = e
                BY <1>6, <3>1, <4>3
            <4> QED
                BY <4>1, <4>2, <4>3
        <3> QED
            BY <3>1, <3>2 DEF Owns
    <2>2. ASSUME NEW u \in Claims \ {t}, Owns(u)
          PROVE  Owns(u)'
        <3>1. row'[h[u].event] = row[h[u].event]
            <4>1. CASE Owns(t)
                <5>1. h[u].event # e
                    BY <2>2, <4>1, OneOwner
                <5> QED
                    BY <1>1, <1>6, <5>1
            <4>2. CASE ~Owns(t)
                BY <1>6, <4>2
            <4> QED
                BY <4>1, <4>2
        <3> QED
            BY <1>5, <2>2, <3>1 DEF Owns
    <2>3. ~Owns(t)'
        BY <1>5, <1>6 DEF Owns
    <2> QED
        BY <2>1, <2>2, <2>3
<1>8. /\ active' \in [Drains -> [Lanes -> 0 .. Len(h)]]
      /\ \A c \in Drains, k \in Lanes : active[c][k] # t => active'[c][k] = active[c][k]
    <2>1. 0 \in 0 .. Len(h)
        BY <1>1
    <2> HIDE DEF d, l
    <2> QED
        BY <1>1, <1>2, <2>1
<1>9. TypeOK'
    <2>1. ASSUME NEW f \in Events
          PROVE  row'[f].token <= Len(h')
        BY <1>1, <1>4, <1>6 DEF IInv, TypeOK
    <2> QED
        BY <1>2, <1>4, <1>6, <1>8, <2>1 DEF IInv, TypeOK
<1>10. RowsNameTheirClaim'
    <2>1. \A f \in Events : row'[f].status = "claimed" => row'[f] = row[f]
        BY <1>6
    <2> QED
        BY <1>4, <1>5, <2>1 DEF IInv, RowsNameTheirClaim
<1>11. PassesHoldClaims'
    <2>1. \A c \in Drains, u \in Claims : HeldByPass(c, u) => u # t
        BY <1>2 DEF HeldByPass
    <2>2. \A c \in Drains, u \in Claims : HeldByPass(c, u) => HeldByPass(c, u)'
        BY <1>2, <1>4, <1>5, <1>7, <2>1 DEF HeldByPass
    <2>3. \A c \in Drains : pass[c].held # 0 => pass[c].held \in Claims
        BY DEF IInv, PassesHoldClaims, HeldByPass
    <2> QED
        BY <1>2, <1>4, <2>2, <2>3 DEF IInv, PassesHoldClaims, PassShape
<1>12. OwnersOwn'
    BY <1>2, <1>3, <1>4, <1>7 DEF IInv, OwnersOwn, Unsettled
<1>13. GenuineStays'
    <2>1. ASSUME NEW u \in Claims, h[u].genuine
          PROVE  u \in detached \/ Owns(u)' \/ row'[h[u].event].status = "completed"
        <3>1. CASE u = t
            <4>1. h[t].settling = "complete" /\ Owns(t)
                BY <1>2, <2>1, <3>1 DEF IInv, GenuineStays
            <4> QED
                BY <1>6, <3>1, <4>1
        <3>2. CASE u # t
            <4>1. row[h[u].event].status = "completed" => row'[h[u].event] = row[h[u].event]
                BY <1>1, <1>6 DEF Owns
            <4> QED
                BY <1>7, <2>1, <3>2, <4>1 DEF IInv, GenuineStays
        <3> QED
            BY <3>1, <3>2
    <2> QED
        BY <1>2, <1>3, <1>4, <1>5, <2>1 DEF IInv, GenuineStays
<1>14. LaneHasOneHandler'
    <2>1. ASSUME NEW u \in Claims, u # t, drain[h[u].drain] \in {"live", "aborted"}, Unsettled(u)
          PROVE  active'[h[u].drain][LaneFor(u)] = u
        <3>1. active[h[u].drain][LaneFor(u)] = u
            BY <2>1 DEF IInv, LaneHasOneHandler, Unsettled
        <3>2. h[u].drain \in Drains /\ LaneFor(u) \in Lanes
            BY Typed DEF IInv, LaneFor
        <3> QED
            BY <1>8, <2>1, <3>1, <3>2
    <2>2. \A u \in Claims : LaneFor(u)' = LaneFor(u)
        BY <1>5 DEF LaneFor
    <2> QED
        BY <1>2, <1>3, <1>4, <1>5, <2>1, <2>2 DEF LaneHasOneHandler, Unsettled
<1>15. AdoptedOnce'
    BY <1>2, <1>4, <1>5 DEF IInv, AdoptedOnce
<1>16. DieTogether'
    BY <1>2 DEF IInv, DieTogether
<1>17. InboxStep
    <2>1. HandlersStay
        BY <1>3, <1>4 DEF HandlersStay
    <2>2. CASE Owns(t)
        <3>1. PICK w \in Row : /\ Written(t) = [row EXCEPT ![h[t].event] = w]
                               /\ w.status \in {"pending", "completed", "failed"}
                               /\ h[t].settling = "complete" => w.status = "completed"
            BY <2>2, WritesOneRow
        <3>2. h[t].genuine => h[t].settling = "complete"
            BY <1>2 DEF IInv, GenuineStays
        <3>3. PICK f \in Events, o \in {"pending", "completed", "failed"} :
                  f = h[t].event /\ o = w.status
            BY <1>1, <3>1
        <3>4. row'[f].status = o /\ \A g \in Events \ {f} : row'[g] = row[g]
            BY <1>1, <1>2, <3>1, <3>3
        <3>5. (h[t].genuine => o = "completed") /\ detached' = detached
            BY <1>2, <3>1, <3>2, <3>3
        <3> HIDE DEF d, l, e
        <3> QED
            BY <2>1, <2>2, <3>3, <3>4, <3>5, FinishShows
    <2>3. CASE ~Owns(t)
        <3>1. row' = row
            BY <1>6, <2>3
        <3>2. \A f \in Events : RowStays(f)
            BY <3>1 DEF RowStays
        <3> QED
            BY <1>2, <2>1, <3>2, NothingShows
    <2> QED
        BY <2>2, <2>3
<1> QED
    BY <1>9, <1>10, <1>11, <1>12, <1>13, <1>14, <1>15, <1>16, <1>17 DEF IInv

-----------------------------------------------------------------------------
(* The rows and the pass, step by step.                                    *)

\* Passes that nobody moves.
LEMMA PassesStay ==
    ASSUME IInv, pass' = pass
    PROVE  /\ pass' \in [Drains -> Pass]
           /\ \A d \in Drains : PassShape(pass'[d]) /\ pass'[d].held \in {0, pass[d].held}
BY Typed DEF IInv, PassesHoldClaims

\* One row that is not claimed afterwards moves, and no claim owns it that is not
\* detached or in the hands of a pass that lets go.
LEMMA OneRowMoves ==
    ASSUME IInv, NEW e \in Events, NEW w \in Row, row' = [row EXCEPT ![e] = w],
           w.status # "claimed", w.token = 0, UNCHANGED <<h, active, drain>>,
           detached \subseteq detached', detached' \subseteq Claims,
           pass' \in [Drains -> Pass],
           \A d \in Drains : PassShape(pass'[d]) /\ pass'[d].held \in {0, pass[d].held},
           \A t \in Claims \ detached' : h[t].event = e =>
               /\ row[e].status # "completed"
               /\ Owns(t) => /\ h[t].phase = "unstarted" /\ ~h[t].genuine
                             /\ \A d \in Drains : pass'[d].held # t
    PROVE  RowStep
<1>1. /\ row \in [Events -> Row] /\ Len(h) \in Nat
      /\ \A f \in Events : row[f].token <= Len(h)
      /\ \A t \in Claims : h[t].event \in Events
    BY Typed DEF IInv, TypeOK
<1>2. row' \in [Events -> Row] /\ row'[e] = w /\ \A f \in Events \ {e} : row'[f] = row[f]
    BY <1>1
<1>3. \A f \in Events : row'[f].token <= Len(h)
    BY <1>1, <1>2
<1>4. ASSUME NEW t \in Claims \ detached'
      PROVE  /\ row[h[t].event].status = "completed" => row'[h[t].event].status = "completed"
             /\ Owns(t) => \/ row'[h[t].event].status = "claimed"
                           \/ /\ h[t].phase = "unstarted" /\ ~h[t].genuine
                              /\ \A d \in Drains : pass'[d].held # t
    <2>1. CASE h[t].event = e
        BY <1>4, <2>1
    <2>2. CASE h[t].event # e
        <3>1. row'[h[t].event] = row[h[t].event]
            BY <1>1, <1>2, <2>2
        <3> QED
            BY <3>1 DEF Owns
    <2> QED
        BY <2>1, <2>2
<1> QED
    BY <1>2, <1>3, <1>4 DEF RowStep

\* Only a pass moves.
LEMMA OnlyThePassMoves ==
    ASSUME IInv, UNCHANGED <<row, h, active, drain, detached>>,
           pass' \in [Drains -> Pass],
           \A d \in Drains : PassShape(pass'[d]) /\ pass'[d].held \in {0, pass[d].held}
    PROVE  RowStep
BY Typed DEF IInv, TypeOK, RowStep, Owns

\* The queue's own callers, and a lease that lapses.
LEMMA CallersMoveRows ==
    ASSUME IInv, NEW e \in Events,
           Enqueue(e) \/ Resubmit(e) \/ Prune(e) \/ LeaseLapses(e)
    PROVE  RowStep
<1>1. /\ UNCHANGED <<h, active, drain, pass>> /\ Claims' = Claims
      /\ detached \subseteq Claims
    BY DEF Enqueue, Resubmit, Prune, LeaseLapses, Claims, IInv, TypeOK
<1>2. \A t : Owns(t) /\ h[t].event = e => row[e].status = "claimed"
    BY DEF Owns
<1>3. CASE Enqueue(e) \/ Resubmit(e)
    <2>1. /\ row' = [row EXCEPT ![e] = PendingRow(FALSE)] /\ detached' = detached
          /\ row[e].status \in {"absent", "failed"}
        BY <1>3 DEF Enqueue, Resubmit
    <2>2. PendingRow(FALSE) \in Row /\ PendingRow(FALSE).status # "claimed" /\ PendingRow(FALSE).token = 0
        BY RowsTyped
    <2> QED
        BY <1>1, <1>2, <2>1, <2>2, PassesStay, OneRowMoves
<1>4. CASE Prune(e)
    <2>1. /\ row' = [row EXCEPT ![e] = ClosedRow("absent")]
          /\ detached' = detached \cup {t \in Claims : h[t].event = e}
        BY <1>4 DEF Prune
    <2>2. ClosedRow("absent") \in Row /\ ClosedRow("absent").status # "claimed" /\ ClosedRow("absent").token = 0
        BY RowsTyped
    <2> QED
        BY <1>1, <2>1, <2>2, PassesStay, OneRowMoves
<1>5. CASE LeaseLapses(e)
    <2>1. row' = [row EXCEPT ![e].fresh = FALSE] /\ detached' = detached
        BY <1>5 DEF LeaseLapses
    <2>2. /\ row \in [Events -> Row] /\ \A f \in Events : row[f].token <= Len(h)
          /\ \A t \in Claims : h[t].event \in Events
        BY Typed DEF IInv, TypeOK
    <2>3. row' \in [Events -> Row]
        BY <2>1, <2>2 DEF Row
    <2>4. \A f \in Events : row'[f].status = row[f].status /\ row'[f].token = row[f].token
        BY <2>1, <2>2 DEF Row
    <2> QED
        BY <1>1, <2>1, <2>2, <2>3, <2>4, PassesStay DEF RowStep, Owns
<1> QED
    BY <1>3, <1>4, <1>5


\* What they do is submitting, pruning or nothing.
LEMMA CallersUseTheInbox ==
    ASSUME IInv, NEW e \in Events,
           Enqueue(e) \/ Resubmit(e) \/ Prune(e) \/ LeaseLapses(e)
    PROVE  InboxStep
<1>1. row \in [Events -> Row] /\ h' = h
    BY Typed DEF IInv, Enqueue, Resubmit, Prune, LeaseLapses
<1>2. HandlersStay
    BY <1>1 DEF HandlersStay, Claims
<1>3. CASE Enqueue(e) \/ Resubmit(e)
    BY <1>1, <1>3, SubmissionShows DEF Enqueue, Resubmit
<1>4. CASE Prune(e)
    <2>1. PICK w : w = ClosedRow("absent")
        OBVIOUS
    <2>2. /\ row' = [row EXCEPT ![e] = w] /\ w.status = "absent" /\ row[e].status \in Terminal
          /\ detached' = detached \cup {t \in Claims : h[t].event = e}
        BY <1>4, <2>1, RowsTyped DEF Prune
    <2>3. [f \in Events |-> row[f].status]' = [[f \in Events |-> row[f].status] EXCEPT ![e] = "absent"]
        BY <1>1, <2>2, OneRowShows
    <2>4. [f \in Events |-> IF row[f].status = "claimed" THEN row[f].token ELSE 0]'
            = [f \in Events |-> IF row[f].status = "claimed" THEN row[f].token ELSE 0]
        BY <1>1, <2>2, OneRowShows DEF Terminal
    <2>5. Mail!Prune(e)
        BY <1>2, <2>2, <2>3, <2>4, HandlersShowNothing DEF Mail!Prune, Terminal
    <2> QED
        BY <2>5 DEF InboxStep, Mail!Next
<1>5. CASE LeaseLapses(e)
    <2>1. row' = [row EXCEPT ![e].fresh = FALSE] /\ detached' = detached
        BY <1>5 DEF LeaseLapses
    <2>2. \A f \in Events : RowStays(f)
        BY <1>1, <2>1 DEF Row, RowStays
    <2> QED
        BY <1>2, <2>1, <2>2, NothingShows
<1> QED
    BY <1>3, <1>4, <1>5

\* recoverStaleClaims: what it takes away is counted as detached.
LEMMA BeginPassMovesRows ==
    ASSUME IInv, NEW d \in Drains, BeginPass(d)
    PROVE  RowStep
<1> DEFINE stale == {e \in Events : Recoverable(d, e)}
           p == [pass[d] EXCEPT !.pc = "pending"]
<1>1. /\ row' = [e \in Events |-> IF e \in stale THEN PendingRow(row[e].erred) ELSE row[e]]
      /\ detached' = detached \cup {row[e].token : e \in stale}
      /\ pass' = [pass EXCEPT ![d].pc = "pending"]
      /\ UNCHANGED <<h, active, drain>>
    BY DEF BeginPass
<1>2. \A e \in stale : e \in Events /\ row[e].status = "claimed"
    BY DEF Recoverable
<1> HIDE DEF stale
<1>3. /\ row \in [Events -> Row] /\ \A e \in Events : row[e].token <= Len(h)
      /\ pass \in [Drains -> Pass] /\ pass[d] \in Pass /\ Len(h) \in Nat
      /\ \A t \in Claims : h[t].event \in Events
    BY Typed DEF IInv, TypeOK
<1>4. detached' \subseteq Claims
    BY <1>1, <1>2 DEF IInv, TypeOK, RowsNameTheirClaim
<1>5. \A e \in Events : IF e \in stale
          THEN row'[e] \in Row /\ row'[e].status = "pending" /\ row'[e].token = 0
          ELSE row'[e] = row[e]
    <2>1. \A e \in Events : row[e].erred \in BOOLEAN
        BY <1>3, RowsTyped
    <2>2. \A e \in Events : row'[e] = IF e \in stale THEN PendingRow(row[e].erred) ELSE row[e]
        BY <1>1
    <2> QED
        BY <2>1, <2>2, RowsTyped
<1>6. row' \in [Events -> Row]
    BY <1>1, <1>3, <1>5
<1>7. \A e \in Events :
          /\ row'[e].token <= Len(h)
          /\ row'[e].status = "claimed" => row[e].status = "claimed" /\ row'[e].token = row[e].token
    BY <1>3, <1>5
<1>8. ASSUME NEW t \in Claims \ detached'
      PROVE  /\ row[h[t].event].status = "completed" => row'[h[t].event].status = "completed"
             /\ Owns(t) => row'[h[t].event].status = "claimed"
    <2>1. Owns(t) => h[t].event \notin stale
        BY <1>1, <1>8 DEF Owns
    <2>2. row[h[t].event].status = "completed" => h[t].event \notin stale
        BY <1>2
    <2> QED
        BY <1>3, <1>5, <2>1, <2>2 DEF Owns
<1>9. /\ pass' \in [Drains -> Pass]
      /\ \A c \in Drains : PassShape(pass'[c]) /\ pass'[c].held \in {0, pass[c].held}
    <2>1. /\ p \in Pass /\ p.pc = "pending" /\ p.held = pass[d].held
          /\ p.target = pass[d].target
        BY <1>3 DEF Pass
    <2>2. PassShape(p)
        BY <2>1 DEF IInv, PassesHoldClaims, PassShape
    <2>3. pass' = [pass EXCEPT ![d] = p]
        BY <1>1, <1>3
    <2> HIDE DEF p
    <2> QED
        BY <2>1, <2>2, <2>3, PassGoesOn
<1> QED
    BY <1>1, <1>4, <1>6, <1>7, <1>8, <1>9 DEF RowStep

\* It takes no claim whose owner lives and renews the lease: an owner that a pass
\* may disregard within the lease is dead, for its process is.
LEMMA RecoveryShows ==
    ASSUME IInv, NEW d \in Drains, BeginPass(d)
    PROVE  InboxStep
<1> DEFINE stale == {e \in Events : Recoverable(d, e)}
           kept == {e \in Events : /\ row[e].status = "claimed" /\ row[e].fresh
                                   /\ drain[h[row[e].token].drain] = "live"}
<1>0. PICK S \in SUBSET Events : S = stale
    OBVIOUS
<1>1. /\ row' = [e \in Events |-> IF e \in stale THEN PendingRow(row[e].erred) ELSE row[e]]
      /\ detached' = detached \cup {row[e].token : e \in stale}
      /\ h' = h
    BY DEF BeginPass
<1>2. ASSUME NEW e \in stale
      PROVE  row[e].status = "claimed" /\ e \notin kept
    <2>1. PICK t : t = row[e].token
        OBVIOUS
    <2>2. /\ row[e].status = "claimed"
          /\ ~(ProcOf[h[t].drain] = ProcOf[d] /\ drain[h[t].drain] = "live")
          /\ ~(ProcOf[h[t].drain] # ProcOf[d] /\ row[e].fresh /\ ~Gone(ProcOf[h[t].drain]))
        BY <2>1 DEF Recoverable
    <2>3. h[t].drain \in Drains
        BY <2>1, <2>2, Typed DEF IInv, RowsNameTheirClaim
    <2>4. Gone(ProcOf[h[t].drain]) => drain[h[t].drain] = "crashed"
        BY <2>3 DEF Gone, IInv, DieTogether
    <2> QED
        BY <2>1, <2>2, <2>4
<1>3. \A e \in Events : row[e].erred \in BOOLEAN
    BY Typed, RowsTyped DEF IInv
<1>4. HandlersStay
    BY <1>1 DEF HandlersStay, Claims
<1>5. S = stale
    BY <1>0
<1> HIDE DEF stale
<1>6. [e \in Events |-> row[e].status]'
        = [e \in Events |-> IF e \in S THEN "pending" ELSE [f \in Events |-> row[f].status][e]]
    BY <1>1, <1>3, <1>5, RowsTyped
<1>7. [e \in Events |-> IF row[e].status = "claimed" THEN row[e].token ELSE 0]'
        = [e \in Events |-> IF e \in S THEN 0
                            ELSE [f \in Events |-> IF row[f].status = "claimed"
                                                    THEN row[f].token ELSE 0][e]]
    BY <1>1, <1>3, <1>5, RowsTyped
<1>8. detached' = detached \cup {[f \in Events |-> IF row[f].status = "claimed"
                                                    THEN row[f].token ELSE 0][e] : e \in S}
    BY <1>1, <1>2, <1>5
<1>9. Mail!Recover(S)
    BY <1>2, <1>4, <1>5, <1>6, <1>7, <1>8, HandlersShowNothing DEF Mail!Recover
<1> QED
    BY <1>9 DEF InboxStep, Mail!Next

\* After a question about superseding the pass goes back to its scan or its claim.
LEMMA AfterSupersedeShape ==
    ASSUME IInv, NEW p, PassShape(p)
    PROVE  /\ AfterSupersede(p) \in Pass /\ PassShape(AfterSupersede(p))
           /\ AfterSupersede(p).held = p.held
<1>1. p \in Pass /\ 0 \in 0 .. MaxClaims /\ 0 \in 0 .. Len(h)
    BY Typed DEF IInv, PassShape
<1>2. CASE p.held = 0
    <2>1. AfterSupersede(p) = [p EXCEPT !.pc = "scan", !.target = 0]
        BY <1>2 DEF AfterSupersede
    <2> QED
        BY <1>1, <2>1 DEF Pass, PassShape
<1>3. CASE p.held # 0
    <2>1. AfterSupersede(p) = [p EXCEPT !.pc = "claimed"]
        BY <1>3 DEF AfterSupersede
    <2> QED
        BY <1>1, <1>3, <2>1 DEF Pass, PassShape
<1> QED
    BY <1>2, <1>3

\* A set of events that is not empty has a first one.
LEMMA EarliestIsOne ==
    ASSUME NEW S, S \subseteq Events, S # {}
    PROVE  Earliest(S) \in S
<1> DEFINE below == OpToRel(<, Nat)
<1>1. S \subseteq Nat
    BY EventsAssumption
<1>2. \A x, y \in Nat : x < y => <<x, y>> \in below
    <2>1. ASSUME NEW x \in Nat, NEW y \in Nat, x < y
          PROVE  <<x, y>> \in below
        <3>1. <<x, y>> \in Nat \X Nat /\ <<x, y>>[1] = x /\ <<x, y>>[2] = y
            OBVIOUS
        <3> QED
            BY <2>1, <3>1, Zenon DEF OpToRel
    <2> QED
        BY <2>1, Zenon
<1>3. IsWellFoundedOn(below, Nat)
    BY NatLessThanWellFounded, Zenon
<1> HIDE DEF below
<1>4. PICK e \in S : \A f \in S : ~(<<f, e>> \in below)
    BY <1>1, <1>3, WFMin
<1>5. ASSUME NEW f \in S
      PROVE  e <= f
    <2>1. f \in Nat /\ e \in Nat
        BY <1>1
    <2>2. ~(f < e)
        BY <1>2, <1>4, <2>1, Zenon
    <2> QED
        BY <2>1, <2>2
<1> QED
    BY <1>4, <1>5 DEF Earliest

\* Listing, scanning, asking, and going on after an answer: only the pass moves.
LEMMA PassMovesAlone ==
    ASSUME IInv, NEW d \in Drains,
           ListPending(d) \/ ListClaims(d) \/ ScanPending(d) \/ SupersedeSettled(d)
    PROVE  RowStep
<1> DEFINE q == pass[d]
<1>1. /\ pass \in [Drains -> Pass] /\ q \in Pass /\ PassShape(q)
      /\ Len(h) \in Nat /\ MaxClaims \in Nat /\ Len(h) <= MaxClaims
      /\ active \in [Drains -> [Lanes -> 0 .. Len(h)]]
      /\ \A e \in Events : LaneOf[e] \in Lanes
    BY Typed DEF IInv, PassesHoldClaims
<1>2. q.candidates \subseteq Events /\ q.toScan \subseteq Events /\ q.blocked \subseteq Lanes
    BY <1>1 DEF Pass
<1>3. UNCHANGED <<row, h, active, drain, detached>>
    BY DEF ListPending, ListClaims, ScanPending, SupersedeSettled
<1>4. SUFFICES \E p \in Pass : /\ PassShape(p) /\ p.held \in {0, q.held}
                               /\ pass' = [pass EXCEPT ![d] = p]
    BY <1>3, PassGoesOn, OnlyThePassMoves
<1>5. CASE ListPending(d)
    <2> DEFINE listed == {e \in Events : row[e].status = "pending"}
    <2>1. PICK delayed \in SUBSET {e \in listed : row[e].erred} :
              pass' = [pass EXCEPT ![d] = [q EXCEPT !.pc = "claims", !.candidates = listed,
                                             !.blocked = {LaneOf[e] : e \in delayed}]]
        BY <1>5 DEF ListPending
    <2> DEFINE blocked == {LaneOf[e] : e \in delayed}
               p == [q EXCEPT !.pc = "claims", !.candidates = listed, !.blocked = blocked]
    <2>2. listed \subseteq Events /\ blocked \subseteq Lanes
        BY <1>1
    <2>3. pass' = [pass EXCEPT ![d] = p]
        BY <2>1
    <2> HIDE DEF listed, blocked, q
    <2>4. p \in Pass /\ PassShape(p) /\ p.held = q.held
        BY <1>1, <2>2 DEF Pass, PassShape
    <2> QED
        BY <2>3, <2>4
<1>6. CASE ListClaims(d)
    <2> DEFINE claimed == {e \in Events : row[e].status = "claimed"}
               blocked == q.blocked \cup {l \in Lanes : active[d][l] # 0}
                                    \cup {LaneOf[e] : e \in claimed}
               next == IF Supersedes THEN "scan" ELSE "claim"
               scan == IF Supersedes THEN q.candidates ELSE {}
               p == [q EXCEPT !.pc = next, !.toScan = scan, !.blocked = blocked]
    <2>1. pass' = [pass EXCEPT ![d] = p]
        BY <1>6 DEF ListClaims
    <2>2. blocked \subseteq Lanes /\ scan \subseteq Events /\ next \in {"scan", "claim"}
        BY <1>1, <1>2
    <2> HIDE DEF blocked, next, scan, q
    <2>3. p \in Pass /\ PassShape(p) /\ p.held = q.held
        BY <1>1, <2>2 DEF Pass, PassShape
    <2> QED
        BY <2>1, <2>3
<1>7. CASE ScanPending(d)
    <2> DEFINE asks == {e \in q.toScan : Supersedable(d, LaneOf[e])}
    <2>1. CASE asks = {} \/ Stopped(d)
        <3> DEFINE p == [q EXCEPT !.pc = "claim", !.toScan = {}]
        <3>1. pass' = [pass EXCEPT ![d] = p]
            BY <1>7, <2>1 DEF ScanPending
        <3> HIDE DEF q
        <3>2. p \in Pass /\ PassShape(p) /\ p.held = q.held
            BY <1>1 DEF Pass, PassShape
        <3> QED
            BY <3>1, <3>2
    <2>2. CASE ~(asks = {} \/ Stopped(d))
        <3> DEFINE left == {e \in q.toScan : e > Earliest(asks)}
                   target == active[d][LaneOf[Earliest(asks)]]
                   p == [q EXCEPT !.pc = "asked", !.toScan = left, !.target = target]
        <3>1. pass' = [pass EXCEPT ![d] = p]
            BY <1>7, <2>2 DEF ScanPending
        <3>2. Earliest(asks) \in asks
            BY <1>2, <2>2, EarliestIsOne
        <3>3. target \in 0 .. Len(h) /\ target # 0
            BY <1>1, <1>2, <3>2 DEF Supersedable
        <3>4. left \subseteq Events
            BY <1>2
        <3> HIDE DEF left, target, q
        <3>5. target \in 0 .. MaxClaims
            BY <1>1, <3>3
        <3>6. p \in Pass /\ PassShape(p) /\ p.held = q.held
            BY <1>1, <3>3, <3>4, <3>5 DEF Pass, PassShape
        <3> QED
            BY <3>1, <3>6
    <2> QED
        BY <2>1, <2>2
<1>8. CASE SupersedeSettled(d)
    <2> DEFINE blocked == q.blocked \ {LaneFor(q.target)}
               r == [q EXCEPT !.blocked = blocked]
               p == AfterSupersede(r)
    <2>1. pass' = [pass EXCEPT ![d] = p]
        BY <1>8 DEF SupersedeSettled
    <2>2. blocked \subseteq Lanes
        BY <1>2
    <2> HIDE DEF blocked, q
    <2>3. r \in Pass /\ PassShape(r) /\ r.held = q.held
        BY <1>1, <2>2 DEF Pass, PassShape
    <2> HIDE DEF r
    <2>4. p \in Pass /\ PassShape(p) /\ p.held = q.held
        BY <2>3, AfterSupersedeShape
    <2> QED
        BY <2>1, <2>4
<1> QED
    BY <1>5, <1>6, <1>7, <1>8

\* A claim handed back goes to the queue or stays claimed; the pass lets go of it.
LEMMA HandBackMovesRows ==
    ASSUME IInv, NEW d \in Drains, pass[d].held # 0, NEW p \in Pass, PassShape(p), p.held = 0,
           HandBack(d, p), UNCHANGED <<drain, detached>>
    PROVE  RowStep
<1> DEFINE t == pass[d].held
           e == h[t].event
<1>1. /\ t \in Claims /\ h[t].drain = d /\ h[t].phase = "unstarted" /\ ~h[t].genuine
      /\ pass \in [Drains -> Pass] /\ row \in [Events -> Row] /\ e \in Events
    BY Typed DEF IInv, PassesHoldClaims, HeldByPass
<1>2. UNCHANGED <<h, active, drain, detached>>
    BY DEF HandBack
<1>3. PICK q \in {p, IdlePass} : pass' = [pass EXCEPT ![d] = q]
    BY DEF HandBack
<1>4. q \in Pass /\ PassShape(q) /\ q.held = 0
    BY IdleHoldsNothing DEF IInv
<1>5. /\ pass' \in [Drains -> Pass]
      /\ \A c \in Drains : PassShape(pass'[c]) /\ pass'[c].held \in {0, pass[c].held}
    BY <1>3, <1>4, PassGoesOn
<1>6. \A c \in Drains : pass'[c].held # t
    <2>1. pass'[d].held = 0 /\ \A c \in Drains \ {d} : pass'[c] = pass[c]
        BY <1>1, <1>3, <1>4
    <2>2. \A c \in Drains : pass[c].held = t => c = d
        BY <1>1, Typed DEF IInv, PassesHoldClaims, HeldByPass
    <2>3. t # 0
        OBVIOUS
    <2> QED
        BY <2>1, <2>2, <2>3
<1>7. row' = row \/ (Owns(t) /\ row' = [row EXCEPT ![e] = PendingRow(row[e].erred)])
    BY <1>1 DEF HandBack
<1>8. CASE row' = row
    BY <1>2, <1>5, <1>8, OnlyThePassMoves
<1>9. CASE Owns(t) /\ row' = [row EXCEPT ![e] = PendingRow(row[e].erred)]
    <2>1. PICK f \in Events : f = e
        BY <1>1
    <2>2. PICK w \in Row : w = PendingRow(row[e].erred)
        BY <1>1, RowsTyped
    <2>3. w.status # "claimed" /\ w.token = 0
        BY <1>1, <2>2, RowsTyped
    <2>4. \A u : h[u].event = e => /\ row[e].status # "completed"
                                   /\ Owns(u) => u = t
        BY <1>9 DEF Owns
    <2>5. detached' = detached /\ detached \subseteq Claims
        BY <1>2 DEF IInv, TypeOK
    <2>6. row' = [row EXCEPT ![f] = w]
        BY <1>9, <2>1, <2>2
    <2>7. \A u \in Claims \ detached' : h[u].event = f =>
               /\ row[f].status # "completed"
               /\ Owns(u) => /\ h[u].phase = "unstarted" /\ ~h[u].genuine
                             /\ \A c \in Drains : pass'[c].held # u
        BY <1>1, <1>6, <2>1, <2>4
    <2> QED
        <3>1. UNCHANGED <<h, active, drain>> /\ detached \subseteq detached' /\ detached' \subseteq Claims
            BY <1>2, <2>5
        <3> HIDE DEF t, e
        <3> QED
            BY <1>5, <2>3, <2>6, <2>7, <3>1, OneRowMoves, ZenonT(60)
<1> QED
    BY <1>7, <1>8, <1>9

\* A claim handed back unstarted was never adopted.
LEMMA HandBackShows ==
    ASSUME IInv, NEW d \in Drains, pass[d].held # 0, NEW p, HandBack(d, p), detached' = detached
    PROVE  InboxStep
<1>1. PICK t : t = pass[d].held
    OBVIOUS
<1>2. /\ t \in Claims /\ ~h[t].genuine /\ row \in [Events -> Row] /\ h[t].event \in Events
    BY <1>1, Typed DEF IInv, PassesHoldClaims, HeldByPass
<1>3. row' = row \/ (Owns(t) /\ row' = [row EXCEPT ![h[t].event] = PendingRow(row[h[t].event].erred)])
    BY <1>1, <1>2 DEF HandBack
<1>4. h' = h
    BY DEF HandBack
<1>5. CASE Owns(t) /\ row' = [row EXCEPT ![h[t].event] = PendingRow(row[h[t].event].erred)]
    <2>1. HandlersStay
        BY <1>4 DEF HandlersStay, Claims
    <2>2. PICK e \in Events : e = h[t].event
        BY <1>2
    <2>3. row'[e].status = "pending" /\ \A f \in Events \ {e} : row'[f] = row[f]
        BY <1>2, <1>5, <2>2, RowsTyped
    <2> QED
        BY <1>2, <1>5, <2>1, <2>2, <2>3, FinishShows
<1> QED
    BY <1>3, <1>4, <1>5, StillShowsNothing


-----------------------------------------------------------------------------
(* The dispatched code, the timers and the settlement, step by step.       *)

\* Handler x may become y.
Moves(x, y) ==
    /\ y \in Handler /\ y.drain = x.drain /\ y.event = x.event /\ y.phase # "unstarted"
    /\ y.phase = "settled" <=> x.phase = "settled"
    /\ x.genuine => y.genuine
    /\ y.genuine => /\ x.genuine \/ x.phase \notin {"unstarted", "settled"}
                    /\ y.phase \in {"adopted", "settled"} /\ y.settling \in {"no", "complete"}

\* A dispatched handler, by its phase.
LEMMA DispatchedHandler ==
    ASSUME IInv, NEW t \in Claims, h[t].phase # "unstarted"
    PROVE  /\ h[t] \in Handler /\ h[t].phase \in Open \cup {"adopted", "settled"}
           /\ h[t].phase \in Open => ~h[t].genuine
           /\ h[t].genuine => h[t].settling \in {"no", "complete"}
<1>1. h[t] \in Handler
    BY Typed DEF IInv
<1>2. h[t].phase \in Open \cup {"adopted", "settled"}
    BY <1>1 DEF Handler, Open
<1>3. h[t].genuine => /\ h[t].phase \in {"unstarted", "adopted", "settled"}
                      /\ h[t].settling \in {"no", "complete"}
    BY DEF IInv, GenuineStays
<1> QED
    BY <1>1, <1>2, <1>3 DEF Open

\* A handler that moves alone keeps the invariant.
LEMMA OnlyTheHandlerMoves ==
    ASSUME IInv, NEW t \in Claims, h[t].phase # "unstarted",
           \E y : Moves(h[t], y) /\ h' = [h EXCEPT ![t] = y],
           UNCHANGED <<row, active, drain, pass, detached>>
    PROVE  IInv' /\ InboxStep
<1>1. PICK y : Moves(h[t], y) /\ h' = [h EXCEPT ![t] = y]
    OBVIOUS
<1>2. row' \in [Events -> Row]
    BY Typed DEF IInv
<1>3. HandlerStep(t, y)
    BY <1>1, <1>2, PassesStay DEF Moves, HandlerStep, Unsettled
<1>4. InboxStep
    <2>1. \A e \in Events : RowStays(e)
        BY DEF RowStays
    <2> QED
        BY <1>1, <2>1, HandlerShows DEF IInv, Moves, Unsettled
<1> QED
    BY <1>3, <1>4, HandlerStepKeepsInv

\* The first disposition is set on a handler that moved.
LEMMA SettlingMoves ==
    ASSUME NEW x \in Handler, NEW z, NEW f \in {"complete", "release", "fail"}, Moves(x, z),
           z.genuine => (z.settling = "no" /\ f = "complete") \/ z.settling = "complete"
    PROVE  Moves(x, Settle(z, f))
<1>1. z \in Handler
    BY DEF Moves
<1>2. /\ Settle(z, f) \in Handler
      /\ Settle(z, f).settling = IF z.settling = "no" THEN f ELSE z.settling
      /\ Settle(z, f).drain = z.drain /\ Settle(z, f).event = z.event
      /\ Settle(z, f).phase = z.phase /\ Settle(z, f).genuine = z.genuine
    BY <1>1, Settles
<1> HIDE DEF Settle
<1> QED
    BY <1>2 DEF Moves

\* An adoption that begins before any other disposition is genuine.
LEMMA AdoptionMoves ==
    ASSUME NEW x \in Handler, x.phase \in Open, ~x.genuine, NEW z \in Handler,
           z.drain = x.drain, z.event = x.event, z.phase = "adopted",
           z.settling = x.settling, z.genuine = (x.settling = "no")
    PROVE  Moves(x, Settle(z, "complete"))
<1>1. /\ Settle(z, "complete") \in Handler
      /\ Settle(z, "complete").settling = IF z.settling = "no" THEN "complete" ELSE z.settling
      /\ Settle(z, "complete").drain = z.drain /\ Settle(z, "complete").event = z.event
      /\ Settle(z, "complete").phase = z.phase /\ Settle(z, "complete").genuine = z.genuine
    BY Settles
<1> HIDE DEF Settle
<1> QED
    BY <1>1 DEF Moves, Open

\* The channel's callbacks.
LEMMA CallbacksKeepInv ==
    ASSUME IInv, NEW t \in Claims,
           OnAdopted(t) \/ OnDeferred(t) \/ OnAdoptionFinalizing(t) \/ OnAbandoned(t)
    PROVE  IInv' /\ InboxStep
<1> DEFINE x == h[t]
<1>1. x.phase # "unstarted" /\ UNCHANGED <<row, active, drain, pass, detached>>
    BY DEF OnAdopted, OnDeferred, OnAdoptionFinalizing, OnAbandoned, Dispatched
<1>2. /\ x \in Handler /\ x.phase \in Open \cup {"adopted", "settled"}
      /\ x.phase \in Open => ~x.genuine
      /\ x.genuine => x.settling \in {"no", "complete"}
    BY <1>1, DispatchedHandler
<1>3. SUFFICES \E y : Moves(x, y) /\ h' = [h EXCEPT ![t] = y]
    BY <1>1, OnlyTheHandlerMoves
<1>4. CASE OnAdopted(t) /\ x.phase \in {"adopted", "settled"}
    <2> DEFINE y == [x EXCEPT !.adoption = "returned"]
    <2>1. h' = [h EXCEPT ![t] = y]
        BY <1>4 DEF OnAdopted
    <2> HIDE DEF x
    <2>2. Moves(x, y)
        BY <1>2, <1>4 DEF Moves, Handler
    <2> QED
        BY <2>1, <2>2
<1>5. CASE OnAdopted(t) /\ x.phase \notin {"adopted", "settled"}
    <2> DEFINE b == x.settling = "no"
               z == [x EXCEPT !.phase = "adopted", !.stall = "off", !.adoption = "awaited",
                              !.genuine = b]
               y == Settle(z, "complete")
    <2>1. h' = [h EXCEPT ![t] = y]
        BY <1>5 DEF OnAdopted
    <2>2. b \in BOOLEAN /\ x.phase \in Open
        BY <1>2, <1>5
    <2>3. b = (x.settling = "no")
        OBVIOUS
    <2> HIDE DEF x, b
    <2>4. /\ z \in Handler /\ z.drain = x.drain /\ z.event = x.event /\ z.phase = "adopted"
          /\ z.settling = x.settling /\ z.genuine = b
        BY <1>2, <2>2 DEF Handler
    <2> HIDE DEF z
    <2>5. Moves(x, y)
        BY <1>2, <2>2, <2>3, <2>4, AdoptionMoves
    <2> QED
        BY <2>1, <2>5
<1>6. CASE OnDeferred(t)
    <2> DEFINE y == [x EXCEPT !.phase = "deferred"]
    <2>1. h' = [h EXCEPT ![t] = y] /\ x.phase = "dispatching"
        BY <1>6 DEF OnDeferred
    <2> HIDE DEF x
    <2>2. Moves(x, y)
        BY <1>2, <2>1 DEF Moves, Handler, Open
    <2> QED
        BY <2>1, <2>2
<1>7. CASE OnAdoptionFinalizing(t)
    <2> DEFINE y == [x EXCEPT !.stall = "held"]
    <2>1. h' = [h EXCEPT ![t] = y] /\ x.phase \in Open
        BY <1>7 DEF OnAdoptionFinalizing
    <2> HIDE DEF x
    <2>2. Moves(x, y)
        BY <1>2, <2>1 DEF Moves, Handler, Open
    <2> QED
        BY <2>1, <2>2
<1>8. CASE OnAbandoned(t)
    <2> DEFINE z == [x EXCEPT !.stall = "off"]
               y == Settle(z, "release")
    <2>1. h' = [h EXCEPT ![t] = y] /\ x.phase \in Open
        BY <1>8 DEF OnAbandoned
    <2> HIDE DEF x
    <2>2. Moves(x, z) /\ ~z.genuine
        BY <1>2, <2>1 DEF Moves, Handler, Open
    <2> HIDE DEF z
    <2>3. Moves(x, y)
        BY <1>2, <2>2, SettlingMoves
    <2> QED
        BY <2>1, <2>3
<1> QED
    BY <1>4, <1>5, <1>6, <1>7, <1>8

\* A failed dispatch: release or dead-letter, by the failure policy.
LEMMA DispatchFailedMoves ==
    ASSUME IInv, NEW t \in Claims, h[t].phase \in Open, NEW o \in {"failing", "over"},
           DispatchFailed(t, o)
    PROVE  \E y : Moves(h[t], y) /\ h' = [h EXCEPT ![t] = y]
<1> DEFINE x == h[t]
           z == [x EXCEPT !.outcome = o, !.stall = "off"]
<1>1. x \in Handler /\ ~x.genuine
    BY DispatchedHandler DEF Open
<1>2. PICK f \in Failures : h' = [h EXCEPT ![t] = Settle(z, f)]
    BY DEF DispatchFailed
<1>3. x.phase \in Open
    OBVIOUS
<1> HIDE DEF x
<1>4. Moves(x, z) /\ ~z.genuine
    BY <1>1, <1>3 DEF Moves, Handler, Open
<1> HIDE DEF z
<1>5. Moves(x, Settle(z, f))
    BY <1>1, <1>4, SettlingMoves DEF Failures
<1> QED
    BY <1>2, <1>5 DEF x

\* The outcome of the dispatch.
LEMMA OutcomesKeepInv ==
    ASSUME IInv, NEW t \in Claims, NEW result \in Results,
           DispatchReturns(t, result) \/ DispatchThrows(t)
    PROVE  IInv' /\ InboxStep
<1> DEFINE x == h[t]
<1>1. /\ OutcomeCounts(t) /\ UNCHANGED <<row, active, drain, pass, detached>>
      /\ x.phase # "unstarted" /\ x.phase \in Open
    BY DEF DispatchReturns, DispatchThrows, OutcomeCounts, Dispatched
<1>2. x \in Handler /\ ~x.genuine
    BY <1>1, DispatchedHandler
<1>3. SUFFICES \E y : Moves(x, y) /\ h' = [h EXCEPT ![t] = y]
    BY <1>1, OnlyTheHandlerMoves
<1>4. CASE DispatchFailed(t, "failing") \/ DispatchFailed(t, "over")
    BY <1>1, <1>4, DispatchFailedMoves
<1>5. CASE h' = [h EXCEPT ![t] = [@ EXCEPT !.outcome = "over"]]
    <2> DEFINE y == [x EXCEPT !.outcome = "over"]
    <2>1. h' = [h EXCEPT ![t] = y]
        BY <1>5
    <2> HIDE DEF x
    <2>2. Moves(x, y)
        BY <1>1, <1>2 DEF Moves, Handler, Open
    <2> QED
        BY <2>1, <2>2
<1>6. CASE h' = [h EXCEPT ![t] = [@ EXCEPT !.outcome = "over", !.phase = "deferred"]]
    <2> DEFINE y == [x EXCEPT !.outcome = "over", !.phase = "deferred"]
    <2>1. h' = [h EXCEPT ![t] = y]
        BY <1>6
    <2> HIDE DEF x
    <2>2. Moves(x, y)
        BY <1>1, <1>2 DEF Moves, Handler, Open
    <2> QED
        BY <2>1, <2>2
<1>7. CASE h' = [h EXCEPT ![t] = Settle([@ EXCEPT !.outcome = "over", !.phase = "adopted",
                                                 !.stall = "off",
                                                 !.genuine = h[t].settling = "no"],
                                       "complete")]
    <2> DEFINE b == x.settling = "no"
               z == [x EXCEPT !.outcome = "over", !.phase = "adopted", !.stall = "off", !.genuine = b]
               y == Settle(z, "complete")
    <2>1. h' = [h EXCEPT ![t] = y]
        BY <1>7
    <2>2. b \in BOOLEAN /\ b = (x.settling = "no")
        OBVIOUS
    <2> HIDE DEF x, b
    <2>3. /\ z \in Handler /\ z.drain = x.drain /\ z.event = x.event /\ z.phase = "adopted"
          /\ z.settling = x.settling /\ z.genuine = b
        BY <1>2, <2>2 DEF Handler
    <2> HIDE DEF z
    <2>4. Moves(x, y)
        BY <1>1, <1>2, <2>2, <2>3, AdoptionMoves
    <2> QED
        BY <2>1, <2>4
<1>8. CASE DispatchThrows(t)
    <2>1. h' = [h EXCEPT ![t].outcome = "over"] => h' = [h EXCEPT ![t] = [@ EXCEPT !.outcome = "over"]]
        OBVIOUS
    <2> QED
        BY <1>4, <1>5, <1>8, <2>1 DEF DispatchThrows
<1>9. CASE DispatchReturns(t, result)
    BY <1>4, <1>5, <1>6, <1>7, <1>9 DEF DispatchReturns
<1> QED
    BY <1>8, <1>9


\* Nothing moves.
LEMMA StutterKeepsInv ==
    ASSUME IInv, UNCHANGED vars
    PROVE  IInv' /\ InboxStep
<1>1. UNCHANGED <<row, h, active, drain, pass, detached>>
    BY DEF vars
<1>2. RowStep
    BY <1>1, PassesStay, OnlyThePassMoves
<1> QED
    BY <1>1, <1>2, RowStepKeepsInv, StillShowsNothing

\* A settlement that fails frees whoever awaited it; only a handler nobody has
\* adopted gets another disposition.
LEMMA FailedSettlementMoves ==
    ASSUME IInv, NEW t \in Claims, h[t].phase # "unstarted", NEW next \in NextDispositions(t)
    PROVE  Moves(h[t], SettlementFailed(h[t], next))
<1> DEFINE x == h[t]
           y == SettlementFailed(x, next)
           o == IF x.outcome = "failing" THEN "over" ELSE x.outcome
           a == IF x.adoption = "awaited" THEN "none" ELSE x.adoption
<1>1. /\ x \in Handler /\ x.phase \in Open \cup {"adopted", "settled"}
      /\ x.phase \in Open => ~x.genuine
    BY DispatchedHandler
<1>2. next \in {"no", "release", "fail"} /\ (next = "no" \/ x.phase \in Open)
    BY DEF NextDispositions, Failures
<1>3. y = [x EXCEPT !.settling = next, !.adoption = a, !.outcome = o]
    BY DEF SettlementFailed
<1>4. o \in {"awaited", "failing", "over"} /\ a \in {"none", "awaited", "returned"}
    BY <1>1 DEF Handler
<1> HIDE DEF x, o, a, y
<1>5. /\ y \in Handler /\ y.drain = x.drain /\ y.event = x.event /\ y.phase = x.phase
      /\ y.genuine = x.genuine /\ y.settling = next
    <2>1. next \in {"no", "release", "fail"}
        BY <1>2
    <2>2. y \in Handler
        BY <1>1, <1>3, <1>4, <2>1 DEF Handler
    <2>3. /\ y.drain = x.drain /\ y.event = x.event /\ y.phase = x.phase
          /\ y.genuine = x.genuine /\ y.settling = next
        BY <1>1, <1>3 DEF Handler
    <2> QED
        BY <2>2, <2>3
<1>6. Moves(x, y)
    BY <1>1, <1>2, <1>5 DEF Moves, Open
<1> QED
    BY <1>6 DEF x, y

\* The watchdog dead-letters a handler that is open.
LEMMA StallKeepsInv ==
    ASSUME IInv, NEW t \in Claims, StallFires(t)
    PROVE  IInv' /\ InboxStep
<1> DEFINE x == h[t]
<1>1. x.phase # "unstarted" /\ UNCHANGED <<row, active, drain, pass, detached>>
    BY DEF StallFires, Dispatched
<1>2. /\ x \in Handler /\ x.phase \in Open \cup {"adopted", "settled"}
      /\ x.phase \in Open => ~x.genuine
      /\ x.genuine => x.settling \in {"no", "complete"}
    BY <1>1, DispatchedHandler
<1>3. SUFFICES \E y : Moves(x, y) /\ h' = [h EXCEPT ![t] = y]
    BY <1>1, OnlyTheHandlerMoves
<1>4. CASE x.phase \in Open
    <2> DEFINE z == [x EXCEPT !.guillotined = TRUE, !.stall = "off"]
               y == Settle(z, "fail")
    <2>1. h' = [h EXCEPT ![t] = y]
        BY <1>4 DEF StallFires
    <2> HIDE DEF x
    <2>2. Moves(x, z) /\ ~z.genuine
        BY <1>2, <1>4 DEF Moves, Handler, Open
    <2> HIDE DEF z
    <2>3. Moves(x, y)
        BY <1>2, <2>2, SettlingMoves
    <2> QED
        BY <2>1, <2>3
<1>5. CASE x.phase \notin Open
    <2> DEFINE y == [x EXCEPT !.stall = "off"]
    <2>1. h' = [h EXCEPT ![t] = y]
        BY <1>5 DEF StallFires
    <2> HIDE DEF x
    <2>2. Moves(x, y)
        BY <1>2, <1>5 DEF Moves, Handler
    <2> QED
        BY <2>1, <2>2
<1> QED
    BY <1>4, <1>5

\* A lease that is renewed or lapses moves nothing else.
LEMMA LeaseMoves ==
    ASSUME IInv, NEW e \in Events, NEW b \in BOOLEAN, row' = [row EXCEPT ![e].fresh = b],
           UNCHANGED <<h, active, drain, pass, detached>>
    PROVE  IInv' /\ InboxStep
<1>1. /\ row \in [Events -> Row] /\ \A f \in Events : row[f].token <= Len(h)
      /\ \A t \in Claims : h[t].event \in Events /\ detached \subseteq Claims
    BY Typed DEF IInv, TypeOK
<1>2. row' \in [Events -> Row]
    BY <1>1 DEF Row
<1>3. \A f \in Events : row'[f].status = row[f].status /\ row'[f].token = row[f].token
    BY <1>1 DEF Row
<1>4. detached' \subseteq Claims
    BY DEF IInv, TypeOK
<1>5. RowStep
    BY <1>1, <1>2, <1>3, <1>4, PassesStay DEF RowStep, Owns
<1>6. InboxStep
    <2>1. HandlersStay /\ \A f \in Events : RowStays(f)
        BY <1>3 DEF HandlersStay, RowStays, Claims
    <2> QED
        BY <2>1, NothingShows
<1> QED
    BY <1>5, <1>6, RowStepKeepsInv

\* The refresh timer.
LEMMA HeartbeatKeepsInv ==
    ASSUME IInv, NEW t \in Claims, HeartbeatTick(t)
    PROVE  IInv' /\ InboxStep
<1> DEFINE x == h[t]
<1>1. x.phase # "unstarted" /\ UNCHANGED <<active, drain, pass, detached>>
    BY DEF HeartbeatTick, Dispatched
<1>2. /\ x \in Handler /\ x.phase \in Open \cup {"adopted", "settled"} /\ x.event \in Events
      /\ x.phase \in Open => ~x.genuine
      /\ x.genuine => x.settling \in {"no", "complete"}
    BY <1>1, DispatchedHandler, Typed DEF IInv
<1>3. CASE h' = h
    <2>1. PICK e \in Events : e = x.event
        BY <1>2
    <2>2. row' = [row EXCEPT ![e].fresh = TRUE] \/ row' = row
        BY <1>3, <2>1 DEF HeartbeatTick
    <2>3. CASE row' = [row EXCEPT ![e].fresh = TRUE]
        BY <1>1, <1>3, <2>3, LeaseMoves
    <2>4. CASE row' = row
        <3>1. UNCHANGED vars
            BY <1>1, <1>3, <2>4 DEF vars
        <3> QED
            BY <3>1, StutterKeepsInv
    <2> QED
        BY <2>2, <2>3, <2>4
<1>4. CASE h' = [h EXCEPT ![t].heartbeat = FALSE] /\ row' = row
    <2> DEFINE y == [x EXCEPT !.heartbeat = FALSE]
    <2>1. h' = [h EXCEPT ![t] = y]
        BY <1>4
    <2> HIDE DEF x
    <2>2. Moves(x, y)
        BY <1>1, <1>2 DEF Moves, Handler, Open
    <2>3. \E z : Moves(x, z) /\ h' = [h EXCEPT ![t] = z]
        BY <2>1, <2>2
    <2> QED
        BY <1>1, <1>4, <2>3, OnlyTheHandlerMoves DEF x
<1>5. CASE /\ h' = [h EXCEPT ![t].guillotined = TRUE, ![t].stall = "off", ![t].heartbeat = FALSE]
           /\ row' = row
    <2> DEFINE y == [x EXCEPT !.guillotined = TRUE, !.stall = "off", !.heartbeat = FALSE]
    <2>1. h' = [h EXCEPT ![t] = y]
        BY <1>2, <1>5, Typed DEF IInv
    <2> HIDE DEF x
    <2>2. Moves(x, y)
        BY <1>1, <1>2 DEF Moves, Handler, Open
    <2>3. \E z : Moves(x, z) /\ h' = [h EXCEPT ![t] = z]
        BY <2>1, <2>2
    <2> QED
        BY <1>1, <1>5, <2>3, OnlyTheHandlerMoves DEF x
<1> QED
    BY <1>3, <1>4, <1>5 DEF HeartbeatTick

\* A settlement is written, refused or given up.
LEMMA SettlementsKeepInv ==
    ASSUME IInv, NEW t \in Claims, SettlementWrites(t) \/ SettlementGivesUp(t)
    PROVE  IInv' /\ InboxStep
<1>1. CASE SettlementWrites(t) /\ ~(h[t].settling = "complete" /\ ~Owns(t))
    BY <1>1, SettlementKeepsInv
<1>2. CASE \/ SettlementGivesUp(t)
           \/ SettlementWrites(t) /\ h[t].settling = "complete" /\ ~Owns(t)
    <2>1. /\ h[t].phase # "unstarted" /\ UNCHANGED <<active, drain, pass, detached>>
          /\ \E next \in NextDispositions(t) : h' = [h EXCEPT ![t] = SettlementFailed(h[t], next)]
        BY <1>2 DEF SettlementGivesUp, SettlementWrites, Dispatched
    <2>2. row' = row
        BY <1>2 DEF SettlementGivesUp, SettlementWrites, Written
    <2>3. \E y : Moves(h[t], y) /\ h' = [h EXCEPT ![t] = y]
        BY <2>1, FailedSettlementMoves
    <2> QED
        BY <2>1, <2>2, <2>3, OnlyTheHandlerMoves
<1> QED
    BY <1>1, <1>2


\* The answer about superseding: a late yes supersedes an unadopted handler that
\* still has its lane, and any other answer moves only the pass.
LEMMA AnswerKeepsInv ==
    ASSUME IInv, NEW d \in Drains, NEW yes \in BOOLEAN, SupersedeAnswered(d, yes)
    PROVE  IInv' /\ InboxStep
<1> DEFINE q == pass[d]
<1>1. PICK t : t = q.target
    OBVIOUS
<1>2. /\ pass \in [Drains -> Pass] /\ q \in Pass /\ PassShape(q) /\ q.pc = "asked"
      /\ t \in 0 .. Len(h) /\ t # 0 /\ Len(h) \in Nat
    BY <1>1, Typed DEF IInv, PassesHoldClaims, PassShape, SupersedeAnswered
<1>3. t \in Claims /\ h[t] \in Handler /\ h[t].event \in Events
    BY <1>2, Typed DEF IInv, Claims
<1>4. UNCHANGED <<row, active, drain, detached>>
    BY DEF SupersedeAnswered
<1>5. CASE yes /\ active[d][LaneFor(t)] = t /\ h[t].phase \in Open /\ ~Lost(t)
    <2> DEFINE x == h[t]
               z == [x EXCEPT !.superseded = TRUE, !.stall = "off"]
               p == [q EXCEPT !.pc = "superseding"]
    <2>1. h' = [h EXCEPT ![t] = Settle(z, "complete")] /\ pass' = [pass EXCEPT ![d] = p]
        BY <1>1, <1>2, <1>5, Zenon DEF SupersedeAnswered
    <2>2. x \in Handler /\ x.phase \in Open /\ ~x.genuine
        BY <1>3, <1>5 DEF IInv, GenuineStays, Open
    <2>3. p \in Pass /\ PassShape(p) /\ p.held = q.held
        BY <1>1, <1>2 DEF Pass, PassShape
    <2> HIDE DEF x, p, q
    <2>4. /\ z \in Handler /\ z.drain = x.drain /\ z.event = x.event
          /\ z.phase = x.phase /\ z.genuine = x.genuine
        BY <2>2 DEF Handler
    <2> HIDE DEF z
    <2>5. PICK y : y = Settle(z, "complete")
        OBVIOUS
    <2>6. /\ y \in Handler /\ y.drain = x.drain /\ y.event = x.event
          /\ y.phase = x.phase /\ ~y.genuine
        BY <2>2, <2>4, <2>5, Settles
    <2>7. /\ pass' \in [Drains -> Pass]
          /\ \A c \in Drains : PassShape(pass'[c]) /\ pass'[c].held \in {0, pass[c].held}
        BY <2>1, <2>3, PassGoesOn DEF q
    <2>8. HandlerStep(t, y)
        BY <1>3, <1>4, <2>1, <2>2, <2>5, <2>6, <2>7, Typed DEF HandlerStep, Open, IInv, x
    <2>9. InboxStep
        <3>1. \A e \in Events : RowStays(e)
            BY <1>4 DEF RowStays
        <3> QED
            BY <1>3, <1>4, <2>1, <2>2, <2>5, <2>6, <3>1, HandlerShows DEF IInv, x
    <2> QED
        BY <2>8, <2>9, HandlerStepKeepsInv
<1>6. CASE ~(yes /\ active[d][LaneFor(t)] = t /\ h[t].phase \in Open /\ ~Lost(t))
    <2>1. h' = h /\ pass' = [pass EXCEPT ![d] = AfterSupersede(q)]
        BY <1>1, <1>2, <1>6, Zenon DEF SupersedeAnswered
    <2>2. RowStep
        BY <1>2, <1>4, <2>1, AfterSupersedeShape, PassGoesOn, OnlyThePassMoves
    <2> QED
        BY <1>4, <2>1, <2>2, RowStepKeepsInv, StillShowsNothing
<1> QED
    BY <1>5, <1>6

\* claimNext claims a pending row under the next token, or ends the pass.
LEMMA ClaimNextKeepsInv ==
    ASSUME IInv, NEW d \in Drains, ClaimNext(d)
    PROVE  IInv' /\ InboxStep
<1>1. pass \in [Drains -> Pass] /\ PassShape(pass[d]) /\ Len(h) <= MaxClaims
      /\ Len(h) \in Nat /\ MaxClaims \in Nat
    BY Typed DEF IInv, PassesHoldClaims
<1>2. UNCHANGED <<active, drain, detached>>
    BY DEF ClaimNext
<1>3. CASE Stopped(d) \/ Claimable(d) = {} \/ Len(h) = MaxClaims
    <2>1. pass' = [pass EXCEPT ![d] = IdlePass] /\ UNCHANGED <<row, h>>
        BY <1>3 DEF ClaimNext
    <2>2. RowStep
        BY <1>2, <2>1, IdleHoldsNothing, PassGoesOn, OnlyThePassMoves DEF IInv
    <2> QED
        BY <1>2, <2>1, <2>2, RowStepKeepsInv, StillShowsNothing
<1>4. CASE ~(Stopped(d) \/ Claimable(d) = {} \/ Len(h) = MaxClaims)
    <2>1. Claimable(d) \subseteq Events
        BY <1>1 DEF Claimable, Pass
    <2>2. PICK e : e = Earliest(Claimable(d))
        OBVIOUS
    <2>3. e \in Events /\ row[e].status = "pending"
        <3>1. e \in Claimable(d)
            BY <1>4, <2>1, <2>2, EarliestIsOne
        <3> QED
            BY <2>1, <3>1 DEF Claimable
    <2>4. PICK n : n = Len(h) + 1
        OBVIOUS
    <2>5. /\ row' = [row EXCEPT ![e] = ClaimedRow(@, n)]
          /\ h' = Append(h, NewHandler(d, e))
          /\ pass' = [pass EXCEPT ![d].pc = "claimed", ![d].held = n]
        BY <1>4, <2>2, <2>4, Zenon DEF ClaimNext
    <2>6. Len(h) < MaxClaims
        BY <1>1, <1>4
    <2> QED
        BY <1>2, <2>3, <2>4, <2>5, <2>6, ClaimKeepsInv, ZenonT(60)
<1> QED
    BY <1>3, <1>4

\* A claimed row is run, handed back unstarted, or waits for an answer.
LEMMA HandOverKeepsInv ==
    ASSUME IInv, NEW d \in Drains, HandOver(d)
    PROVE  IInv' /\ InboxStep
<1> DEFINE q == pass[d]
           l == LaneFor(q.held)
<1>1. /\ pass \in [Drains -> Pass] /\ q \in Pass /\ PassShape(q) /\ q.pc = "claimed"
      /\ q.held # 0 /\ HeldByPass(d, q.held) /\ Len(h) \in Nat
    BY Typed DEF IInv, PassesHoldClaims, PassShape, HandOver
<1>2. UNCHANGED <<drain, detached>>
    BY DEF HandOver
<1>3. l \in Lanes /\ active[d][l] \in 0 .. Len(h) /\ Len(h) <= MaxClaims /\ MaxClaims \in Nat
    BY <1>1, Typed DEF IInv, HeldByPass, LaneFor
<1> HIDE DEF l
<1>4. CASE HandBack(d, IdlePass)
    <2>1. PICK p : p = IdlePass
        OBVIOUS
    <2>2. p \in Pass /\ PassShape(p) /\ p.held = 0
        BY <2>1, IdleHoldsNothing DEF IInv
    <2>3. HandBack(d, p)
        BY <1>4, <2>1
    <2>4. RowStep
        BY <1>1, <1>2, <2>2, <2>3, HandBackMovesRows
    <2> QED
        BY <1>1, <1>2, <2>3, <2>4, RowStepKeepsInv, HandBackShows
<1>5. CASE /\ Supersedable(d, l)
           /\ pass' = [pass EXCEPT ![d].pc = "asked", ![d].target = active[d][l]]
           /\ UNCHANGED <<row, h, active>>
    <2> DEFINE a == active[d][l]
               p == [q EXCEPT !.pc = "asked", !.target = a]
    <2>1. pass' = [pass EXCEPT ![d] = p]
        BY <1>1, <1>5
    <2>2. a # 0 /\ a \in 0 .. MaxClaims /\ a \in 0 .. Len(h)
        BY <1>3, <1>5 DEF Supersedable
    <2> HIDE DEF a, q
    <2>3. p \in Pass /\ PassShape(p) /\ p.held = q.held
        BY <1>1, <2>2 DEF Pass, PassShape
    <2> HIDE DEF p
    <2>4. RowStep
        BY <1>2, <1>5, <2>1, <2>3, PassGoesOn, OnlyThePassMoves DEF q
    <2> QED
        BY <1>2, <1>5, <2>4, RowStepKeepsInv, StillShowsNothing
<1>6. CASE HandBack(d, [q EXCEPT !.pc = "claim", !.held = 0, !.target = 0, !.blocked = @ \cup {l}])
    <2>1. PICK p : p = [q EXCEPT !.pc = "claim", !.held = 0, !.target = 0, !.blocked = @ \cup {l}]
        OBVIOUS
    <2>2. PICK b : b = q.blocked \cup {l}
        OBVIOUS
    <2>3. b \subseteq Lanes
        BY <1>1, <1>3, <2>2 DEF Pass
    <2>4. p = [q EXCEPT !.pc = "claim", !.held = 0, !.target = 0, !.blocked = b]
        BY <2>1, <2>2
    <2> HIDE DEF q
    <2>5. p \in Pass /\ PassShape(p) /\ p.held = 0
        <3>1. q \in Pass /\ 0 \in 0 .. MaxClaims /\ 0 \in 0 .. Len(h)
            BY <1>1, <1>3
        <3>2. p \in Pass /\ p.pc = "claim" /\ p.held = 0 /\ p.target = 0
            BY <2>3, <2>4, <3>1 DEF Pass
        <3> QED
            BY <3>1, <3>2 DEF PassShape
    <2>6. HandBack(d, p)
        BY <1>6, <2>1
    <2>7. RowStep
        BY <1>1, <1>2, <2>5, <2>6, HandBackMovesRows DEF q
    <2> QED
        BY <1>1, <1>2, <2>6, <2>7, RowStepKeepsInv, HandBackShows DEF q
<1>7. CASE active[d][l] = 0 /\ RunClaimed(d)
    BY <1>1, <1>2, <1>7, RunKeepsInv DEF l
<1> QED
    BY <1>4, <1>5, <1>6, <1>7 DEF HandOver, l


-----------------------------------------------------------------------------
(* The life of a drain, and every step.                                    *)

\* A function that gives every claim a handler is a sequence of handlers.
LEMMA HandlersAreASequence ==
    ASSUME TypeOK, NEW g \in [Claims -> Handler]
    PROVE  g \in Seq(Handler) /\ Len(g) = Len(h)
<1>1. Len(h) \in Nat /\ Claims = 1 .. Len(h)
    BY Typed
<1>2. g \in [1 .. Len(h) -> Handler]
    BY <1>1
<1>3. g \in Seq(Handler)
    BY <1>1, <1>2, SeqDef
<1>4. DOMAIN g = 1 .. Len(h)
    BY <1>2
<1> QED
    BY <1>1, <1>3, <1>4, LenProperties

\* Abort and dispose keep the phases of the handlers they leave behind.
LEMMA StopIsALifeStep ==
    ASSUME IInv, NEW d \in Drains, Abort(d) \/ Dispose(d)
    PROVE  LifeStep
<1>1. /\ Len(h) \in Nat /\ h \in Seq(Handler) /\ pass \in [Drains -> Pass]
      /\ active \in [Drains -> [Lanes -> 0 .. Len(h)]]
      /\ drain \in [Drains -> {"live", "aborted", "disposed", "crashed"}]
      /\ \A t \in Claims : h[t] \in Handler /\ h[t].drain \in Drains
    BY Typed DEF IInv, TypeOK
<1>2. CASE Abort(d)
    <2>1. /\ UNCHANGED <<row, h, active, pass, detached>>
          /\ drain[d] = "live" /\ drain' = [drain EXCEPT ![d] = "aborted"]
        BY <1>2 DEF Abort
    <2>2. /\ drain' \in [Drains -> {"live", "aborted", "disposed", "crashed"}]
          /\ \A c \in Drains : drain'[c] \in {"live", "aborted"} => drain[c] \in {"live", "aborted"}
          /\ \A c \in Drains : drain'[c] = "crashed" <=> drain[c] = "crashed"
        BY <1>1, <2>1
    <2>3. DieTogether'
        BY <2>2 DEF IInv, DieTogether
    <2> QED
        BY <1>1, <2>1, <2>2, <2>3 DEF LifeStep
<1>3. CASE Dispose(d)
    <2>1. PICK g : g = [t \in Claims |-> IF \E l \in Lanes : active[d][l] = t
                                         THEN [h[t] EXCEPT !.stall = "off", !.heartbeat = FALSE]
                                         ELSE h[t]]
        OBVIOUS
    <2>2. /\ UNCHANGED <<row, pass, detached>> /\ h' = g
          /\ drain' = [drain EXCEPT ![d] = "disposed"]
          /\ active' = [active EXCEPT ![d] = [l \in Lanes |-> 0]]
        BY <1>3, <2>1 DEF Dispose
    <2>3. \A x \in Handler : LET y == [x EXCEPT !.stall = "off", !.heartbeat = FALSE]
                             IN  /\ y \in Handler /\ y.drain = x.drain /\ y.event = x.event
                                 /\ y.genuine = x.genuine /\ y.phase = x.phase
                                 /\ y.settling = x.settling
        BY DEF Handler
    <2>4. \A t \in Claims : /\ g[t] \in Handler
                            /\ g[t].drain = h[t].drain /\ g[t].event = h[t].event
                            /\ g[t].genuine = h[t].genuine /\ g[t].phase = h[t].phase
                            /\ g[t].settling = h[t].settling
        BY <1>1, <2>1, <2>3
    <2>5. g \in Seq(Handler) /\ Len(g) = Len(h)
        <3>1. g \in [Claims -> Handler]
            BY <2>1, <2>4
        <3> QED
            BY <3>1, HandlersAreASequence DEF IInv
    <2>6. [l \in Lanes |-> 0] \in [Lanes -> 0 .. Len(h)]
        BY <1>1
    <2>7. active' \in [Drains -> [Lanes -> 0 .. Len(h)]]
        BY <1>1, <2>2, <2>6
    <2>8. /\ drain' \in [Drains -> {"live", "aborted", "disposed", "crashed"}]
          /\ \A c \in Drains : drain'[c] \in {"live", "aborted"} =>
                 drain[c] \in {"live", "aborted"} /\ active'[c] = active[c]
        BY <1>1, <2>2
    <2>9. \A c \in Drains : drain'[c] = "crashed" <=> drain[c] = "crashed"
        BY <1>1, <1>3, <2>2 DEF Dispose
    <2>10. DieTogether'
        BY <2>9 DEF IInv, DieTogether
    <2> QED
        BY <1>1, <2>2, <2>4, <2>5, <2>7, <2>8, <2>10 DEF LifeStep
<1> QED
    BY <1>2, <1>3

\* A crash takes the handlers and the passes of the process, and no row.
LEMMA CrashIsALifeStep ==
    ASSUME IInv, NEW p \in Procs, Crash(p)
    PROVE  LifeStep
<1> DEFINE killed == {d \in Drains : ProcOf[d] = p}
           none == [l \in Lanes |-> 0]
<1>1. /\ Len(h) \in Nat /\ h \in Seq(Handler) /\ pass \in [Drains -> Pass]
      /\ active \in [Drains -> [Lanes -> 0 .. Len(h)]]
      /\ drain \in [Drains -> {"live", "aborted", "disposed", "crashed"}]
      /\ \A t \in Claims : /\ h[t] \in Handler /\ h[t].drain \in Drains
                           /\ h[t].event \in Events
    BY Typed DEF IInv, TypeOK
<1>2. PICK g : g = [t \in Claims |->
                      IF h[t].drain \in killed
                      THEN [NewHandler(h[t].drain, h[t].event) EXCEPT !.genuine = h[t].genuine]
                      ELSE h[t]]
    OBVIOUS
<1>3. /\ UNCHANGED <<row, detached>> /\ h' = g
      /\ drain' = [d \in Drains |-> IF d \in killed THEN "crashed" ELSE drain[d]]
      /\ pass' = [d \in Drains |-> IF d \in killed THEN IdlePass ELSE pass[d]]
      /\ active' = [d \in Drains |-> IF d \in killed THEN none ELSE active[d]]
    BY <1>2 DEF Crash
<1> HIDE DEF killed
<1>4. ASSUME NEW d \in Drains, NEW e \in Events, NEW b \in BOOLEAN
      PROVE  LET y == [NewHandler(d, e) EXCEPT !.genuine = b]
             IN  /\ y \in Handler /\ y.drain = d /\ y.event = e /\ y.genuine = b
                 /\ y.phase = "unstarted" /\ y.settling = "no"
    BY DEF NewHandler, Handler
<1>5. \A t \in Claims : h[t].genuine \in BOOLEAN
    BY <1>1 DEF Handler
<1>6. ASSUME NEW t \in Claims
      PROVE  /\ g[t] \in Handler
             /\ g[t].drain = h[t].drain /\ g[t].event = h[t].event /\ g[t].genuine = h[t].genuine
             /\ IF h[t].drain \in killed
                THEN g[t].phase = "unstarted" /\ g[t].settling = "no"
                ELSE g[t].phase = h[t].phase /\ g[t].settling = h[t].settling
    <2>1. CASE h[t].drain \in killed
        <3>1. g[t] = [NewHandler(h[t].drain, h[t].event) EXCEPT !.genuine = h[t].genuine]
            BY <1>2, <2>1
        <3> QED
            BY <1>1, <1>4, <1>5, <2>1, <3>1
    <2>2. CASE h[t].drain \notin killed
        <3>1. g[t] = h[t]
            BY <1>2, <2>2
        <3> QED
            BY <1>1, <2>2, <3>1
    <2> QED
        BY <2>1, <2>2
<1>7. g \in Seq(Handler) /\ Len(g) = Len(h)
    <2>1. g \in [Claims -> Handler]
        BY <1>2, <1>6
    <2> QED
        BY <2>1, HandlersAreASequence DEF IInv
<1>8. active' \in [Drains -> [Lanes -> 0 .. Len(h)]]
    <2>1. none \in [Lanes -> 0 .. Len(h)]
        BY <1>1
    <2> HIDE DEF none
    <2> QED
        BY <1>1, <1>3, <2>1
<1>9. /\ drain' \in [Drains -> {"live", "aborted", "disposed", "crashed"}]
      /\ \A c \in Drains : drain'[c] \in {"live", "aborted"} =>
             drain[c] \in {"live", "aborted"} /\ active'[c] = active[c] /\ c \notin killed
    BY <1>1, <1>3
<1>10. pass' \in [Drains -> Pass] /\ \A d \in Drains : pass'[d] \in {pass[d], IdlePass}
    BY <1>1, <1>3, IdleHoldsNothing DEF IInv
<1>11. DieTogether'
    <2>1. \A c \in Drains : drain'[c] = IF ProcOf[c] = p THEN "crashed" ELSE drain[c]
        BY <1>3 DEF killed
    <2> QED
        BY <2>1 DEF IInv, DieTogether
<1> QED
    BY <1>1, <1>3, <1>6, <1>7, <1>8, <1>9, <1>10, <1>11 DEF LifeStep

\* Dying is not seen in the inbox: the rows stay.
LEMMA LifeStepShows ==
    ASSUME LifeStep
    PROVE  InboxStep
<1>1. HandlersStay
    BY DEF LifeStep, HandlersStay, Claims
<1>2. (\A e \in Events : RowStays(e)) /\ detached' = detached
    BY DEF LifeStep, RowStays
<1> QED
    BY <1>1, <1>2, NothingShows

\* Nothing is queued and nothing is claimed at the start.
LEMMA InitHasInv ==
    ASSUME Init
    PROVE  IInv
<1>1. h = << >> /\ Len(h) = 0 /\ Claims = {} /\ h \in Seq(Handler)
    BY DEF Init, Claims
<1>2. 0 \in 0 .. MaxClaims /\ MaxClaims \in Nat
    BY OptionsAssumption
<1>3. ClosedRow("absent") \in Row /\ ClosedRow("absent").token = 0
      /\ ClosedRow("absent").status = "absent"
    BY RowsTyped
<1>4. row \in [Events -> Row] /\ \A e \in Events : row[e].token = 0 /\ row[e].status = "absent"
    BY <1>3 DEF Init
<1>5. IdlePass \in Pass /\ IdlePass.held = 0 /\ IdlePass.pc = "idle" /\ IdlePass.target = 0
    BY <1>2 DEF IdlePass, Pass
<1>6. TypeOK
    BY <1>1, <1>2, <1>4, <1>5 DEF Init, TypeOK
<1>7. PassesHoldClaims
    BY <1>1, <1>5 DEF Init, PassesHoldClaims, PassShape
<1>8. DieTogether
    BY DEF Init, DieTogether
<1> QED
    BY <1>1, <1>4, <1>6, <1>7, <1>8
       DEF IInv, RowsNameTheirClaim, OwnersOwn, GenuineStays, LaneHasOneHandler, AdoptedOnce

\* Every step keeps the invariant, and is a step of the inbox or none.
LEMMA StepKeepsInv ==
    ASSUME IInv, [Next]_vars
    PROVE  IInv' /\ InboxStep
<1>1. CASE \E e \in Events : Enqueue(e) \/ Resubmit(e) \/ Prune(e) \/ LeaseLapses(e)
    BY <1>1, CallersMoveRows, RowStepKeepsInv, CallersUseTheInbox
<1>2. CASE \E d \in Drains : PassStep(d) \/ Abort(d) \/ Dispose(d)
    <2>1. PICK d \in Drains : PassStep(d) \/ Abort(d) \/ Dispose(d)
        BY <1>2
    <2>2. CASE BeginPass(d)
        BY <2>2, BeginPassMovesRows, RowStepKeepsInv, RecoveryShows
    <2>3. CASE ListPending(d) \/ ListClaims(d) \/ ScanPending(d) \/ SupersedeSettled(d)
        <3>1. UNCHANGED <<row, h, detached>>
            BY <2>3 DEF ListPending, ListClaims, ScanPending, SupersedeSettled
        <3> QED
            BY <2>3, <3>1, PassMovesAlone, RowStepKeepsInv, StillShowsNothing
    <2>4. CASE \E yes \in BOOLEAN : SupersedeAnswered(d, yes)
        BY <2>4, AnswerKeepsInv
    <2>5. CASE ClaimNext(d)
        BY <2>5, ClaimNextKeepsInv
    <2>6. CASE HandOver(d)
        BY <2>6, HandOverKeepsInv
    <2>7. CASE Abort(d) \/ Dispose(d)
        BY <2>7, StopIsALifeStep, LifeStepKeepsInv, LifeStepShows
    <2> QED
        BY <2>1, <2>2, <2>3, <2>4, <2>5, <2>6, <2>7 DEF PassStep
<1>3. CASE \E t \in Claims : ChannelStep(t) \/ TimerStep(t)
    <2>1. PICK t \in Claims : ChannelStep(t) \/ TimerStep(t)
        BY <1>3
    <2>2. CASE OnAdopted(t) \/ OnDeferred(t) \/ OnAdoptionFinalizing(t) \/ OnAbandoned(t)
        BY <2>2, CallbacksKeepInv
    <2>3. CASE \E result \in Results : DispatchReturns(t, result)
        BY <2>3, OutcomesKeepInv
    <2>4. CASE DispatchThrows(t)
        <3>1. "nothing" \in Results
            BY DEF Results
        <3> QED
            BY <2>4, <3>1, OutcomesKeepInv
    <2>5. CASE SettlementWrites(t) \/ SettlementGivesUp(t)
        BY <2>5, SettlementsKeepInv
    <2>6. CASE StallFires(t)
        BY <2>6, StallKeepsInv
    <2>7. CASE HeartbeatTick(t)
        BY <2>7, HeartbeatKeepsInv
    <2> QED
        BY <2>1, <2>2, <2>3, <2>4, <2>5, <2>6, <2>7 DEF ChannelStep, TimerStep
<1>4. CASE \E p \in Procs : Crash(p)
    BY <1>4, CrashIsALifeStep, LifeStepKeepsInv, LifeStepShows
<1>5. CASE UNCHANGED vars
    BY <1>5, StutterKeepsInv
<1> QED
    BY <1>1, <1>2, <1>3, <1>4, <1>5 DEF Next

\* The invariant holds at all times.
LEMMA InvHolds == Spec => []IInv
<1>1. Init => IInv
    BY InitHasInv
<1>2. IInv /\ [Next]_vars => IInv'
    BY StepKeepsInv
<1> QED
    BY <1>1, <1>2, PTL DEF Spec


-----------------------------------------------------------------------------
(* Theorems.                                                               *)

\* Rows, handlers, lanes and passes keep their types; a row, a pass and a lane
\* name only claims that were made.
THEOREM IngressTyped == Spec => []TypeOK
<1>1. IInv => TypeOK
    BY DEF IInv
<1> QED
    BY <1>1, InvHolds, PTL

\* runClaimed never overwrites an unsettled handler in activeByLane.
THEOREM LanesHaveOneHandler == Spec => []LaneHasOneHandler
<1>1. IInv => LaneHasOneHandler
    BY DEF IInv
<1> QED
    BY <1>1, InvHolds, PTL

\* A claim that recoverStaleClaims spares, because its drain is live, has the
\* handler that is going to settle it.
THEOREM ClaimsHaveHandlers == Spec => []NoOrphanedClaim
<1>1. ASSUME IInv
      PROVE  NoOrphanedClaim
    <2>1. ASSUME NEW e \in Events, row[e].status = "claimed",
                 drain[h[row[e].token].drain] = "live", h[row[e].token].phase # "unstarted"
          PROVE  active[h[row[e].token].drain][LaneOf[e]] = row[e].token
        <3>1. PICK t : t = row[e].token
            OBVIOUS
        <3>2. t \in Claims /\ h[t].event = e
            BY <1>1, <2>1, <3>1 DEF IInv, RowsNameTheirClaim
        <3>3. Owns(t)
            BY <2>1, <3>1, <3>2 DEF Owns
        <3>4. h[t].phase \notin {"unstarted", "settled"}
            BY <1>1, <2>1, <3>1, <3>2, <3>3 DEF IInv, OwnersOwn
        <3> QED
            BY <1>1, <2>1, <3>1, <3>2, <3>4 DEF IInv, LaneHasOneHandler, LaneFor
    <2> QED
        BY <2>1 DEF NoOrphanedClaim
<1> QED
    BY <1>1, InvHolds, PTL

\* An event that was adopted under a claim is not dispatched again, however many
\* writes fail and whatever the channel calls, as long as nobody takes the claim away.
THEOREM AdoptionHolds == Spec => []AdoptedOnce
<1>1. IInv => AdoptedOnce
    BY DEF IInv
<1> QED
    BY <1>1, InvHolds, PTL

\* A claim that was adopted before any other disposition, has been settled and was
\* not taken away left its event completed.
GenuineAdoptionCompletes ==
    \A t \in Claims :
        (h[t].genuine /\ h[t].phase = "settled" /\ t \notin detached)
          => row[h[t].event].status = "completed"

\* What AdoptionIsGenuine asks of every adoption holds of those that came before
\* any other disposition (settleOnce): the event is completed, whatever the channel
\* and the watchdog do afterwards and however often the write is retried.
THEOREM GenuineAdoptionsComplete == Spec => []GenuineAdoptionCompletes
<1>1. IInv => GenuineAdoptionCompletes
    BY DEF IInv, GenuineStays, OwnersOwn, GenuineAdoptionCompletes
<1> QED
    BY <1>1, InvHolds, PTL

\* No late writer turns a completed row into anything but a pruned one.
LEMMA StepKeepsTombstones ==
    ASSUME IInv, [Next]_vars, NEW e \in Events, row[e].status = "completed"
    PROVE  row'[e].status \in {"completed", "absent"}
<1>1. row \in [Events -> Row] /\ \A t \in Claims : h[t].event \in Events
    BY Typed DEF IInv
<1>2. SUFFICES row'[e].status \in {"completed", "absent"} \/ row' = row
    BY <1>1
<1>3. ASSUME NEW f \in Events, Enqueue(f) \/ Resubmit(f) \/ Prune(f) \/ LeaseLapses(f)
      PROVE  row'[e].status \in {"completed", "absent"}
    <2>1. CASE f = e
        <3>1. row' = [row EXCEPT ![e] = ClosedRow("absent")]
            BY <1>3, <2>1 DEF Enqueue, Resubmit, Prune, LeaseLapses
        <3> QED
            BY <1>1, <3>1, RowsTyped
    <2>2. CASE f # e
        BY <1>1, <1>3, <2>2 DEF Enqueue, Resubmit, Prune, LeaseLapses
    <2> QED
        BY <2>1, <2>2
<1>4. ASSUME NEW d \in Drains, PassStep(d) \/ Abort(d) \/ Dispose(d)
      PROVE  row'[e].status = "completed" \/ row' = row
    <2>1. CASE BeginPass(d)
        <3>1. ~Recoverable(d, e)
            BY DEF Recoverable
        <3>2. row'[e] = row[e]
            BY <2>1, <3>1 DEF BeginPass
        <3> QED
            BY <3>2
    <2>2. CASE ClaimNext(d)
        <3>1. CASE ~(Stopped(d) \/ Claimable(d) = {} \/ Len(h) = MaxClaims)
            <4>1. pass[d] \in Pass
                BY Typed DEF IInv
            <4>2. Claimable(d) \subseteq Events
                BY <4>1 DEF Claimable, Pass
            <4>3. PICK f : f = Earliest(Claimable(d))
                OBVIOUS
            <4>4. f \in Claimable(d)
                BY <3>1, <4>2, <4>3, EarliestIsOne
            <4>5. f # e
                BY <4>4 DEF Claimable
            <4>6. row' = [row EXCEPT ![f] = ClaimedRow(@, Len(h) + 1)]
                BY <2>2, <3>1, <4>3, Zenon DEF ClaimNext
            <4> QED
                BY <1>1, <4>5, <4>6
        <3>2. CASE Stopped(d) \/ Claimable(d) = {} \/ Len(h) = MaxClaims
            BY <2>2, <3>2 DEF ClaimNext
        <3> QED
            BY <3>1, <3>2
    <2>3. CASE HandOver(d)
        <3>1. PICK t : t = pass[d].held
            OBVIOUS
        <3>2. \/ row' = row
              \/ Owns(t) /\ row' = [row EXCEPT ![h[t].event] = PendingRow(@.erred)]
            BY <2>3, <3>1, Zenon DEF HandOver, HandBack, RunClaimed
        <3>3. Owns(t) => h[t].event # e
            BY DEF Owns
        <3> QED
            BY <1>1, <3>2, <3>3
    <2> QED
        BY <1>4, <2>1, <2>2, <2>3
           DEF PassStep, ListPending, ListClaims, ScanPending, SupersedeAnswered,
               SupersedeSettled, Abort, Dispose
<1>5. ASSUME NEW t \in Claims, ChannelStep(t) \/ TimerStep(t)
      PROVE  row'[e].status = "completed" \/ row' = row
    <2>1. Owns(t) => h[t].event # e
        BY DEF Owns
    <2>2. CASE SettlementWrites(t)
        <3>1. row' = Written(t)
            BY <2>2 DEF SettlementWrites
        <3> QED
            BY <1>1, <2>1, <3>1 DEF Written
    <2>3. CASE HeartbeatTick(t)
        BY <1>1, <2>1, <2>3 DEF HeartbeatTick
    <2> QED
        BY <1>5, <2>2, <2>3
           DEF ChannelStep, TimerStep, OnAdopted, OnDeferred, OnAdoptionFinalizing, OnAbandoned,
               DispatchReturns, DispatchThrows, SettlementGivesUp, StallFires
<1>6. \A p \in Procs : Crash(p) => row' = row
    BY DEF Crash
<1>7. UNCHANGED vars => row' = row
    BY DEF vars
<1> QED
    BY <1>3, <1>4, <1>5, <1>6, <1>7 DEF Next

\* The completion tombstone outlives every late writer, so that a duplicate of
\* the event is not dispatched.
THEOREM TombstonesStay == Spec => TerminalIsFinal
<1>1. IInv /\ [Next]_vars
        => [\A e \in Events : row[e].status = "completed"
              => row'[e].status \in {"completed", "absent"}]_vars
    BY StepKeepsTombstones
<1> QED
    BY <1>1, InvHolds, PTL DEF Spec, TerminalIsFinal

\* Passes, callbacks, watchdogs, failing writes, crashes and peers together are an
\* inbox: an event is held by one claim at a time, only that claim ends the hold, an
\* adopted event is completed or taken away by a recovery that spares living owners.
THEOREM DrainsImplementInbox == Spec => ImplementsInbox
<1>1. Init => Mail!Init
    <2>1. ASSUME Init
          PROVE  Mail!Init
        <3>1. Claims = {}
            BY <2>1 DEF Init, Claims
        <3>2. \A e \in Events : row[e].status = "absent"
            BY <2>1, RowsTyped DEF Init
        <3>3. /\ [e \in Events |-> row[e].status] = [e \in Events |-> "absent"]
              /\ [e \in Events |-> IF row[e].status = "claimed" THEN row[e].token ELSE 0]
                   = [e \in Events |-> 0]
            BY <3>2
        <3>4. /\ [e \in Events |-> {t \in Claims : h[t].event = e}] = [e \in Events |-> {}]
              /\ {t \in Claims : h[t].genuine} = {}
            BY <3>1
        <3> QED
            BY <2>1, <3>3, <3>4 DEF Mail!Init, Init
    <2> QED
        BY <2>1
<1>2. IInv /\ [Next]_vars => [Mail!Next]_Mail!vars
    BY StepKeepsInv DEF InboxStep
<1> QED
    BY <1>1, <1>2, InvHolds, PTL DEF Spec, ImplementsInbox, Mail!Spec

=============================================================================
