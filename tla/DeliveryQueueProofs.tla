-------------------------- MODULE DeliveryQueueProofs --------------------------
(***************************************************************************)
(* Proofs about DeliveryQueue, for any number of parts, passes, attempts,  *)
(* failing writes and crashes.                                             *)
(*                                                                         *)
(* The inductive invariant says what makes a replay safe: whoever works on *)
(* the entry holds its claim, so that one attempt at a time sends; what an *)
(* attempt has still to send is not on the platform; an attempt that knows *)
(* of no result and of no failure it cannot explain has put nothing there; *)
(* and the row has evidence before the first request leaves.               *)
(***************************************************************************)
EXTENDS DeliveryQueue, TLAPS

Holding == Sending \cup {"claimed", "drain", "reserve"}
OnPart == {"start", "dispatch", "io", "accepted", "result"}
Landed == {"accepted", "result"}  \* the platform has the part at hand

NothingOut == \A p \in Parts : out[p] = 0

Stations ==
    /\ pc[Live] \in Sending \cup {"new", "queued", "done"}
    /\ \A r \in Recoverers : pc[r] \in Holding \cup {"idle", "listed"}

Exclusive ==
    /\ \A r \in Recoverers : pc[r] \in Holding => owner = r
    /\ \A r \in Recoverers : pc[r] \in Sending => att[r].linked
    /\ pc[Live] \in Sending /\ att[Live].linked => owner = Live

Unrecorded ==
    /\ row.status = "none" =>
          /\ owner = Nobody /\ pc[Live] # "queued"
          /\ \A r \in Recoverers : pc[r] = "idle"
    /\ pc[Live] = "new" => row.status = "none" /\ NothingOut
    /\ pc[Live] \in Sending /\ ~att[Live].linked => row.status = "none"

Untouched ==
    pc[Live] = "queued" /\ owner = Nobody => Pending /\ NothingOut

AtMostOnce == \A p \in Parts : out[p] \in {0, 1}

(* An actor at stage s with attempt t, for a row w and a platform o. *)
StillToSend(s, t, o) ==
    /\ s = "reserve" => \A p \in Parts : o[p] = 0
    /\ s \in OnPart =>
          /\ t.part \in Parts
          /\ \A p \in Parts : p > t.part => o[p] = 0
          /\ s \notin Landed => o[t.part] = 0

Explained(s, t) ==
    t.results = 0 /\ IF s = "thrown" THEN t.err \in {"proven", "rejected"}
                                     ELSE t.partial # "unproven"

SentIsKnown(s, t, o) ==
    /\ ~intent.bestEffort => t.partial = "none"
    /\ s \in Sending /\ Explained(s, t) =>
          \A p \in Parts : o[p] = 0 \/ (s \in Landed /\ p = t.part)

RowIsMarked(s, t, w) ==
    s \in Sending /\ t.linked =>
        /\ t.pre = "marked" /\ w.status = "pending" => w.evidence # "none"
        /\ t.pre = "acked" => w.status # "pending"
        /\ s \in {"io"} \cup Landed => t.pre # "none"
        /\ s = "dispatch" /\ ~intent.exact => t.pre # "none"

Own(s, t, w, o) == StillToSend(s, t, o) /\ SentIsKnown(s, t, o) /\ RowIsMarked(s, t, w)

Evident(w, o) == w.status = "pending" /\ (\E p \in Parts : o[p] > 0) => w.evidence # "none"

IInv ==
    /\ TypeOK /\ Stations /\ Exclusive /\ Unrecorded /\ Untouched
    /\ AtMostOnce /\ Evident(row, out)
    /\ \A a \in Actors : Own(pc[a], att[a], row, out)

-----------------------------------------------------------------------------
(* Rows and attempts.                                                      *)

(* A row that w may become without losing evidence. *)
Advances(w) ==
    /\ w \in Row
    /\ (w.status = "none") <=> (row.status = "none")
    /\ w.status = "pending" => Pending /\ (row.evidence # "none" => w.evidence # "none")

\* A failure that also sets the evidence of a row.
LEMMA FailedWith ==
    ASSUME NEW w \in Row, NEW e \in {"none", "started", "unknown"}
    PROVE  LET v == [w EXCEPT !.retries = @ + 1, !.evidence = e]
           IN  v \in Row /\ v.status = w.status /\ v.evidence = e
<1> DEFINE n == w.retries + 1
           v == [w EXCEPT !.retries = n, !.evidence = e]
<1>1. n \in Nat
    BY DEF Row
<1> HIDE DEF n
<1>2. v.status = w.status /\ v.evidence = e
    BY DEF Row
<1>3. v \in Row
    BY <1>1 DEF Row
<1> QED
    BY <1>2, <1>3 DEF n

\* What the store is made to hold never loses evidence, but for the row that proves
\* that nothing was sent.
LEMMA RowsAdvance ==
    ASSUME TypeOK
    PROVE  /\ Advances(row) /\ Advances(AckedRow)
           /\ Pending => /\ Advances(Marked("unknown")) /\ Advances(Marked("started"))
                         /\ Advances(DeadRow) /\ Advances(FailedRow) /\ Advances(AfterSendRow)
           /\ Pending => NotSentRow \in Row /\ NotSentRow.status # "none"
<1>1. row \in Row
    BY DEF TypeOK
<1>2. CASE Pending
    <2>1. row.status = "pending"
        BY <1>2 DEF Pending
    <2>2. Advances(row)
        BY <1>1, <1>2 DEF Advances
    <2>3. Advances(AckedRow)
        BY <1>1, <1>2, <2>1 DEF Advances, AckedRow, Row
    <2>4. Advances(Marked("unknown")) /\ Advances(Marked("started"))
        BY <1>1, <1>2, <2>1 DEF Advances, Marked, Row
    <2>5. Advances(DeadRow)
        BY <1>1, <2>1 DEF Advances, DeadRow, Row
    <2>6. Advances(FailedRow)
        BY <1>1, <1>2, <2>1 DEF Advances, FailedRow, Row
    <2>7. Advances(AfterSendRow)
        BY <1>1, <1>2, <2>1, FailedWith DEF Advances, AfterSendRow
    <2>8. NotSentRow \in Row /\ NotSentRow.status # "none"
        BY <1>1, <2>1, FailedWith DEF NotSentRow
    <2> QED
        BY <2>2, <2>3, <2>4, <2>5, <2>6, <2>7, <2>8
<1>3. CASE ~Pending
    BY <1>1, <1>3 DEF Advances, AckedRow, Pending
<1> QED
    BY <1>2, <1>3

\* A row that advances stays evident.
LEMMA StaysEvident ==
    ASSUME NEW w, Advances(w), Evident(row, out)
    PROVE  Evident(w, out)
BY DEF Advances, Evident, Pending

\* A failing write is counted.
LEMMA FailuresTyped ==
    ASSUME TypeOK, NEW n \in Nat, Failures(n)
    PROVE  failedWrites' \in Nat
BY DEF TypeOK, Failures

\* The failures an update needs are none or one.
LEMMA CostTyped == UpdateCost \in {0, 1}
BY DEF UpdateCost

\* Persisted evidence advances the row, and a row that is marked or failed has it.
LEMMA PersistsAdvances ==
    ASSUME TypeOK, NEW o \in PostStates, Persists(o)
    PROVE  /\ Advances(row') /\ failedWrites' \in Nat
           /\ o = "none" => row' = row
<1>1. UpdateCost \in Nat /\ 1 + 2 * UpdateCost \in Nat
    BY CostTyped
<1>2. CASE o = "marked"
    BY <1>2, RowsAdvance, FailuresTyped DEF Persists, Updated
<1>3. CASE o = "acked"
    BY <1>1, <1>3, RowsAdvance, FailuresTyped DEF Persists
<1>4. CASE o = "failed"
    BY <1>4, RowsAdvance, FailuresTyped DEF Persists
<1>5. CASE o = "none"
    BY <1>1, <1>5, RowsAdvance, FailuresTyped DEF Persists, Throws
<1> QED
    BY <1>2, <1>3, <1>4, <1>5 DEF PostStates

\* An update that works or throws.
LEMMA UpdatedAdvances ==
    ASSUME TypeOK, NEW w, Advances(w), Updated(w)
    PROVE  Advances(row') /\ failedWrites' \in Nat
BY FailuresTyped DEF Updated

\* A write that throws leaves the row.
LEMMA ThrowsAdvances ==
    ASSUME TypeOK, NEW n \in Nat, Throws(n)
    PROVE  row' = row /\ Advances(row') /\ failedWrites' \in Nat
BY RowsAdvance, FailuresTyped DEF Throws

\* A fresh attempt.
LEMMA FreshFacts ==
    ASSUME NEW b \in BOOLEAN
    PROVE  /\ FreshAttempt(b) \in Attempt
           /\ FreshAttempt(b).part = 1 /\ FreshAttempt(b).linked = b
           /\ FreshAttempt(b).pre = "none" /\ FreshAttempt(b).partial = "none"
BY DEF FreshAttempt, Attempt, Errors

-----------------------------------------------------------------------------
(* Who works on the message works alone.                                   *)

Works(a) == IF a = Live THEN pc[a] \in Sending ELSE pc[a] \in Holding

\* Beside a worker no other actor sends or holds the entry.
LEMMA WorksAlone ==
    ASSUME IInv, NEW a \in Actors, Works(a)
    PROVE  /\ a # Live => owner = a /\ pc[Live] \in {"queued", "done"} /\ row.status # "none"
           /\ a # Live => a \in Recoverers
           /\ a = Live /\ att[a].linked => owner = Live /\ row.status # "none"
           /\ a = Live /\ ~att[a].linked => row.status = "none"
           /\ \A r \in Recoverers \ {a} : pc[r] \in {"idle", "listed"}
<1>1. Live \notin Recoverers /\ Nobody \notin Recoverers \cup {Live}
    BY DeliveryAssumption
<1>2. CASE a = Live
    <2>1. pc[Live] \in Sending
        BY <1>2 DEF Works
    <2>2. CASE att[Live].linked
        BY <1>1, <1>2, <2>1, <2>2 DEF IInv, Exclusive, Stations, Unrecorded
    <2>3. CASE ~att[Live].linked
        BY <1>1, <1>2, <2>1, <2>3 DEF IInv, Unrecorded
    <2> QED
        BY <1>2, <2>2, <2>3
<1>3. CASE a # Live
    <2>1. a \in Recoverers /\ pc[a] \in Holding /\ owner = a
        BY <1>3 DEF Works, Actors, IInv, Exclusive
    <2>2. row.status # "none"
        BY <1>1, <2>1 DEF IInv, Unrecorded
    <2>3. pc[Live] \in {"queued", "done"}
        BY <1>1, <2>1, <2>2 DEF IInv, Exclusive, Stations, Unrecorded
    <2>4. \A r \in Recoverers \ {a} : pc[r] \in {"idle", "listed"}
        BY <2>1 DEF IInv, Exclusive, Stations
    <2> QED
        BY <1>3, <2>1, <2>2, <2>3, <2>4
<1> QED
    BY <1>2, <1>3

\* A worker goes on: what holds of the others still holds.
LEMMA WorkerStep ==
    ASSUME IInv, NEW a \in Actors, Works(a), NEW s \in Sending \cup {"drain", "reserve"},
           a = Live => s \in Sending, NEW t \in Attempt,
           a = Live => t.linked = att[a].linked,
           a # Live /\ s \in Sending => t.linked,
           pc' = [pc EXCEPT ![a] = s], att' = [att EXCEPT ![a] = t],
           row' \in Row, (row'.status = "none") <=> (row.status = "none"),
           out' \in [Parts -> Nat], AtMostOnce', Evident(row', out'),
           Own(s, t, row', out'),
           UNCHANGED <<intent, owner>>,
           seen' \in [Recoverers -> Row], failedWrites' \in Nat, crashes' \in Nat,
           withdrawn' \in BOOLEAN
    PROVE  IInv'
<1>1. /\ a # Live => owner = a /\ pc[Live] \in {"queued", "done"} /\ row.status # "none"
      /\ a # Live => a \in Recoverers
      /\ a = Live /\ att[a].linked => owner = Live /\ row.status # "none"
      /\ a = Live /\ ~att[a].linked => row.status = "none"
      /\ \A r \in Recoverers \ {a} : pc[r] \in {"idle", "listed"}
    BY WorksAlone
<1>2. pc \in [Actors -> Stages] /\ att \in [Actors -> Attempt] /\ Live \in Actors
    BY DEF IInv, TypeOK, Actors
<1>3. s \in Stages /\ s \in Holding
    BY DEF Stages, Holding
<1>4. /\ pc' \in [Actors -> Stages] /\ pc'[a] = s
      /\ \A b \in Actors \ {a} : pc'[b] = pc[b]
      /\ att' \in [Actors -> Attempt] /\ att'[a] = t
      /\ \A b \in Actors \ {a} : att'[b] = att[b]
    BY <1>2, <1>3
<1>5. Live \notin Recoverers /\ Nobody \notin Recoverers \cup {Live}
      /\ Recoverers \subseteq Actors
    BY DeliveryAssumption DEF Actors
<1>6. TypeOK'
    BY <1>4 DEF IInv, TypeOK
<1>7. Stations'
    BY <1>1, <1>2, <1>3, <1>4, <1>5 DEF IInv, Stations
<1>8. Exclusive'
    <2>1. \A b \in {"idle", "listed", "queued", "done"} : b \notin Holding /\ b \notin Sending
        BY DEF Holding, Sending
    <2> QED
        BY <1>1, <1>2, <1>4, <1>5, <2>1 DEF IInv, Exclusive
<1>9. Unrecorded'
    <2>1. \A b \in Sending : b \notin {"new", "queued", "done"}
        BY DEF Sending
    <2>2. row'.status = "none" => a = Live /\ owner = Nobody
                                   /\ \A r \in Recoverers : pc[r] = "idle"
        BY <1>1 DEF IInv, Unrecorded
    <2>3. row'.status = "none" => /\ owner' = Nobody /\ pc'[Live] # "queued"
                                  /\ \A r \in Recoverers : pc'[r] = "idle"
        BY <1>4, <1>5, <2>1, <2>2
    <2>4. pc'[Live] # "new"
        BY <1>1, <1>2, <1>4, <2>1
    <2>5. pc'[Live] \in Sending /\ ~att'[Live].linked => row'.status = "none"
        BY <1>1, <1>2, <1>4, <2>1
    <2> QED
        BY <2>3, <2>4, <2>5 DEF Unrecorded
<1>10. Untouched'
    <2>1. a = Live => pc'[Live] # "queued"
        BY <1>4 DEF Sending
    <2> QED
        BY <1>1, <1>5, <2>1 DEF Untouched
<1>11. ASSUME NEW b \in Actors PROVE Own(pc[b], att[b], row, out)'
    <2>1. CASE b = a
        BY <1>4, <2>1 DEF Own, StillToSend, SentIsKnown, RowIsMarked, Explained
    <2>2. CASE b # a
        <3>1. pc'[b] \in {"idle", "listed", "queued", "done"}
            BY <1>1, <1>4, <2>2 DEF Actors
        <3>2. ~intent.bestEffort => att[b].partial = "none"
            BY DEF IInv, Own, SentIsKnown
        <3>3. pc'[b] \notin Sending /\ pc'[b] \notin OnPart /\ pc'[b] # "reserve"
            BY <3>1 DEF Sending, OnPart
        <3> QED
            BY <1>4, <2>2, <3>2, <3>3 DEF Own, StillToSend, SentIsKnown, RowIsMarked
    <2> QED
        BY <2>1, <2>2
<1> QED
    BY <1>6, <1>7, <1>8, <1>9, <1>10, <1>11 DEF IInv, Evident

\* A worker ends its attempt and the claim goes with it.
LEMMA ReleaseStep ==
    ASSUME IInv, NEW a \in Actors, Works(a), Release(a),
           row' \in Row, (row'.status = "none") <=> (row.status = "none"),
           Evident(row', out), UNCHANGED <<intent, seen, out, crashes>>,
           failedWrites' \in Nat, withdrawn' \in BOOLEAN
    PROVE  IInv'
<1> DEFINE s == IF a = Live THEN "done" ELSE "idle"
           t == FreshAttempt(FALSE)
<1>1. /\ a # Live => owner = a /\ pc[Live] \in {"queued", "done"} /\ row.status # "none"
      /\ a # Live => a \in Recoverers
      /\ a = Live /\ att[a].linked => owner = Live /\ row.status # "none"
      /\ a = Live /\ ~att[a].linked => row.status = "none"
      /\ \A r \in Recoverers \ {a} : pc[r] \in {"idle", "listed"}
    BY WorksAlone
<1>2. pc \in [Actors -> Stages] /\ att \in [Actors -> Attempt] /\ Live \in Actors
    BY DEF IInv, TypeOK, Actors
<1>3. t \in Attempt /\ t.partial = "none"
    BY FreshFacts
<1>4. /\ pc' = [pc EXCEPT ![a] = s] /\ att' = [att EXCEPT ![a] = t]
      /\ owner' = IF owner = a THEN Nobody ELSE owner
      /\ a # Live => pc[Live] # "queued"
    BY DEF Release, Move
<1>5. s \in Stages
    BY DEF Stages
<1> HIDE DEF t
<1>6. /\ pc' \in [Actors -> Stages] /\ pc'[a] = s
      /\ \A b \in Actors \ {a} : pc'[b] = pc[b]
      /\ att' \in [Actors -> Attempt] /\ att'[a] = t
      /\ \A b \in Actors \ {a} : att'[b] = att[b]
    BY <1>2, <1>3, <1>4, <1>5
<1>7. Live \notin Recoverers /\ Nobody \notin Recoverers \cup {Live}
      /\ Recoverers \subseteq Actors
    BY DeliveryAssumption DEF Actors
<1>8. TypeOK'
    BY <1>4, <1>6 DEF IInv, TypeOK
<1>9. pc'[Live] = "done" /\ \A r \in Recoverers : pc'[r] \in {"idle", "listed"}
    BY <1>1, <1>2, <1>4, <1>6, <1>7
<1>10. Stations'
    BY <1>9 DEF Stations
<1>11. Exclusive'
    BY <1>9 DEF Exclusive, Holding, Sending
<1>12. Unrecorded'
    <2>1. row'.status = "none" => a = Live /\ owner = Nobody
                                   /\ \A r \in Recoverers : pc[r] = "idle"
        BY <1>1 DEF IInv, Unrecorded
    <2>2. row'.status = "none" => owner' = Nobody /\ \A r \in Recoverers : pc'[r] = "idle"
        BY <1>4, <1>6, <1>7, <2>1
    <2> QED
        BY <1>9, <2>2 DEF Unrecorded, Sending
<1>13. Untouched'
    BY <1>9 DEF Untouched
<1>14. ASSUME NEW b \in Actors PROVE Own(pc[b], att[b], row, out)'
    <2>1. pc'[b] \in {"done", "idle", "listed"}
        BY <1>9 DEF Actors
    <2>2. ~intent.bestEffort => att'[b].partial = "none"
        BY <1>3, <1>6 DEF IInv, Own, SentIsKnown
    <2>3. pc'[b] \notin Sending /\ pc'[b] \notin OnPart /\ pc'[b] # "reserve"
        BY <2>1 DEF Sending, OnPart
    <2> QED
        BY <2>2, <2>3 DEF Own, StillToSend, SentIsKnown, RowIsMarked
<1>15. AtMostOnce' /\ Evident(row, out)'
    BY DEF IInv, AtMostOnce, Evident
<1> QED
    BY <1>8, <1>10, <1>11, <1>12, <1>13, <1>14, <1>15 DEF IInv

\* The same, with a row that advances.
LEMMA ReleaseAdvancing ==
    ASSUME IInv, NEW a \in Actors, Works(a), Release(a), Advances(row'),
           UNCHANGED <<intent, seen, out, crashes>>,
           failedWrites' \in Nat, withdrawn' \in BOOLEAN
    PROVE  IInv'
<1>1. Evident(row', out)
    BY StaysEvident DEF IInv
<1> QED
    BY <1>1, ReleaseStep DEF Advances

\* The same, with a row that says that nothing was sent, when that is so.
LEMMA ReleaseRecorded ==
    ASSUME IInv, NEW a \in Actors, Works(a), Release(a), NEW proven \in BOOLEAN,
           Updated(RecordedRow(proven)), proven => NothingOut,
           UNCHANGED <<intent, seen, out, crashes>>, withdrawn' \in BOOLEAN
    PROVE  IInv'
<1>1. /\ Pending /\ row' = RecordedRow(proven) /\ failedWrites' \in Nat /\ TypeOK
    BY FailuresTyped DEF Updated, IInv
<1>2. CASE proven
    <2>1. row' = NotSentRow /\ row' \in Row /\ row'.status # "none" /\ row.status # "none"
        BY <1>1, <1>2, RowsAdvance DEF RecordedRow, Pending
    <2>2. Evident(row', out)
        <3>1. \A p \in Parts : ~(out[p] > 0)
            BY <1>2 DEF NothingOut
        <3> QED
            BY <3>1 DEF Evident
    <2> QED
        BY <1>1, <2>1, <2>2, ReleaseStep
<1>3. CASE ~proven
    <2>1. Advances(row')
        BY <1>1, <1>3, RowsAdvance DEF RecordedRow
    <2> QED
        BY <1>1, <2>1, ReleaseAdvancing
<1> QED
    BY <1>2, <1>3

\* An attempt that is under way goes on; nothing new is on the platform.
LEMMA AttemptGoesOn ==
    ASSUME IInv, NEW a \in Actors, pc[a] \in Sending, NEW s \in Sending,
           NEW t \in Attempt, t.linked = att[a].linked,
           pc' = [pc EXCEPT ![a] = s], att' = [att EXCEPT ![a] = t],
           Advances(row'), Own(s, t, row', out),
           UNCHANGED <<intent, owner, seen, out, crashes, withdrawn>>, failedWrites' \in Nat
    PROVE  IInv'
<1>1. Works(a) /\ (a # Live => att[a].linked)
    BY DEF Works, Holding, IInv, Exclusive, Actors
<1>2. TypeOK /\ AtMostOnce /\ AtMostOnce'
    BY DEF IInv, AtMostOnce
<1>3. Evident(row', out')
    BY StaysEvident DEF IInv
<1>4. row' \in Row /\ ((row'.status = "none") <=> (row.status = "none"))
    BY DEF Advances
<1>5. /\ out' \in [Parts -> Nat] /\ seen' \in [Recoverers -> Row]
      /\ crashes' \in Nat /\ withdrawn' \in BOOLEAN
    BY <1>2 DEF TypeOK
<1>6. Own(s, t, row', out')
    BY DEF Own, StillToSend, SentIsKnown, RowIsMarked
<1> QED
    BY <1>1, <1>2, <1>3, <1>4, <1>5, <1>6, WorkerStep

\* What an attempt on a part may rely on.
LEMMA OnPartFacts ==
    ASSUME IInv, NEW a \in Actors, pc[a] \in OnPart
    PROVE  /\ pc[a] \in Sending /\ att[a] \in Attempt /\ att[a].part \in Parts
           /\ \A p \in Parts : p > att[a].part => out[p] = 0
           /\ pc[a] \notin Landed => out[att[a].part] = 0
           /\ ~intent.bestEffort => att[a].partial = "none"
           /\ att[a].results = 0 /\ att[a].partial # "unproven" =>
                 \A p \in Parts : out[p] = 0 \/ (pc[a] \in Landed /\ p = att[a].part)
           /\ RowIsMarked(pc[a], att[a], row)
<1>1. Own(pc[a], att[a], row, out) /\ att[a] \in Attempt
    BY DEF IInv, TypeOK
<1>2. pc[a] \in Sending /\ pc[a] # "thrown"
    BY DEF OnPart, Sending
<1> QED
    BY <1>1, <1>2 DEF Own, StillToSend, SentIsKnown, Explained

\* After a part an attempt is at the next one, of which nothing is on the platform,
\* or it has returned.
LEMMA NextPart ==
    ASSUME IInv, NEW a \in Actors, pc[a] \in OnPart, NEW t \in Attempt,
           t.part = att[a].part + 1
    PROVE  /\ Next1(a) \in {"start", "returned"}
           /\ StillToSend(Next1(a), t, out)
<1>1. /\ att[a].part \in Parts /\ \A p \in Parts : p > att[a].part => out[p] = 0
    BY OnPartFacts
<1>2. NumParts \in Nat /\ att[a].part \in Nat /\ att[a].part >= 1
    BY <1>1, DeliveryAssumption DEF Parts
<1>3. CASE att[a].part < NumParts
    <2>1. t.part \in Parts
        BY <1>2, <1>3 DEF Parts
    <2>2. out[t.part] = 0
        BY <1>1, <1>2, <2>1
    <2>3. \A p \in Parts : p > t.part => out[p] = 0
        BY <1>1, <1>2 DEF Parts
    <2> QED
        BY <1>3, <2>1, <2>2, <2>3 DEF Next1, StillToSend, OnPart, Landed
<1>4. CASE ~(att[a].part < NumParts)
    BY <1>4 DEF Next1, StillToSend, OnPart
<1> QED
    BY <1>3, <1>4

\* A part fails: under bestEffort the attempt goes on and knows what it cannot explain.
LEMMA PartFailsKeeps ==
    ASSUME IInv, NEW a \in Actors, pc[a] \in OnPart, NEW t \in Attempt, NEW err \in Errors,
           t.part = att[a].part, t.linked = att[a].linked, t.pre = att[a].pre,
           t.partial = att[a].partial,
           err \in {"proven", "rejected"} => pc[a] \notin Landed /\ t = att[a],
           PartFails(a, t, err), row' = row, failedWrites' \in Nat,
           UNCHANGED <<intent, owner, seen, out, crashes, withdrawn>>
    PROVE  IInv'
<1>1. /\ pc[a] \in Sending /\ att[a] \in Attempt /\ att[a].part \in Parts
      /\ ~intent.bestEffort => att[a].partial = "none"
      /\ att[a].results = 0 /\ att[a].partial # "unproven" =>
            \A p \in Parts : out[p] = 0 \/ (pc[a] \in Landed /\ p = att[a].part)
      /\ RowIsMarked(pc[a], att[a], row)
    BY OnPartFacts
<1>2. Advances(row')
    BY RowsAdvance DEF IInv
<1>3. CASE intent.bestEffort
    <2> DEFINE known == IF err \in {"proven", "rejected"} /\ t.partial # "unproven"
                          THEN "proven" ELSE "unproven"
               q == [t EXCEPT !.part = @ + 1, !.partial = known]
    <2>1. known \in {"proven", "unproven"}
          /\ (known = "proven" => err \in {"proven", "rejected"} /\ t.partial # "unproven")
        OBVIOUS
    <2>2. pc' = [pc EXCEPT ![a] = Next1(a)] /\ att' = [att EXCEPT ![a] = q]
        BY <1>3 DEF PartFails, Move
    <2> HIDE DEF known
    <2>3. /\ q \in Attempt /\ q.part = att[a].part + 1 /\ q.linked = att[a].linked
          /\ q.pre = att[a].pre /\ q.partial = known /\ q.results = t.results
        <3> DEFINE n == t.part + 1
        <3>1. n \in Nat
            BY DEF Attempt
        <3> HIDE DEF n
        <3>2. LET v == [t EXCEPT !.part = n, !.partial = known]
              IN  /\ v \in Attempt /\ v.part = n /\ v.linked = t.linked
                  /\ v.pre = t.pre /\ v.partial = known /\ v.results = t.results
            BY <2>1, <3>1 DEF Attempt
        <3> QED
            BY <3>2 DEF n
    <2> HIDE DEF q
    <2>4. Next1(a) \in {"start", "returned"} /\ StillToSend(Next1(a), q, out)
        BY <2>3, NextPart
    <2>5. SentIsKnown(Next1(a), q, out)
        <3>1. ASSUME Explained(Next1(a), q) PROVE \A p \in Parts : out[p] = 0
            <4>1. t.results = 0 /\ known = "proven"
                BY <2>1, <2>3, <2>4, <3>1 DEF Explained
            <4> QED
                BY <1>1, <2>1, <4>1
        <3> QED
            BY <1>3, <3>1 DEF SentIsKnown
    <2>6. RowIsMarked(Next1(a), q, row')
        BY <1>1, <2>3, <2>4 DEF RowIsMarked, Landed
    <2>7. Next1(a) \in Sending
        BY <2>4 DEF Sending
    <2> QED
        BY <1>1, <1>2, <2>2, <2>3, <2>4, <2>5, <2>6, <2>7, AttemptGoesOn DEF Own
<1>4. CASE ~intent.bestEffort
    <2> DEFINE q == [t EXCEPT !.err = err]
    <2>1. pc' = [pc EXCEPT ![a] = "thrown"] /\ att' = [att EXCEPT ![a] = q]
        BY <1>4 DEF PartFails, Move
    <2>2. /\ q \in Attempt /\ q.linked = att[a].linked /\ q.pre = att[a].pre
          /\ q.partial = att[a].partial /\ q.results = t.results /\ q.err = err
        BY DEF Attempt
    <2> HIDE DEF q
    <2>3. StillToSend("thrown", q, out)
        BY DEF StillToSend, OnPart
    <2>4. SentIsKnown("thrown", q, out)
        <3>1. ASSUME Explained("thrown", q) PROVE \A p \in Parts : out[p] = 0
            <4>1. t.results = 0 /\ err \in {"proven", "rejected"}
                BY <2>2, <3>1 DEF Explained
            <4> QED
                BY <1>1, <1>4, <4>1
        <3> QED
            BY <1>1, <1>4, <2>2, <3>1 DEF SentIsKnown
    <2>5. RowIsMarked("thrown", q, row')
        BY <1>1, <2>2 DEF RowIsMarked, Landed
    <2>6. "thrown" \in Sending
        BY DEF Sending
    <2> QED
        BY <1>1, <1>2, <2>1, <2>2, <2>3, <2>4, <2>5, <2>6, AttemptGoesOn DEF Own
<1> QED
    BY <1>3, <1>4

-----------------------------------------------------------------------------
(* One lemma per action: an attempt.                                       *)

\* An attempt goes from one stage before its request to a later one.
LEMMA StageKeeps ==
    ASSUME IInv, NEW a \in Actors, pc[a] \in {"start", "dispatch"},
           NEW s \in {"dispatch", "io"}, NEW t \in Attempt,
           pc' = [pc EXCEPT ![a] = s], att' = [att EXCEPT ![a] = t],
           t.part = att[a].part, t.linked = att[a].linked, t.partial = att[a].partial,
           t.results = att[a].results,
           Advances(row'), failedWrites' \in Nat, RowIsMarked(s, t, row'),
           UNCHANGED <<intent, owner, seen, out, crashes, withdrawn>>
    PROVE  IInv'
<1>1. pc[a] \in OnPart /\ pc[a] \notin Landed /\ s \in OnPart /\ s \notin Landed /\ s \in Sending
    BY DEF OnPart, Landed, Sending
<1>2. /\ pc[a] \in Sending /\ att[a].part \in Parts
      /\ \A p \in Parts : p > att[a].part => out[p] = 0
      /\ out[att[a].part] = 0
      /\ ~intent.bestEffort => att[a].partial = "none"
      /\ att[a].results = 0 /\ att[a].partial # "unproven" => \A p \in Parts : out[p] = 0
    BY <1>1, OnPartFacts
<1>3. StillToSend(s, t, out)
    BY <1>2 DEF StillToSend
<1>4. SentIsKnown(s, t, out)
    BY <1>2 DEF SentIsKnown, Explained
<1> QED
    BY <1>1, <1>2, <1>3, <1>4, AttemptGoesOn DEF Own

\* The row is marked before the request, or it goes, or the part fails.
LEMMA PreSendPreserves ==
    ASSUME IInv, NEW a \in Actors, PreSend(a)
    PROVE  IInv'
<1>1. /\ pc[a] = "start" /\ pc[a] \in OnPart /\ pc[a] \notin Landed
      /\ att[a] \in Attempt /\ TypeOK /\ att \in [Actors -> Attempt]
      /\ RowIsMarked(pc[a], att[a], row) /\ pc[a] \in Sending
      /\ UNCHANGED <<intent, owner, seen, out, crashes, withdrawn>>
    BY OnPartFacts DEF PreSend, OnPart, Landed, IInv, TypeOK
<1>2. CASE ~(att[a].linked /\ ~intent.exact /\ att[a].pre = "none")
    <2>1. pc' = [pc EXCEPT ![a] = "dispatch"] /\ row' = row /\ failedWrites' = failedWrites
        BY <1>2 DEF PreSend, Move
    <2>2. att' = [att EXCEPT ![a] = att[a]]
        BY <1>1, <1>2 DEF PreSend
    <2>3. RowIsMarked("dispatch", att[a], row')
        BY <1>1, <1>2, <2>1 DEF RowIsMarked, Landed
    <2>4. Advances(row') /\ failedWrites' \in Nat
        BY <1>1, <2>1, RowsAdvance DEF TypeOK
    <2> QED
        BY <1>1, <2>1, <2>2, <2>3, <2>4, StageKeeps
<1>3. ASSUME Updated(Marked("started")), att' = [att EXCEPT ![a].pre = "marked"],
             Move(a, "dispatch")
      PROVE  IInv'
    <2> DEFINE t == [att[a] EXCEPT !.pre = "marked"]
    <2>1. /\ t \in Attempt /\ t.part = att[a].part /\ t.linked = att[a].linked
          /\ t.partial = att[a].partial /\ t.results = att[a].results /\ t.pre = "marked"
        BY <1>1 DEF Attempt
    <2>2. att' = [att EXCEPT ![a] = t] /\ pc' = [pc EXCEPT ![a] = "dispatch"]
        BY <1>1, <1>3 DEF Move
    <2> HIDE DEF t
    <2>3. Advances(row') /\ failedWrites' \in Nat /\ row'.evidence # "none"
        <3>1. Pending /\ row' = Marked("started") /\ row \in Row
            BY <1>1, <1>3 DEF Updated, TypeOK
        <3>2. Marked("started").evidence = "started"
            BY <3>1 DEF Marked, Row
        <3> QED
            BY <1>1, <1>3, <3>1, <3>2, RowsAdvance, UpdatedAdvances
    <2>4. RowIsMarked("dispatch", t, row')
        BY <2>1, <2>3 DEF RowIsMarked, Landed
    <2> QED
        BY <1>1, <2>1, <2>2, <2>3, <2>4, StageKeeps
<1>4. ASSUME row' = AckedRow, Failures(UpdateCost), Move(a, "dispatch"),
             att' = [att EXCEPT ![a].pre = "acked",
                                ![a].post = IF a = Live THEN "acked" ELSE @]
      PROVE  IInv'
    <2> DEFINE post == IF a = Live THEN "acked" ELSE att[a].post
               t == [att[a] EXCEPT !.pre = "acked", !.post = post]
    <2>1. /\ t \in Attempt /\ t.part = att[a].part /\ t.linked = att[a].linked
          /\ t.partial = att[a].partial /\ t.results = att[a].results /\ t.pre = "acked"
        <3>1. post \in {"none", "marked", "acked", "failed"}
            BY <1>1 DEF Attempt
        <3> HIDE DEF post
        <3> QED
            BY <1>1, <3>1 DEF Attempt
    <2>2. att' = [att EXCEPT ![a] = t] /\ pc' = [pc EXCEPT ![a] = "dispatch"]
        BY <1>1, <1>4 DEF Move
    <2> HIDE DEF t
    <2>3. Advances(row') /\ failedWrites' \in Nat /\ row'.status # "pending"
        <3>1. AckedRow.status # "pending"
            BY <1>1 DEF AckedRow, Pending, TypeOK, Row
        <3>2. UpdateCost \in Nat
            BY CostTyped
        <3> QED
            BY <1>1, <1>4, <3>1, <3>2, RowsAdvance, FailuresTyped
    <2>4. RowIsMarked("dispatch", t, row')
        BY <2>1, <2>3 DEF RowIsMarked, Landed
    <2> QED
        BY <1>1, <2>1, <2>2, <2>3, <2>4, StageKeeps
<1>5. ASSUME Throws(UpdateCost + IF intent.policy = "best_effort" THEN 1 ELSE 0),
             PartFails(a, att[a], "unproven")
      PROVE  IInv'
    <2>1. (UpdateCost + IF intent.policy = "best_effort" THEN 1 ELSE 0) \in Nat
        BY CostTyped
    <2>2. row' = row /\ failedWrites' \in Nat
        BY <1>1, <1>5, <2>1, ThrowsAdvances
    <2>3. "unproven" \in Errors
        BY DEF Errors
    <2> QED
        BY <1>1, <1>5, <2>2, <2>3, PartFailsKeeps
<1> QED
    BY <1>2, <1>3, <1>4, <1>5 DEF PreSend

\* The platform's dispatch hook: a send that must be reconciled exactly marks here.
LEMMA DispatchPreserves ==
    ASSUME IInv, NEW a \in Actors, Dispatch(a)
    PROVE  IInv'
<1>1. /\ pc[a] = "dispatch" /\ pc[a] \in OnPart /\ pc[a] \notin Landed
      /\ att[a] \in Attempt /\ TypeOK /\ att \in [Actors -> Attempt]
      /\ RowIsMarked(pc[a], att[a], row) /\ pc[a] \in Sending
      /\ UNCHANGED <<intent, owner, seen, out, crashes, withdrawn>>
    BY OnPartFacts DEF Dispatch, OnPart, Landed, IInv, TypeOK
<1>2. ASSUME UNCHANGED <<row, att>>, failedWrites' \in Nat, Move(a, "io"),
             att[a].linked => att[a].pre # "none"
      PROVE  IInv'
    <2>1. pc' = [pc EXCEPT ![a] = "io"] /\ att' = [att EXCEPT ![a] = att[a]]
        BY <1>1, <1>2 DEF Move
    <2>2. RowIsMarked("io", att[a], row')
        BY <1>1, <1>2 DEF RowIsMarked, Landed
    <2>3. Advances(row')
        BY <1>1, <1>2, RowsAdvance
    <2> QED
        BY <1>1, <1>2, <2>1, <2>2, <2>3, StageKeeps
<1>3. ASSUME Updated(Marked("started")), att' = [att EXCEPT ![a].pre = "marked"],
             Move(a, "io")
      PROVE  IInv'
    <2> DEFINE t == [att[a] EXCEPT !.pre = "marked"]
    <2>1. /\ t \in Attempt /\ t.part = att[a].part /\ t.linked = att[a].linked
          /\ t.partial = att[a].partial /\ t.results = att[a].results /\ t.pre = "marked"
        BY <1>1 DEF Attempt
    <2>2. att' = [att EXCEPT ![a] = t] /\ pc' = [pc EXCEPT ![a] = "io"]
        BY <1>1, <1>3 DEF Move
    <2> HIDE DEF t
    <2>3. Advances(row') /\ failedWrites' \in Nat /\ row'.evidence # "none"
        <3>1. Pending /\ row' = Marked("started") /\ row \in Row
            BY <1>1, <1>3 DEF Updated, TypeOK
        <3>2. Marked("started").evidence = "started"
            BY <3>1 DEF Marked, Row
        <3> QED
            BY <1>1, <1>3, <3>1, <3>2, RowsAdvance, UpdatedAdvances
    <2>4. RowIsMarked("io", t, row')
        BY <2>1, <2>3 DEF RowIsMarked, Landed
    <2> QED
        BY <1>1, <2>1, <2>2, <2>3, <2>4, StageKeeps
<1>4. ASSUME Throws(UpdateCost),
             IF intent.exact THEN PartFails(a, att[a], "unproven")
                             ELSE Move(a, "io") /\ UNCHANGED att
      PROVE  IInv'
    <2>1. row' = row /\ failedWrites' \in Nat
        BY <1>1, <1>4, CostTyped, ThrowsAdvances
    <2>2. CASE intent.exact
        <3>1. "unproven" \in Errors
            BY DEF Errors
        <3> QED
            BY <1>1, <1>4, <2>1, <2>2, <3>1, PartFailsKeeps
    <2>3. CASE ~intent.exact
        <3>1. att[a].linked => att[a].pre # "none"
            BY <1>1, <2>3 DEF RowIsMarked
        <3> QED
            BY <1>2, <1>4, <2>1, <2>3, <3>1
    <2> QED
        BY <2>2, <2>3
<1>5. CASE att[a].linked /\ att[a].pre # "acked"
    <2>1. CASE ~intent.exact /\ Move(a, "io") /\ UNCHANGED <<row, att, failedWrites>>
        <3>1. att[a].linked => att[a].pre # "none"
            BY <1>1, <2>1 DEF RowIsMarked
        <3>2. failedWrites' \in Nat
            BY <1>1, <2>1 DEF TypeOK
        <3> QED
            BY <1>2, <2>1, <3>1, <3>2
    <2> QED
        BY <1>3, <1>4, <1>5, <2>1 DEF Dispatch
<1>6. CASE ~(att[a].linked /\ att[a].pre # "acked")
    <2>1. Move(a, "io") /\ UNCHANGED <<row, att, failedWrites>>
        BY <1>6 DEF Dispatch
    <2>2. failedWrites' \in Nat
        BY <1>1, <2>1 DEF TypeOK
    <2> QED
        BY <1>2, <1>6, <2>1, <2>2
<1> QED
    BY <1>5, <1>6

\* The platform takes a part: it was not there, and the row has evidence.
LEMMA AcceptsPreserves ==
    ASSUME IInv, NEW a \in Actors, PlatformAccepts(a)
    PROVE  IInv'
<1> DEFINE part == att[a].part
<1>1. /\ pc[a] = "io" /\ pc[a] \in OnPart /\ pc[a] \notin Landed
      /\ UNCHANGED <<intent, row, owner, att, seen, failedWrites, crashes, withdrawn>>
      /\ pc' = [pc EXCEPT ![a] = "accepted"] /\ out' = [out EXCEPT ![part] = @ + 1]
    BY DEF PlatformAccepts, OnPart, Landed, Move
<1>2. /\ pc[a] \in Sending /\ att[a] \in Attempt /\ part \in Parts
      /\ \A p \in Parts : p > part => out[p] = 0
      /\ out[part] = 0
      /\ ~intent.bestEffort => att[a].partial = "none"
      /\ att[a].results = 0 /\ att[a].partial # "unproven" => \A p \in Parts : out[p] = 0
      /\ RowIsMarked(pc[a], att[a], row)
    BY <1>1, OnPartFacts
<1>3. /\ TypeOK /\ out \in [Parts -> Nat] /\ att \in [Actors -> Attempt] /\ AtMostOnce
      /\ row \in Row
    BY DEF IInv, TypeOK
<1>4. /\ out' \in [Parts -> Nat] /\ out'[part] = 1
      /\ \A p \in Parts : p # part => out'[p] = out[p]
    BY <1>1, <1>2, <1>3
<1>5. Works(a) /\ (a # Live => att[a].linked) /\ (a = Live /\ ~att[a].linked => row.status = "none")
    BY <1>2, WorksAlone DEF Works, Holding, IInv, Exclusive, Actors
<1>6. AtMostOnce'
    BY <1>3, <1>4 DEF AtMostOnce
<1>7. Evident(row', out')
    <2> SUFFICES ASSUME row.status = "pending" PROVE row.evidence # "none"
        BY <1>1 DEF Evident
    <2>1. att[a].linked
        BY <1>5
    <2>2. att[a].pre \in {"none", "marked", "acked"} /\ att[a].pre # "none"
        BY <1>1, <1>2, <2>1 DEF RowIsMarked, Attempt
    <2> QED
        BY <1>2, <2>1, <2>2 DEF RowIsMarked
<1>8. Own("accepted", att[a], row', out')
    <2>1. StillToSend("accepted", att[a], out')
        <3>1. \A p \in Parts : p > part => p # part
            BY <1>2 DEF Parts
        <3> QED
            BY <1>2, <1>4, <3>1 DEF StillToSend, Landed
    <2>2. SentIsKnown("accepted", att[a], out')
        BY <1>2, <1>4 DEF SentIsKnown, Explained, Landed
    <2>3. RowIsMarked("accepted", att[a], row')
        BY <1>1, <1>2 DEF RowIsMarked, Landed
    <2> QED
        BY <2>1, <2>2, <2>3 DEF Own
<1>9. "accepted" \in Sending /\ att' = [att EXCEPT ![a] = att[a]]
    BY <1>1, <1>3 DEF Sending
<1>10. /\ row' \in Row /\ ((row'.status = "none") <=> (row.status = "none"))
       /\ seen' \in [Recoverers -> Row] /\ failedWrites' \in Nat /\ crashes' \in Nat
       /\ withdrawn' \in BOOLEAN
    BY <1>1, <1>3 DEF TypeOK
<1> HIDE DEF part
<1> QED
    BY <1>1, <1>2, <1>4, <1>5, <1>6, <1>7, <1>8, <1>9, <1>10, WorkerStep

\* The request fails before the platform takes the part.
LEMMA RefusesPreserves ==
    ASSUME IInv, NEW a \in Actors, PlatformRefuses(a)
    PROVE  IInv'
<1>1. /\ pc[a] = "io" /\ pc[a] \in OnPart /\ pc[a] \notin Landed /\ att[a] \in Attempt
    BY DEF PlatformRefuses, OnPart, Landed, IInv, TypeOK
<1>2. PICK err \in ErrorsOf(a) \cup {"proven", "rejected"} : PartFails(a, att[a], err)
    BY DEF PlatformRefuses
<1>3. err \in Errors
    BY DEF ErrorsOf, Errors
<1>4. row' = row /\ failedWrites' \in Nat
    BY DEF PlatformRefuses, IInv, TypeOK
<1> QED
    BY <1>1, <1>2, <1>3, <1>4, PartFailsKeeps DEF PlatformRefuses

\* The platform has the part: the answer comes, or it is lost.
LEMMA AnswerPreserves ==
    ASSUME IInv, NEW a \in Actors, Answer(a)
    PROVE  IInv'
<1>1. /\ pc[a] = "accepted" /\ pc[a] \in OnPart /\ pc[a] \in Landed /\ att[a] \in Attempt
      /\ TypeOK /\ att \in [Actors -> Attempt]
    BY DEF Answer, OnPart, Landed, IInv, TypeOK
<1>2. /\ row' = row /\ failedWrites' \in Nat
      /\ UNCHANGED <<intent, owner, seen, out, crashes, withdrawn>>
    BY DEF Answer, IInv, TypeOK
<1>3. CASE Move(a, "result") /\ UNCHANGED att
    <2>1. /\ pc[a] \in Sending /\ att[a].part \in Parts
          /\ \A p \in Parts : p > att[a].part => out[p] = 0
          /\ ~intent.bestEffort => att[a].partial = "none"
          /\ att[a].results = 0 /\ att[a].partial # "unproven" =>
                \A p \in Parts : out[p] = 0 \/ p = att[a].part
          /\ RowIsMarked(pc[a], att[a], row)
        BY <1>1, OnPartFacts
    <2>2. Own("result", att[a], row', out)
        <3>1. StillToSend("result", att[a], out)
            BY <2>1 DEF StillToSend, Landed
        <3>2. SentIsKnown("result", att[a], out)
            BY <2>1 DEF SentIsKnown, Explained, Landed
        <3>3. RowIsMarked("result", att[a], row')
            BY <1>1, <1>2, <2>1 DEF RowIsMarked, Landed
        <3> QED
            BY <3>1, <3>2, <3>3 DEF Own
    <2>3. pc' = [pc EXCEPT ![a] = "result"] /\ att' = [att EXCEPT ![a] = att[a]]
        BY <1>1, <1>3 DEF Move
    <2>4. Advances(row') /\ "result" \in Sending
        BY <1>1, <1>2, RowsAdvance DEF Sending
    <2> QED
        BY <1>1, <1>2, <2>1, <2>2, <2>3, <2>4, AttemptGoesOn
<1>4. ASSUME NEW err \in ErrorsOf(a), PartFails(a, att[a], err)
      PROVE  IInv'
    <2>1. err \in Errors /\ err \notin {"proven", "rejected"}
        BY DEF ErrorsOf, Errors
    <2> QED
        BY <1>1, <1>2, <1>4, <2>1, PartFailsKeeps
<1> QED
    BY <1>3, <1>4 DEF Answer

\* A result is counted, and the first one makes the row say so.
LEMMA ResultPreserves ==
    ASSUME IInv, NEW a \in Actors, Result(a)
    PROVE  IInv'
<1> DEFINE n == att[a].results + 1
           r == [att[a] EXCEPT !.results = n]
<1>1. /\ pc[a] = "result" /\ pc[a] \in OnPart /\ pc[a] \in Landed /\ att[a] \in Attempt
      /\ TypeOK /\ att \in [Actors -> Attempt]
      /\ UNCHANGED <<intent, owner, seen, out, crashes, withdrawn>>
    BY DEF Result, OnPart, Landed, IInv, TypeOK
<1>2. /\ pc[a] \in Sending
      /\ ~intent.bestEffort => att[a].partial = "none"
      /\ RowIsMarked(pc[a], att[a], row)
    BY <1>1, OnPartFacts
<1>3. n \in Nat /\ n # 0 /\ r \in Attempt /\ r.results = n
      /\ r.part = att[a].part /\ r.linked = att[a].linked /\ r.pre = att[a].pre
      /\ r.partial = att[a].partial /\ r.post = att[a].post
    <2>1. n \in Nat /\ n # 0
        BY <1>1 DEF Attempt
    <2> HIDE DEF n
    <2>2. r \in Attempt /\ r.results = n
          /\ r.part = att[a].part /\ r.linked = att[a].linked /\ r.pre = att[a].pre
          /\ r.partial = att[a].partial /\ r.post = att[a].post
        BY <1>1, <2>1 DEF Attempt
    <2> QED
        BY <2>1, <2>2
<1>4. ASSUME NEW post \in PostStates, Advances(row'), failedWrites' \in Nat,
             att' = [att EXCEPT ![a] = [r EXCEPT !.part = @ + 1, !.post = post]],
             Move(a, Next1(a))
      PROVE  IInv'
    <2> DEFINE t == [r EXCEPT !.part = @ + 1, !.post = post]
    <2>1. /\ t \in Attempt /\ t.part = att[a].part + 1 /\ t.linked = att[a].linked
          /\ t.pre = att[a].pre /\ t.partial = att[a].partial /\ t.results = n
        <3> DEFINE m == r.part + 1
        <3>1. m \in Nat
            BY <1>3 DEF Attempt
        <3> HIDE DEF m, r, n
        <3>2. LET v == [r EXCEPT !.part = m, !.post = post]
              IN  /\ v \in Attempt /\ v.part = m /\ v.linked = r.linked
                  /\ v.pre = r.pre /\ v.partial = r.partial /\ v.results = r.results
            BY <1>3, <3>1 DEF Attempt, PostStates
        <3> QED
            BY <1>3, <3>2 DEF m
    <2>2. pc' = [pc EXCEPT ![a] = Next1(a)] /\ att' = [att EXCEPT ![a] = t]
        BY <1>4 DEF Move
    <2> HIDE DEF t, n, r
    <2>3. Next1(a) \in {"start", "returned"} /\ StillToSend(Next1(a), t, out)
        BY <1>1, <2>1, NextPart
    <2>4. SentIsKnown(Next1(a), t, out)
        BY <1>2, <1>3, <2>1 DEF SentIsKnown, Explained
    <2>5. RowIsMarked(Next1(a), t, row')
        BY <1>1, <1>2, <1>4, <2>1, <2>3 DEF RowIsMarked, Landed, Advances, Pending
    <2>6. Next1(a) \in Sending
        BY <2>3 DEF Sending
    <2> QED
        BY <1>1, <1>2, <1>4, <2>1, <2>2, <2>3, <2>4, <2>5, <2>6, AttemptGoesOn DEF Own
<1>5. CASE r.linked /\ r.post = "none"
    <2>1. PICK o \in PostStates :
             /\ Persists(o)
             /\ IF o = "none" THEN PartFails(a, r, "unproven")
                ELSE /\ att' = [att EXCEPT ![a] = [r EXCEPT !.part = @ + 1, !.post = o]]
                     /\ Move(a, Next1(a))
        BY <1>5 DEF Result
    <2> HIDE DEF r
    <2>2. Advances(row') /\ failedWrites' \in Nat /\ (o = "none" => row' = row)
        BY <1>1, <2>1, PersistsAdvances
    <2>3. CASE o = "none"
        <3>1. "unproven" \in Errors
            BY DEF Errors
        <3> QED
            BY <1>1, <1>3, <2>1, <2>2, <2>3, <3>1, PartFailsKeeps
    <2>4. CASE o # "none"
        BY <1>4, <2>1, <2>2, <2>4
    <2> QED
        BY <2>3, <2>4
<1>6. CASE ~(r.linked /\ r.post = "none")
    <2>1. /\ att' = [att EXCEPT ![a] = [r EXCEPT !.part = @ + 1, !.post = r.post]]
          /\ Move(a, Next1(a)) /\ UNCHANGED <<row, failedWrites>>
        BY <1>6 DEF Result
    <2>2. r.post \in PostStates /\ Advances(row') /\ failedWrites' \in Nat
        BY <1>1, <1>3, <2>1, RowsAdvance DEF Attempt, PostStates, TypeOK
    <2> HIDE DEF r
    <2> QED
        BY <1>4, <2>1, <2>2
<1> QED
    BY <1>5, <1>6

-----------------------------------------------------------------------------
(* One lemma per action: the end of an attempt.                            *)

\* An attempt that has returned or failed moves on towards its end.
LEMMA EndKeeps ==
    ASSUME IInv, NEW a \in Actors, NEW s \in {"settle", "thrown"}, NEW t \in Attempt,
           \/ pc[a] = "returned" /\ (s = "thrown" => t.err \notin {"proven", "rejected"})
           \/ pc[a] = "settle" /\ s = "thrown" /\ t.err \notin {"proven", "rejected"}
           \/ pc[a] = "thrown" /\ s = "thrown" /\ t.err = att[a].err,
           t.linked = att[a].linked, t.pre = att[a].pre, t.partial = att[a].partial,
           t.results = att[a].results,
           pc' = [pc EXCEPT ![a] = s], att' = [att EXCEPT ![a] = t],
           Advances(row'), failedWrites' \in Nat,
           UNCHANGED <<intent, owner, seen, out, crashes, withdrawn>>
    PROVE  IInv'
<1>1. /\ pc[a] \in Sending /\ s \in Sending /\ pc[a] \notin OnPart /\ s \notin OnPart
      /\ pc[a] \notin Landed /\ s \notin Landed /\ s \notin {"io", "dispatch", "reserve"}
    BY DEF Sending, OnPart, Landed
<1>2. Own(pc[a], att[a], row, out)
    BY DEF IInv
<1>3. StillToSend(s, t, out)
    BY <1>1 DEF StillToSend
<1>4. SentIsKnown(s, t, out)
    BY <1>1, <1>2 DEF Own, SentIsKnown, Explained
<1>5. RowIsMarked(s, t, row')
    BY <1>1, <1>2 DEF Own, RowIsMarked, Advances, Pending
<1> QED
    BY <1>1, <1>3, <1>4, <1>5, AttemptGoesOn DEF Own

\* What is known at the end of an attempt that explains itself.
LEMMA EndFacts ==
    ASSUME IInv, NEW a \in Actors, pc[a] \in {"returned", "settle", "thrown"}
    PROVE  /\ Works(a) /\ TypeOK /\ att[a] \in Attempt /\ att \in [Actors -> Attempt]
           /\ pc \in [Actors -> Stages] /\ withdrawn \in BOOLEAN /\ failedWrites \in Nat
           /\ Explained(pc[a], att[a]) => NothingOut
<1>1. Own(pc[a], att[a], row, out)
    BY DEF IInv
<1>2. pc[a] \in Sending /\ pc[a] \notin Landed /\ pc[a] \in Holding
    BY DEF Sending, Landed, Holding
<1>3. Explained(pc[a], att[a]) => NothingOut
    BY <1>1, <1>2 DEF Own, SentIsKnown, NothingOut
<1> QED
    BY <1>2, <1>3 DEF Works, IInv, TypeOK

\* A live batch came back.
LEMMA LiveReturnedPreserves ==
    ASSUME IInv, LiveReturned
    PROVE  IInv'
<1>0. Live \in Actors /\ pc[Live] = "returned"
    BY DEF Actors, LiveReturned
<1>1. /\ Works(Live) /\ TypeOK /\ att[Live] \in Attempt /\ att \in [Actors -> Attempt]
      /\ pc \in [Actors -> Stages] /\ withdrawn \in BOOLEAN /\ failedWrites \in Nat
    BY <1>0, EndFacts
<1>2. UNCHANGED <<intent, seen, out, crashes, withdrawn>>
    BY DEF LiveReturned
<1>3. ASSUME NEW o \in PostStates, Persists(o),
             IF o = "none" THEN Release(Live)
             ELSE /\ att' = [att EXCEPT ![Live].post = o]
                  /\ Move(Live, "settle") /\ UNCHANGED owner
      PROVE  IInv'
    <2>1. Advances(row') /\ failedWrites' \in Nat
        BY <1>1, <1>3, PersistsAdvances
    <2>2. CASE o = "none"
        BY <1>0, <1>1, <1>2, <1>3, <2>1, <2>2, ReleaseAdvancing
    <2>3. CASE o # "none"
        <3> DEFINE t == [att[Live] EXCEPT !.post = o]
        <3>1. /\ t \in Attempt /\ t.linked = att[Live].linked /\ t.pre = att[Live].pre
              /\ t.partial = att[Live].partial /\ t.results = att[Live].results
            BY <1>1 DEF Attempt, PostStates
        <3>2. att' = [att EXCEPT ![Live] = t] /\ pc' = [pc EXCEPT ![Live] = "settle"]
              /\ UNCHANGED owner
            BY <1>1, <1>3, <2>3 DEF Move
        <3> HIDE DEF t
        <3> QED
            BY <1>0, <1>2, <2>1, <3>1, <3>2, EndKeeps
    <2> QED
        BY <2>2, <2>3
<1>4. CASE Move(Live, "settle") /\ UNCHANGED <<row, att, owner, failedWrites>>
    <2>1. att' = [att EXCEPT ![Live] = att[Live]] /\ pc' = [pc EXCEPT ![Live] = "settle"]
        BY <1>1, <1>4 DEF Move
    <2>2. Advances(row') /\ failedWrites' \in Nat
        BY <1>1, <1>4, RowsAdvance
    <2> QED
        BY <1>0, <1>1, <1>2, <1>4, <2>1, <2>2, EndKeeps
<1> QED
    BY <1>3, <1>4 DEF LiveReturned

\* It is acknowledged, or its row is kept for another attempt.
LEMMA LiveSettlesPreserves ==
    ASSUME IInv, LiveSettles
    PROVE  IInv'
<1>0. Live \in Actors /\ pc[Live] = "settle" /\ Release(Live)
      /\ UNCHANGED <<intent, seen, out, crashes, withdrawn>>
    BY DEF Actors, LiveSettles
<1>1. /\ Works(Live) /\ TypeOK /\ att[Live] \in Attempt
      /\ withdrawn \in BOOLEAN /\ failedWrites \in Nat
      /\ Explained("settle", att[Live]) => NothingOut
    BY <1>0, EndFacts
<1>2. UpdateCost \in Nat /\ 1 + UpdateCost \in Nat
    BY CostTyped
<1> DEFINE proven == ~Evidence(Live) /\ att[Live].partial = "proven"
<1>3. ASSUME Updated(RecordedRow(proven)) PROVE IInv'
    <2>1. proven => NothingOut
        BY <1>1 DEF Evidence, Explained, Attempt
    <2>2. proven \in BOOLEAN
        BY DEF Evidence
    <2> HIDE DEF proven
    <2> QED
        BY <1>0, <1>1, <1>3, <2>1, <2>2, ReleaseRecorded
<1>4. ASSUME Advances(row'), failedWrites' \in Nat PROVE IInv'
    BY <1>0, <1>1, <1>4, ReleaseAdvancing
<1>5. CASE UNCHANGED <<row, failedWrites>>
    BY <1>1, <1>4, <1>5, RowsAdvance
<1>6. CASE Throws(UpdateCost) \/ Throws(1 + UpdateCost)
    BY <1>1, <1>2, <1>4, <1>6, ThrowsAdvances
<1>7. CASE row' = AckedRow /\ Failures(0)
    BY <1>1, <1>4, <1>7, RowsAdvance, FailuresTyped
<1>8. CASE Pending /\ Failures(1) /\ (row' = AfterSendRow \/ row' = FailedRow)
    BY <1>1, <1>4, <1>8, RowsAdvance, FailuresTyped
<1> QED
    BY <1>3, <1>5, <1>6, <1>7, <1>8 DEF LiveSettles

\* A live batch was rejected.
LEMMA LiveThrownPreserves ==
    ASSUME IInv, LiveThrown
    PROVE  IInv'
<1>0. Live \in Actors /\ pc[Live] = "thrown"
      /\ UNCHANGED <<intent, seen, out, crashes>>
    BY DEF Actors, LiveThrown
<1>1. /\ Works(Live) /\ TypeOK /\ att[Live] \in Attempt /\ att \in [Actors -> Attempt]
      /\ pc \in [Actors -> Stages] /\ withdrawn \in BOOLEAN /\ failedWrites \in Nat
      /\ Explained("thrown", att[Live]) => NothingOut
    BY <1>0, EndFacts
<1>2. UpdateCost \in Nat /\ 1 + UpdateCost \in Nat
    BY CostTyped
<1> DEFINE proven == att[Live].err \in {"proven", "rejected"}
<1>3. ASSUME Release(Live), Advances(row'), failedWrites' \in Nat, withdrawn' \in BOOLEAN
      PROVE  IInv'
    BY <1>0, <1>1, <1>3, ReleaseAdvancing
<1>4. CASE att[Live].err = "abort"
    <2>1. Release(Live) /\ withdrawn' \in BOOLEAN
          /\ ((row' = AckedRow /\ Failures(0)) \/ Throws(1))
        BY <1>1, <1>4 DEF LiveThrown
    <2>2. Advances(row') /\ failedWrites' \in Nat
        BY <1>1, <2>1, RowsAdvance, FailuresTyped, ThrowsAdvances
    <2> QED
        BY <1>3, <2>1, <2>2
<1>5. CASE att[Live].err # "abort" /\ Evidence(Live)
    <2>0. withdrawn' = withdrawn
        BY <1>5 DEF LiveThrown
    <2>1. CASE att[Live].post = "none"
        <3>1. PICK o \in PostStates :
                 /\ Persists(o)
                 /\ IF o = "marked"
                      THEN /\ att' = [att EXCEPT ![Live].post = o]
                           /\ UNCHANGED <<pc, owner>>
                      ELSE Release(Live)
            BY <1>5, <2>1 DEF LiveThrown
        <3>2. Advances(row') /\ failedWrites' \in Nat
            BY <1>1, <3>1, PersistsAdvances
        <3>3. CASE o = "marked"
            <4> DEFINE t == [att[Live] EXCEPT !.post = o]
            <4>1. /\ t \in Attempt /\ t.linked = att[Live].linked /\ t.pre = att[Live].pre
                  /\ t.partial = att[Live].partial /\ t.results = att[Live].results
                  /\ t.err = att[Live].err
                BY <1>1 DEF Attempt, PostStates
            <4>2. att' = [att EXCEPT ![Live] = t] /\ pc' = [pc EXCEPT ![Live] = "thrown"]
                  /\ UNCHANGED owner
                BY <1>0, <1>1, <3>1, <3>3
            <4> HIDE DEF t
            <4> QED
                BY <1>0, <2>0, <3>2, <4>1, <4>2, EndKeeps
        <3>4. CASE o # "marked"
            BY <1>1, <1>3, <2>0, <3>1, <3>2, <3>4
        <3> QED
            BY <3>3, <3>4
    <2>2. CASE att[Live].post # "none"
        <3>1. /\ Release(Live)
              /\ IF att[Live].post = "marked"
                   THEN Updated(AfterSendRow) \/ Throws(UpdateCost)
                   ELSE UNCHANGED <<row, failedWrites>>
            BY <1>5, <2>2 DEF LiveThrown
        <3>2. Advances(row') /\ failedWrites' \in Nat
            <4>1. CASE Updated(AfterSendRow)
                <5>1. Pending
                    BY <4>1 DEF Updated
                <5> QED
                    BY <1>1, <4>1, <5>1, RowsAdvance, UpdatedAdvances
            <4>2. CASE Throws(UpdateCost)
                BY <1>1, <1>2, <4>2, ThrowsAdvances
            <4>3. CASE UNCHANGED <<row, failedWrites>>
                BY <1>1, <4>3, RowsAdvance
            <4> QED
                BY <3>1, <4>1, <4>2, <4>3
        <3> QED
            BY <1>1, <1>3, <2>0, <3>1, <3>2
    <2> QED
        BY <2>1, <2>2
<1>6. CASE att[Live].err # "abort" /\ ~Evidence(Live)
    <2>0. Release(Live)
        BY <1>6 DEF LiveThrown
    <2>1. proven => NothingOut
        <3>1. att[Live].results = 0
            BY <1>1, <1>6 DEF Evidence, Attempt
        <3> QED
            BY <1>1, <3>1 DEF Explained
    <2>2. CASE att[Live].pre = "acked"
        <3>1. UNCHANGED <<row, failedWrites, withdrawn>>
            BY <1>6, <2>2 DEF LiveThrown
        <3>2. Advances(row')
            BY <1>1, <3>1, RowsAdvance
        <3> QED
            BY <1>1, <1>3, <2>0, <3>1, <3>2
    <2>3. CASE att[Live].pre # "acked" /\ att[Live].err = "rejected"
        <3>0. \/ row' = AckedRow /\ Failures(0) /\ withdrawn' = TRUE
              \/ Pending /\ row' = NotSentRow /\ Failures(1) /\ UNCHANGED withdrawn
              \/ Throws(1 + UpdateCost) /\ UNCHANGED withdrawn
            BY <1>6, <2>3 DEF LiveThrown
        <3>1. CASE row' = AckedRow /\ Failures(0) /\ withdrawn' = TRUE
            BY <1>1, <1>3, <2>0, <3>1, RowsAdvance, FailuresTyped
        <3>2. CASE Pending /\ row' = NotSentRow /\ Failures(1) /\ UNCHANGED withdrawn
            <4>1. NothingOut
                BY <2>1, <2>3
            <4>2. /\ row' \in Row /\ row'.status # "none" /\ row.status # "none"
                  /\ failedWrites' \in Nat
                BY <1>1, <3>2, RowsAdvance, FailuresTyped DEF Pending
            <4>3. Evident(row', out)
                <5>1. \A p \in Parts : ~(out[p] > 0)
                    BY <4>1 DEF NothingOut
                <5> QED
                    BY <5>1 DEF Evident
            <4> QED
                BY <1>0, <1>1, <2>0, <3>2, <4>2, <4>3, ReleaseStep
        <3>3. CASE Throws(1 + UpdateCost) /\ UNCHANGED withdrawn
            BY <1>1, <1>2, <1>3, <2>0, <3>3, ThrowsAdvances
        <3> QED
            BY <3>0, <3>1, <3>2, <3>3
    <2>4. CASE att[Live].pre # "acked" /\ att[Live].err # "rejected"
        <3>0. (Updated(RecordedRow(proven)) \/ Throws(UpdateCost)) /\ UNCHANGED withdrawn
            BY <1>6, <2>4 DEF LiveThrown
        <3>1. proven \in BOOLEAN
            OBVIOUS
        <3> HIDE DEF proven
        <3>2. CASE Updated(RecordedRow(proven))
            BY <1>0, <1>1, <2>0, <2>1, <3>0, <3>1, <3>2, ReleaseRecorded
        <3>3. CASE Throws(UpdateCost)
            BY <1>1, <1>2, <1>3, <2>0, <3>0, <3>3, ThrowsAdvances
        <3> QED
            BY <3>0, <3>2, <3>3
    <2> QED
        BY <2>2, <2>3, <2>4
<1> QED
    BY <1>4, <1>5, <1>6

\* A send without a row just ends.
LEMMA DirectEndsPreserves ==
    ASSUME IInv, DirectEnds
    PROVE  IInv'
<1>0. Live \in Actors /\ pc[Live] \in {"returned", "thrown"} /\ Release(Live)
      /\ UNCHANGED <<intent, row, seen, out, failedWrites, crashes, withdrawn>>
    BY DEF Actors, DirectEnds
<1>1. Works(Live) /\ TypeOK /\ withdrawn \in BOOLEAN /\ failedWrites \in Nat
    BY <1>0, EndFacts
<1>2. Advances(row')
    BY <1>0, <1>1, RowsAdvance
<1> QED
    BY <1>0, <1>1, <1>2, ReleaseAdvancing

\* A recovered batch came back.
LEMMA RecoveredReturnedPreserves ==
    ASSUME IInv, NEW r \in Recoverers, RecoveredReturned(r)
    PROVE  IInv'
<1>0. r \in Actors /\ pc[r] = "returned"
      /\ UNCHANGED <<intent, seen, out, crashes, withdrawn>>
    BY DEF Actors, RecoveredReturned
<1>1. /\ Works(r) /\ TypeOK /\ att[r] \in Attempt /\ att \in [Actors -> Attempt]
      /\ pc \in [Actors -> Stages] /\ withdrawn \in BOOLEAN /\ failedWrites \in Nat
      /\ Explained("returned", att[r]) => NothingOut
    BY <1>0, EndFacts
<1>2. UpdateCost \in Nat
    BY CostTyped
<1>3. ASSUME Move(r, "thrown"), UNCHANGED owner, att' = [att EXCEPT ![r].err = "unproven"],
             Advances(row'), failedWrites' \in Nat
      PROVE  IInv'
    <2> DEFINE t == [att[r] EXCEPT !.err = "unproven"]
    <2>1. /\ t \in Attempt /\ t.linked = att[r].linked /\ t.pre = att[r].pre
          /\ t.partial = att[r].partial /\ t.results = att[r].results /\ t.err = "unproven"
        BY <1>1 DEF Attempt, Errors
    <2>2. att' = [att EXCEPT ![r] = t] /\ pc' = [pc EXCEPT ![r] = "thrown"]
        BY <1>1, <1>3 DEF Move
    <2> HIDE DEF t
    <2> QED
        BY <1>0, <1>3, <2>1, <2>2, EndKeeps
<1>4. CASE att[r].post = "none" /\ Evidence(r)
    <2>1. PICK o \in PostStates :
             /\ Persists(o)
             /\ IF o = "none"
                  THEN Move(r, "thrown") /\ UNCHANGED owner
                       /\ att' = [att EXCEPT ![r].err = "unproven"]
                  ELSE /\ att' = [att EXCEPT ![r].post = o] /\ UNCHANGED owner
                       /\ Move(r, "settle")
        BY <1>4 DEF RecoveredReturned
    <2>2. Advances(row') /\ failedWrites' \in Nat
        BY <1>1, <2>1, PersistsAdvances
    <2>3. CASE o = "none"
        BY <1>3, <2>1, <2>2, <2>3
    <2>4. CASE o # "none"
        <3> DEFINE t == [att[r] EXCEPT !.post = o]
        <3>1. /\ t \in Attempt /\ t.linked = att[r].linked /\ t.pre = att[r].pre
              /\ t.partial = att[r].partial /\ t.results = att[r].results
            BY <1>1 DEF Attempt, PostStates
        <3>2. att' = [att EXCEPT ![r] = t] /\ pc' = [pc EXCEPT ![r] = "settle"]
              /\ UNCHANGED owner
            BY <1>1, <2>1, <2>4 DEF Move
        <3> HIDE DEF t
        <3> QED
            BY <1>0, <2>2, <3>1, <3>2, EndKeeps
    <2> QED
        BY <2>3, <2>4
<1>5. CASE att[r].partial # "none" /\ ~Evidence(r)
    <2> DEFINE proven == att[r].partial = "proven"
    <2>0. proven => NothingOut
        BY <1>1, <1>5 DEF Evidence, Explained, Attempt
    <2>1. proven \in BOOLEAN
        OBVIOUS
    <2>2. \/ Updated(RecordedRow(proven)) /\ Release(r)
          \/ /\ Throws(UpdateCost)
             /\ Move(r, "thrown") /\ UNCHANGED owner
             /\ att' = [att EXCEPT ![r].err = "unproven"]
        BY <1>5 DEF RecoveredReturned
    <2> HIDE DEF proven
    <2>3. CASE Updated(RecordedRow(proven)) /\ Release(r)
        BY <1>0, <1>1, <2>0, <2>1, <2>3, ReleaseRecorded
    <2>4. CASE /\ Throws(UpdateCost)
               /\ Move(r, "thrown") /\ UNCHANGED owner
               /\ att' = [att EXCEPT ![r].err = "unproven"]
        BY <1>1, <1>2, <1>3, <2>4, ThrowsAdvances
    <2> QED
        BY <2>2, <2>3, <2>4
<1>6. CASE Move(r, "settle") /\ UNCHANGED <<row, att, owner, failedWrites>>
    <2>1. att' = [att EXCEPT ![r] = att[r]] /\ pc' = [pc EXCEPT ![r] = "settle"]
        BY <1>1, <1>6 DEF Move
    <2>2. Advances(row') /\ failedWrites' \in Nat
        BY <1>1, <1>6, RowsAdvance
    <2> QED
        BY <1>0, <1>1, <1>6, <2>1, <2>2, EndKeeps
<1> QED
    BY <1>4, <1>5, <1>6 DEF RecoveredReturned

\* It is acknowledged, or its row is kept.
LEMMA RecoveredSettlesPreserves ==
    ASSUME IInv, NEW r \in Recoverers, RecoveredSettles(r)
    PROVE  IInv'
<1>0. r \in Actors /\ pc[r] = "settle"
      /\ UNCHANGED <<intent, seen, out, crashes, withdrawn>>
    BY DEF Actors, RecoveredSettles
<1>1. /\ Works(r) /\ TypeOK /\ att[r] \in Attempt /\ att \in [Actors -> Attempt]
      /\ pc \in [Actors -> Stages] /\ withdrawn \in BOOLEAN /\ failedWrites \in Nat
    BY <1>0, EndFacts
<1>2. 1 + UpdateCost \in Nat
    BY CostTyped
<1>3. ASSUME Release(r), Advances(row'), failedWrites' \in Nat PROVE IInv'
    BY <1>0, <1>1, <1>3, ReleaseAdvancing
<1>4. CASE Release(r) /\ UNCHANGED <<row, failedWrites>>
    BY <1>1, <1>3, <1>4, RowsAdvance
<1>5. CASE row' = AckedRow /\ Failures(0) /\ Release(r)
    BY <1>1, <1>3, <1>5, RowsAdvance, FailuresTyped
<1>6. CASE Pending /\ Failures(1) /\ (row' = AfterSendRow \/ row' = FailedRow) /\ Release(r)
    BY <1>1, <1>3, <1>6, RowsAdvance, FailuresTyped
<1>7. CASE /\ Throws(1 + UpdateCost) /\ att' = [att EXCEPT ![r].err = "unproven"]
           /\ Move(r, "thrown") /\ UNCHANGED owner
    <2> DEFINE t == [att[r] EXCEPT !.err = "unproven"]
    <2>1. /\ t \in Attempt /\ t.linked = att[r].linked /\ t.pre = att[r].pre
          /\ t.partial = att[r].partial /\ t.results = att[r].results /\ t.err = "unproven"
        BY <1>1 DEF Attempt, Errors
    <2>2. att' = [att EXCEPT ![r] = t] /\ pc' = [pc EXCEPT ![r] = "thrown"]
        BY <1>1, <1>7 DEF Move
    <2>3. Advances(row') /\ failedWrites' \in Nat
        BY <1>1, <1>2, <1>7, ThrowsAdvances
    <2> HIDE DEF t
    <2> QED
        BY <1>0, <1>7, <2>1, <2>2, <2>3, EndKeeps
<1> QED
    BY <1>4, <1>5, <1>6, <1>7 DEF RecoveredSettles

\* A recovered batch was rejected.
LEMMA RecoveredThrownPreserves ==
    ASSUME IInv, NEW r \in Recoverers, RecoveredThrown(r)
    PROVE  IInv'
<1>0. r \in Actors /\ pc[r] = "thrown" /\ Release(r)
      /\ UNCHANGED <<intent, seen, out, crashes, withdrawn>>
    BY DEF Actors, RecoveredThrown
<1>1. /\ Works(r) /\ TypeOK /\ att[r] \in Attempt
      /\ withdrawn \in BOOLEAN /\ failedWrites \in Nat
      /\ Explained("thrown", att[r]) => NothingOut
    BY <1>0, EndFacts
<1> DEFINE proven == att[r].err = "proven"
<1>2. ASSUME Advances(row'), failedWrites' \in Nat PROVE IInv'
    BY <1>0, <1>1, <1>2, ReleaseAdvancing
<1>3. ASSUME NEW o \in PostStates, Persists(o) PROVE IInv'
    BY <1>1, <1>2, <1>3, PersistsAdvances
<1>4. CASE UNCHANGED <<row, failedWrites>>
    BY <1>1, <1>2, <1>4, RowsAdvance
<1>5. CASE Updated(DeadRow)
    <2>1. Pending
        BY <1>5 DEF Updated
    <2> QED
        BY <1>1, <1>2, <1>5, <2>1, RowsAdvance, UpdatedAdvances
<1>6. CASE Throws(1)
    BY <1>1, <1>2, <1>6, ThrowsAdvances
<1>7. CASE Updated(RecordedRow(proven)) /\ ~Evidence(r)
    <2>1. proven => NothingOut
        BY <1>1, <1>7 DEF Evidence, Explained, Attempt
    <2>2. proven \in BOOLEAN
        OBVIOUS
    <2> HIDE DEF proven
    <2> QED
        BY <1>0, <1>1, <1>7, <2>1, <2>2, ReleaseRecorded
<1> QED
    BY <1>3, <1>4, <1>5, <1>6, <1>7 DEF RecoveredThrown

-----------------------------------------------------------------------------
(* One lemma per action: the live sender's start, and the passes.          *)

\* The row is written, or the send goes on without one, or not at all.
LEMMA EnqueuePreserves ==
    ASSUME IInv, Enqueue
    PROVE  IInv'
<1>1. /\ TypeOK /\ Live \in Actors /\ Live \notin Recoverers /\ Recoverers \subseteq Actors
      /\ pc[Live] = "new" /\ row.status = "none" /\ NothingOut /\ owner = Nobody
      /\ \A r \in Recoverers : pc[r] = "idle"
      /\ \A a \in Actors : Own(pc[a], att[a], row, out)
      /\ UNCHANGED <<intent, owner, seen, out, crashes, withdrawn>>
    BY DeliveryAssumption DEF Enqueue, IInv, Unrecorded, Actors
<1>2. PICK s \in {"queued", "done", "start"} : pc' = [pc EXCEPT ![Live] = s]
    BY DEF Enqueue, Move
<1>3. /\ s = "queued" => row' = NewRow
      /\ s # "queued" => row' = row
      /\ s # "start" => att' = att
      /\ s = "start" => att' = [att EXCEPT ![Live] = FreshAttempt(FALSE)]
      /\ failedWrites' \in Nat
    <2>1. pc'[Live] = s
        BY <1>1, <1>2 DEF TypeOK
    <2>2. CASE row' = NewRow /\ Failures(0) /\ Move(Live, "queued") /\ UNCHANGED att
        BY <1>1, <2>1, <2>2, FailuresTyped DEF Move, TypeOK
    <2>3. CASE /\ Throws(1)
               /\ IF intent.policy = "required"
                    THEN Move(Live, "done") /\ UNCHANGED att
                    ELSE Move(Live, "start") /\ att' = [att EXCEPT ![Live] = FreshAttempt(FALSE)]
        BY <1>1, <2>1, <2>3, ThrowsAdvances DEF Move, TypeOK
    <2> QED
        BY <2>2, <2>3 DEF Enqueue
<1>4. /\ pc' \in [Actors -> Stages] /\ pc'[Live] = s
      /\ \A r \in Recoverers : pc'[r] = "idle"
    <2>1. s \in Stages
        BY DEF Stages, Sending
    <2> QED
        BY <1>1, <1>2, <2>1 DEF TypeOK
<1>5. /\ att' \in [Actors -> Attempt]
      /\ s = "start" => att'[Live] = FreshAttempt(FALSE)
      /\ \A a \in Actors : att'[a].partial = "none" \/ att'[a] = att[a]
    BY <1>1, <1>3, FreshFacts DEF TypeOK
<1>6. row' \in Row /\ (s = "queued" => row'.status = "pending") /\ (s # "queued" => row' = row)
    <2>1. NewRow \in Row /\ NewRow.status = "pending"
        BY DeliveryAssumption DEF NewRow, Row
    <2> QED
        BY <1>1, <1>3, <2>1 DEF TypeOK
<1>7. TypeOK'
    BY <1>1, <1>3, <1>4, <1>5, <1>6 DEF TypeOK
<1>8. Stations'
    BY <1>4 DEF Stations, Sending
<1>9. Exclusive'
    <2>1. s = "start" => ~att'[Live].linked
        BY <1>5, FreshFacts
    <2> QED
        BY <1>4, <2>1 DEF Exclusive, Holding, Sending
<1>10. Unrecorded'
    BY <1>1, <1>4, <1>6, FreshFacts DEF Unrecorded, Sending
<1>11. Untouched'
    BY <1>1, <1>4, <1>6 DEF Untouched, Pending, NothingOut
<1>12. AtMostOnce' /\ Evident(row, out)'
    <2>1. \A p \in Parts : ~(out[p] > 0)
        BY <1>1 DEF NothingOut
    <2> QED
        BY <1>1, <2>1 DEF IInv, AtMostOnce, Evident
<1>13. ASSUME NEW a \in Actors PROVE Own(pc[a], att[a], row, out)'
    <2>1. ~intent.bestEffort => att'[a].partial = "none"
        BY <1>1, <1>5 DEF Own, SentIsKnown
    <2>2. SentIsKnown(pc[a], att[a], out)'
        BY <1>1, <2>1 DEF SentIsKnown, NothingOut
    <2>3. CASE a = Live
        <3>1. pc'[Live] \in Sending => s = "start" /\ att'[Live] = FreshAttempt(FALSE)
            BY <1>4, <1>5 DEF Sending
        <3>2. RowIsMarked(pc[a], att[a], row)'
            BY <2>3, <3>1, FreshFacts DEF RowIsMarked
        <3>3. StillToSend(pc[a], att[a], out)'
            <4>1. pc'[Live] \in OnPart => s = "start" /\ att'[Live].part = 1
                BY <1>4, <3>1, FreshFacts DEF OnPart, Sending
            <4>2. 1 \in Parts
                BY DeliveryAssumption DEF Parts
            <4> QED
                BY <1>1, <1>4, <2>3, <4>1, <4>2 DEF StillToSend, NothingOut
        <3> QED
            BY <2>2, <3>2, <3>3 DEF Own
    <2>4. CASE a # Live
        <3>1. pc'[a] = "idle"
            BY <1>4, <2>4 DEF Actors
        <3> QED
            BY <2>2, <3>1 DEF Own, StillToSend, RowIsMarked, OnPart, Sending
    <2> QED
        BY <2>3, <2>4
<1> QED
    BY <1>7, <1>8, <1>9, <1>10, <1>11, <1>12, <1>13 DEF IInv

\* An actor that does not work moves to another station, or claims the entry.
LEMMA StationStep ==
    ASSUME IInv, NEW a \in Actors, NEW s \in {"idle", "listed", "claimed", "done"},
           \/ a = Live /\ pc[a] = "queued" /\ s = "done"
           \/ a # Live /\ pc[a] \in {"idle", "listed"} /\ s # "done",
           row.status # "none", pc' = [pc EXCEPT ![a] = s],
           \/ owner' = owner /\ s # "claimed"
           \/ owner = Nobody /\ owner' = a /\ s = "claimed",
           UNCHANGED <<intent, row, att, seen, out, failedWrites, crashes, withdrawn>>
    PROVE  IInv'
<1>1. /\ Live \in Actors /\ Live \notin Recoverers /\ Recoverers \subseteq Actors
      /\ Nobody \notin Recoverers \cup {Live} /\ TypeOK
    BY DeliveryAssumption DEF Actors, IInv
<1>2. s \in Stages
    BY DEF Stages
<1>3. /\ pc' \in [Actors -> Stages] /\ pc'[a] = s
      /\ \A b \in Actors \ {a} : pc'[b] = pc[b]
    BY <1>1, <1>2 DEF TypeOK
<1>4. TypeOK'
    BY <1>1, <1>3 DEF TypeOK
<1>5. Stations'
    <2>1. s \in {"idle", "listed", "claimed"} => s \in Holding \cup {"idle", "listed"}
        BY DEF Holding
    <2> QED
        BY <1>1, <1>3, <2>1 DEF IInv, Stations, Actors
<1>6. Exclusive'
    <2>1. s \notin Sending /\ (s # "claimed" => s \notin Holding)
        BY DEF Sending, Holding
    <2>2. ASSUME NEW r \in Recoverers, pc'[r] \in Holding PROVE owner' = r
        <3>1. CASE r = a
            BY <1>1, <1>3, <2>1, <2>2, <3>1
        <3>2. CASE r # a
            <4>1. pc[r] \in Holding /\ owner = r
                BY <1>1, <1>3, <2>2, <3>2 DEF IInv, Exclusive
            <4> QED
                BY <1>1, <4>1
        <3> QED
            BY <3>1, <3>2
    <2>3. \A r \in Recoverers : pc'[r] \in Sending => att'[r].linked
        BY <1>1, <1>3, <2>1 DEF IInv, Exclusive
    <2>4. pc'[Live] \in Sending /\ att'[Live].linked => owner' = Live
        BY <1>1, <1>3, <2>1 DEF IInv, Exclusive
    <2> QED
        BY <2>2, <2>3, <2>4 DEF Exclusive
<1>7. Unrecorded'
    BY <1>1, <1>3 DEF IInv, Unrecorded, Sending
<1>8. Untouched'
    BY <1>1, <1>3 DEF IInv, Untouched, Pending, NothingOut
<1>9. AtMostOnce' /\ Evident(row, out)'
    BY DEF IInv, AtMostOnce, Evident
<1>10. ASSUME NEW b \in Actors PROVE Own(pc[b], att[b], row, out)'
    <2>1. Own(pc[b], att[b], row, out)
        BY DEF IInv
    <2>2. CASE b = a
        BY <1>3, <2>1, <2>2
           DEF Own, StillToSend, SentIsKnown, RowIsMarked, OnPart, Sending
    <2>3. CASE b # a
        <3>1. pc'[b] = pc[b]
            BY <1>3, <2>3
        <3> QED
            BY <2>1, <3>1 DEF Own, StillToSend, SentIsKnown, RowIsMarked, Explained
    <2> QED
        BY <2>2, <2>3
<1> QED
    BY <1>4, <1>5, <1>6, <1>7, <1>8, <1>9, <1>10 DEF IInv

\* The live sender claims its entry, unless a pass was faster.
LEMMA ClaimLivePreserves ==
    ASSUME IInv, ClaimLive
    PROVE  IInv'
<1>1. /\ Live \in Actors /\ Live \notin Recoverers /\ Recoverers \subseteq Actors
      /\ Nobody \notin Recoverers \cup {Live} /\ TypeOK
      /\ pc[Live] = "queued" /\ row.status # "none"
      /\ \A a \in Actors : Own(pc[a], att[a], row, out)
      /\ UNCHANGED <<intent, row, seen, out, failedWrites, crashes, withdrawn>>
    BY DeliveryAssumption DEF Actors, IInv, Unrecorded, ClaimLive
<1>2. CASE owner # Nobody
    <2>1. pc' = [pc EXCEPT ![Live] = "done"] /\ UNCHANGED <<owner, att>>
        BY <1>2 DEF ClaimLive, Move
    <2> QED
        BY <1>1, <2>1, StationStep
<1>3. CASE owner = Nobody
    <2>1. /\ owner' = Live /\ pc' = [pc EXCEPT ![Live] = "start"]
          /\ att' = [att EXCEPT ![Live] = FreshAttempt(TRUE)]
        BY <1>3 DEF ClaimLive, Move
    <2>2. Pending /\ NothingOut /\ \A r \in Recoverers : pc[r] \in {"idle", "listed"}
        BY <1>1, <1>3 DEF IInv, Untouched, Exclusive, Stations
    <2>3. "start" \in Stages /\ "start" \in Sending
        BY DEF Stages, Sending
    <2>4. /\ pc' \in [Actors -> Stages] /\ pc'[Live] = "start"
          /\ \A r \in Recoverers : pc'[r] \in {"idle", "listed"} /\ pc'[r] = pc[r]
        BY <1>1, <2>1, <2>2, <2>3 DEF TypeOK
    <2>5. /\ att' \in [Actors -> Attempt] /\ att'[Live] = FreshAttempt(TRUE)
          /\ \A r \in Recoverers : att'[r] = att[r]
        BY <1>1, <2>1, FreshFacts DEF TypeOK
    <2>6. TypeOK'
        BY <1>1, <2>1, <2>4, <2>5 DEF TypeOK
    <2>7. Stations'
        BY <2>3, <2>4 DEF Stations
    <2>8. Exclusive'
        BY <2>1, <2>4 DEF Exclusive, Holding, Sending
    <2>9. Unrecorded'
        BY <1>1, <2>4, <2>5, FreshFacts DEF Unrecorded
    <2>10. Untouched'
        BY <2>4 DEF Untouched
    <2>11. AtMostOnce' /\ Evident(row, out)'
        BY <1>1 DEF IInv, AtMostOnce, Evident
    <2>12. ASSUME NEW a \in Actors PROVE Own(pc[a], att[a], row, out)'
        <3>1. CASE a = Live
            <4>1. 1 \in Parts
                BY DeliveryAssumption DEF Parts
            <4>2. /\ att'[Live].part = 1 /\ att'[Live].pre = "none"
                  /\ att'[Live].partial = "none"
                BY <2>5, FreshFacts
            <4> QED
                BY <1>1, <2>2, <2>4, <3>1, <4>1, <4>2
                   DEF Own, StillToSend, SentIsKnown, RowIsMarked, NothingOut, Landed
        <3>2. CASE a # Live
            <4>1. a \in Recoverers
                BY <3>2 DEF Actors
            <4>2. ~intent.bestEffort => att[a].partial = "none"
                BY <1>1 DEF Own, SentIsKnown
            <4> QED
                BY <1>1, <2>4, <2>5, <4>1, <4>2
                   DEF Own, StillToSend, SentIsKnown, RowIsMarked, OnPart, Sending
        <3> QED
            BY <3>1, <3>2
    <2> QED
        BY <2>6, <2>7, <2>8, <2>9, <2>10, <2>11, <2>12 DEF IInv
<1> QED
    BY <1>2, <1>3

\* A pass lists the pending entries.
LEMMA BeginPassPreserves ==
    ASSUME IInv, NEW r \in Recoverers, BeginPass(r)
    PROVE  IInv'
<1>1. r \in Actors /\ r # Live
    BY DeliveryAssumption DEF Actors
<1> QED
    BY <1>1, StationStep DEF BeginPass, Pending, Move

\* It claims one, unless it is claimed.
LEMMA ClaimEntryPreserves ==
    ASSUME IInv, NEW r \in Recoverers, ClaimEntry(r)
    PROVE  IInv'
<1>1. r \in Actors /\ r # Live
    BY DeliveryAssumption DEF Actors
<1>2. row.status # "none"
    BY DEF ClaimEntry, IInv, Unrecorded
<1>3. CASE owner = Nobody
    <2>1. owner' = r /\ pc' = [pc EXCEPT ![r] = "claimed"]
        BY <1>3 DEF ClaimEntry, Move
    <2> QED
        BY <1>1, <1>2, <1>3, <2>1, StationStep DEF ClaimEntry
<1>4. CASE owner # Nobody
    <2>1. owner' = owner /\ pc' = [pc EXCEPT ![r] = "idle"]
        BY <1>4 DEF ClaimEntry, Move
    <2> QED
        BY <1>1, <1>2, <2>1, StationStep DEF ClaimEntry
<1> QED
    BY <1>3, <1>4

\* What a pass that holds the entry may rely on.
LEMMA HolderFacts ==
    ASSUME IInv, NEW r \in Recoverers, pc[r] \in Holding
    PROVE  /\ r \in Actors /\ r # Live /\ Works(r) /\ TypeOK
           /\ withdrawn \in BOOLEAN /\ failedWrites \in Nat
           /\ UpdateCost \in Nat /\ 1 + UpdateCost \in Nat
<1>1. r \in Actors /\ r # Live
    BY DeliveryAssumption DEF Actors
<1>2. UpdateCost \in Nat /\ 1 + UpdateCost \in Nat
    BY CostTyped
<1> QED
    BY <1>1, <1>2 DEF Works, IInv, TypeOK

\* It passes over an entry that is gone, refused or not due.
LEMMA PassOverPreserves ==
    ASSUME IInv, NEW r \in Recoverers, PassOver(r) \/ OutOfBudget(r)
    PROVE  IInv'
<1>1. /\ pc[r] \in Holding /\ Release(r)
      /\ UNCHANGED <<intent, seen, out, crashes, withdrawn>>
      /\ UNCHANGED <<row, failedWrites>> \/ Updated(DeadRow) \/ Throws(UpdateCost) \/ Throws(1)
    BY DEF PassOver, OutOfBudget, Holding
<1>2. /\ r \in Actors /\ Works(r) /\ TypeOK /\ withdrawn \in BOOLEAN /\ failedWrites \in Nat
      /\ UpdateCost \in Nat
    BY <1>1, HolderFacts
<1>3. Advances(row') /\ failedWrites' \in Nat
    <2>1. CASE UNCHANGED <<row, failedWrites>>
        BY <1>2, <2>1, RowsAdvance
    <2>2. CASE Updated(DeadRow)
        <3>1. Pending
            BY <2>2 DEF Updated
        <3> QED
            BY <1>2, <2>2, <3>1, RowsAdvance, UpdatedAdvances
    <2>3. CASE Throws(UpdateCost) \/ Throws(1)
        BY <1>2, <2>3, ThrowsAdvances
    <2> QED
        BY <1>1, <2>1, <2>2, <2>3
<1> QED
    BY <1>1, <1>2, <1>3, ReleaseAdvancing

\* A pass that holds the entry goes on to reserve or to reconcile.
LEMMA HolderGoesOn ==
    ASSUME IInv, NEW r \in Recoverers, pc[r] \in Holding, NEW s \in {"drain", "reserve"},
           s = "reserve" => NothingOut,
           pc' = [pc EXCEPT ![r] = s], seen' \in [Recoverers -> Row],
           UNCHANGED <<intent, row, owner, att, out, failedWrites, crashes, withdrawn>>
    PROVE  IInv'
<1>1. r \in Actors /\ r # Live /\ Works(r) /\ TypeOK
    BY HolderFacts
<1>2. s \notin Sending /\ s \notin OnPart /\ s \in Sending \cup {"drain", "reserve"}
    BY DEF Sending, OnPart
<1>3. att[r] \in Attempt /\ att' = [att EXCEPT ![r] = att[r]]
    BY <1>1 DEF TypeOK
<1>4. Own(s, att[r], row', out')
    <2>1. ~intent.bestEffort => att[r].partial = "none"
        BY <1>1 DEF IInv, Own, SentIsKnown
    <2> QED
        BY <1>2, <2>1 DEF Own, StillToSend, SentIsKnown, RowIsMarked, NothingOut
<1>5. AtMostOnce' /\ Evident(row', out')
    BY DEF IInv, AtMostOnce, Evident
<1>6. /\ row' \in Row /\ out' \in [Parts -> Nat] /\ failedWrites' \in Nat /\ crashes' \in Nat
      /\ withdrawn' \in BOOLEAN /\ ((row'.status = "none") <=> (row.status = "none"))
    BY <1>1 DEF TypeOK
<1> QED
    BY <1>1, <1>2, <1>3, <1>4, <1>5, <1>6, WorkerStep

\* The entry is to be replayed; without evidence nothing of it is on the platform.
LEMMA ProceedPreserves ==
    ASSUME IInv, NEW r \in Recoverers, Proceed(r)
    PROVE  IInv'
<1>1. pc[r] \in Holding /\ Pending /\ row \in Row /\ seen \in [Recoverers -> Row]
    BY DEF Proceed, Holding, IInv, TypeOK
<1>2. row.evidence = "none" => NothingOut
    <2>1. \A p \in Parts : out[p] \in {0, 1}
        BY DEF IInv, AtMostOnce
    <2> QED
        BY <1>1, <2>1 DEF IInv, Evident, Pending, NothingOut
<1>3. seen' \in [Recoverers -> Row]
    BY <1>1 DEF Proceed
<1>4. PICK s \in {"drain", "reserve"} :
         (s = "reserve" => row.evidence = "none") /\ pc' = [pc EXCEPT ![r] = s]
    BY DEF Proceed, Move
<1> QED
    BY <1>1, <1>2, <1>3, <1>4, HolderGoesOn DEF Proceed

\* The adapter says what became of the message; only what it never saw is sent again.
LEMMA ReconcilePreserves ==
    ASSUME IInv, NEW r \in Recoverers, Reconcile(r)
    PROVE  IInv'
<1>1. pc[r] \in Holding /\ UNCHANGED <<intent, seen, out, crashes, withdrawn>>
    BY DEF Reconcile, Holding
<1>2. /\ r \in Actors /\ Works(r) /\ TypeOK /\ withdrawn \in BOOLEAN /\ failedWrites \in Nat
      /\ UpdateCost \in Nat /\ 1 + UpdateCost \in Nat
    BY <1>1, HolderFacts
<1>3. PICK answer \in TrueAnswers :
         IF answer = "not_sent" /\ seen[r].evidence = "started"
           THEN Move(r, "reserve") /\ UNCHANGED <<row, owner, att, failedWrites>>
           ELSE /\ Release(r)
                /\ IF answer = "sent" THEN
                     \/ row' = AckedRow /\ Failures(0)
                     \/ Pending /\ row' = FailedRow /\ Failures(1)
                     \/ Throws(1 + UpdateCost)
                   ELSE IF answer = "unresolvedForNow" /\ ~Spent(seen[r]) THEN
                     Updated(FailedRow) \/ Throws(UpdateCost)
                   ELSE Updated(DeadRow) \/ Throws(UpdateCost)
    BY DEF Reconcile
<1>4. CASE answer = "not_sent" /\ seen[r].evidence = "started"
    <2>1. NothingOut
        BY <1>3, <1>4 DEF TrueAnswers, NothingOut
    <2>2. pc' = [pc EXCEPT ![r] = "reserve"] /\ UNCHANGED <<row, owner, att, failedWrites>>
        BY <1>3, <1>4 DEF Move
    <2>3. seen' \in [Recoverers -> Row]
        BY <1>1, <1>2 DEF TypeOK
    <2> QED
        BY <1>1, <2>1, <2>2, <2>3, HolderGoesOn
<1>5. CASE ~(answer = "not_sent" /\ seen[r].evidence = "started")
    <2>0. Release(r)
        BY <1>3, <1>5
    <2>1. \/ row' = AckedRow /\ Failures(0)
          \/ Pending /\ row' = FailedRow /\ Failures(1)
          \/ Throws(1 + UpdateCost) \/ Throws(UpdateCost)
          \/ Updated(FailedRow) \/ Updated(DeadRow)
        BY <1>3, <1>5
    <2>2. Advances(row') /\ failedWrites' \in Nat
        <3>1. CASE row' = AckedRow /\ Failures(0)
            BY <1>2, <3>1, RowsAdvance, FailuresTyped
        <3>2. CASE Pending /\ row' = FailedRow /\ Failures(1)
            BY <1>2, <3>2, RowsAdvance, FailuresTyped
        <3>3. CASE Throws(1 + UpdateCost) \/ Throws(UpdateCost)
            BY <1>2, <3>3, ThrowsAdvances
        <3>4. CASE Updated(FailedRow) \/ Updated(DeadRow)
            <4>1. Pending
                BY <3>4 DEF Updated
            <4> QED
                BY <1>2, <3>4, <4>1, RowsAdvance, UpdatedAdvances
        <3> QED
            BY <2>1, <3>1, <3>2, <3>3, <3>4
    <2> QED
        BY <1>1, <1>2, <2>0, <2>2, ReleaseAdvancing
<1> QED
    BY <1>4, <1>5

\* An attempt that is counted stays within the budget.
LEMMA ReservedRow ==
    ASSUME TypeOK, Pending, ~Spent(row)
    PROVE  Advances([row EXCEPT !.attempts = 1 + IF @ > row.retries THEN @ ELSE row.retries])
<1> DEFINE n == 1 + IF row.attempts > row.retries THEN row.attempts ELSE row.retries
           w == [row EXCEPT !.attempts = n]
<1>1. row \in Row /\ MaxRetries \in Nat
    BY DeliveryAssumption DEF TypeOK
<1>2. n \in 0 .. MaxRetries
    <2>1. row.attempts \in Nat /\ row.retries \in Nat
        BY <1>1 DEF Row
    <2> QED
        BY <1>1, <2>1 DEF Spent
<1> HIDE DEF n
<1>3. w \in Row /\ w.status = row.status /\ w.evidence = row.evidence
    BY <1>1, <1>2 DEF Row
<1>4. Advances(w)
    BY <1>3 DEF Advances, Pending
<1> QED
    BY <1>4 DEF n

\* The attempt is counted, then made, from the first part on.
LEMMA ReservePreserves ==
    ASSUME IInv, NEW r \in Recoverers, Reserve(r)
    PROVE  IInv'
<1>1. pc[r] = "reserve" /\ pc[r] \in Holding
      /\ UNCHANGED <<intent, seen, out, crashes, withdrawn>>
    BY DEF Reserve, Holding
<1>2. /\ r \in Actors /\ r # Live /\ Works(r) /\ TypeOK /\ withdrawn \in BOOLEAN
      /\ failedWrites \in Nat /\ UpdateCost \in Nat
    BY <1>1, HolderFacts
<1>3. NothingOut
    BY <1>1, <1>2 DEF IInv, Own, StillToSend, NothingOut
<1>4. CASE Spent(row) /\ Updated(DeadRow) /\ Release(r)
    <2>1. Pending
        BY <1>4 DEF Updated
    <2> QED
        BY <1>1, <1>2, <1>4, <2>1, RowsAdvance, UpdatedAdvances, ReleaseAdvancing
<1>5. CASE Throws(UpdateCost) /\ Release(r)
    BY <1>1, <1>2, <1>5, ThrowsAdvances, ReleaseAdvancing
<1> DEFINE w == [row EXCEPT !.attempts = 1 + IF @ > row.retries THEN @ ELSE row.retries]
           t == FreshAttempt(TRUE)
<1>6. CASE /\ ~Spent(row) /\ Updated(w)
           /\ Move(r, "start") /\ att' = [att EXCEPT ![r] = t] /\ UNCHANGED owner
    <2>1. Pending
        BY <1>6 DEF Updated
    <2>2. Advances(w)
        BY <1>2, <1>6, <2>1, ReservedRow
    <2> HIDE DEF w
    <2>3. Advances(row') /\ failedWrites' \in Nat
        BY <1>2, <1>6, <2>2, UpdatedAdvances
    <2>4. /\ t \in Attempt /\ t.linked /\ t.part = 1 /\ t.pre = "none" /\ t.partial = "none"
        BY FreshFacts
    <2> HIDE DEF t
    <2>5. 1 \in Parts
        BY DeliveryAssumption DEF Parts
    <2>6. Own("start", t, row', out')
        BY <1>1, <1>3, <2>4, <2>5
           DEF Own, StillToSend, SentIsKnown, RowIsMarked, NothingOut, Landed
    <2>7. AtMostOnce' /\ Evident(row', out') /\ row' \in Row
          /\ ((row'.status = "none") <=> (row.status = "none"))
        BY <1>1, <2>3, StaysEvident DEF IInv, AtMostOnce, Advances
    <2>8. /\ out' \in [Parts -> Nat] /\ seen' \in [Recoverers -> Row] /\ crashes' \in Nat
          /\ withdrawn' \in BOOLEAN
        BY <1>1, <1>2 DEF TypeOK
    <2>9. "start" \in Sending /\ pc' = [pc EXCEPT ![r] = "start"]
        BY <1>6 DEF Sending, Move
    <2> QED
        BY <1>1, <1>2, <1>6, <2>3, <2>4, <2>6, <2>7, <2>8, <2>9, WorkerStep
<1> QED
    BY <1>4, <1>5, <1>6 DEF Reserve

-----------------------------------------------------------------------------
(* The process dies, and the invariant holds.                              *)

\* A part whose request is on its way is not on the platform, and the row has evidence.
LEMMA InFlight ==
    ASSUME IInv, NEW a \in Actors, pc[a] = "io"
    PROVE  /\ att[a].part \in Parts /\ out[att[a].part] = 0
           /\ Pending => row.evidence # "none"
<1>1. pc[a] \in OnPart /\ pc[a] \notin Landed
    BY DEF OnPart, Landed
<1>2. /\ pc[a] \in Sending /\ att[a] \in Attempt /\ att[a].part \in Parts
      /\ out[att[a].part] = 0 /\ RowIsMarked(pc[a], att[a], row)
    BY <1>1, OnPartFacts
<1>3. Works(a) /\ (a # Live => att[a].linked)
    BY <1>2 DEF Works, Holding, IInv, Exclusive, Actors
<1>4. a = Live /\ ~att[a].linked => row.status = "none"
    BY <1>3, WorksAlone
<1>5. ASSUME Pending PROVE row.evidence # "none"
    <2>1. att[a].linked
        BY <1>3, <1>4, <1>5 DEF Pending
    <2>2. att[a].pre \in {"none", "marked", "acked"} /\ att[a].pre # "none"
        BY <1>2, <2>1 DEF RowIsMarked, Attempt
    <2> QED
        BY <1>2, <1>5, <2>1, <2>2 DEF RowIsMarked, Pending
<1> QED
    BY <1>2, <1>5

\* Claims and attempts are gone; the row and what the platform has stay.
LEMMA CrashPreserves ==
    ASSUME IInv, Crash
    PROVE  IInv'
<1> DEFINE t == FreshAttempt(FALSE)
<1>1. /\ Live \in Actors /\ Live \notin Recoverers /\ Recoverers \subseteq Actors
      /\ TypeOK /\ AtMostOnce /\ Evident(row, out)
      /\ t \in Attempt /\ t.partial = "none"
      /\ owner' = Nobody /\ UNCHANGED <<intent, row, seen, failedWrites, withdrawn>>
    BY DeliveryAssumption, FreshFacts DEF Actors, IInv, Crash
<1>2. att' = [a \in Actors |-> t]
    BY DEF Crash
<1> HIDE DEF t
<1>3. /\ pc' \in [Actors -> Stages]
      /\ pc'[Live] = (IF pc[Live] = "new" THEN "new" ELSE "done")
      /\ \A r \in Recoverers : pc'[r] = "idle"
    <2>1. "new" \in Stages /\ "done" \in Stages /\ "idle" \in Stages
        BY DEF Stages
    <2> QED
        BY <1>1, <2>1 DEF Crash
<1>4. \/ out' = out
      \/ \E a \in Actors : pc[a] = "io" /\ out' = [out EXCEPT ![att[a].part] = @ + 1]
    BY DEF Crash
<1>5. /\ out' \in [Parts -> Nat] /\ AtMostOnce' /\ Evident(row, out)'
      /\ pc[Live] = "new" => out' = out
    <2>1. CASE out' = out
        BY <1>1, <2>1 DEF TypeOK, AtMostOnce, Evident
    <2>2. ASSUME NEW a \in Actors, pc[a] = "io", out' = [out EXCEPT ![att[a].part] = @ + 1]
          PROVE  <1>5
        <3>1. att[a].part \in Parts /\ out[att[a].part] = 0 /\ (Pending => row.evidence # "none")
            BY <2>2, InFlight
        <3>2. out' \in [Parts -> Nat] /\ AtMostOnce'
            BY <1>1, <2>2, <3>1 DEF TypeOK, AtMostOnce
        <3>3. Evident(row, out)'
            BY <1>1, <3>1 DEF Evident, Pending
        <3>4. pc[Live] # "new"
            BY <2>2 DEF IInv, Unrecorded, Actors
        <3> QED
            BY <3>2, <3>3, <3>4
    <2> QED
        BY <1>4, <2>1, <2>2
<1>6. TypeOK'
    <2>1. crashes' \in Nat
        BY <1>1 DEF TypeOK, Crash
    <2> QED
        BY <1>1, <1>2, <1>3, <1>5, <2>1 DEF TypeOK
<1>7. Stations'
    BY <1>3 DEF Stations
<1>8. Exclusive'
    BY <1>3 DEF Exclusive, Holding, Sending
<1>9. Unrecorded'
    BY <1>1, <1>3, <1>5 DEF IInv, Unrecorded, NothingOut, Sending
<1>10. Untouched'
    BY <1>3 DEF Untouched
<1>11. ASSUME NEW a \in Actors PROVE Own(pc[a], att[a], row, out)'
    <2>1. pc'[a] \in {"new", "done", "idle"} /\ att'[a] = t
        BY <1>2, <1>3 DEF Actors
    <2> QED
        BY <1>1, <2>1 DEF Own, StillToSend, SentIsKnown, RowIsMarked, OnPart, Sending
<1> QED
    BY <1>5, <1>6, <1>7, <1>8, <1>9, <1>10, <1>11 DEF IInv

\* A message that nobody has accepted yet satisfies the invariant.
LEMMA InitEstablishes == Init => IInv
<1> SUFFICES ASSUME Init PROVE IInv
    OBVIOUS
<1>1. /\ Live \in Actors /\ Live \notin Recoverers /\ Nobody \in Actors \cup {Nobody}
      /\ NumParts \in Nat /\ MaxRetries \in Nat
    BY DeliveryAssumption DEF Actors
<1>2. NewRow \in Row /\ [NewRow EXCEPT !.status = "none"] \in Row
      /\ [NewRow EXCEPT !.status = "none"].status = "none"
    BY <1>1 DEF NewRow, Row
<1>3. /\ pc[Live] = "new" /\ \A r \in Recoverers : pc[r] = "idle"
      /\ pc \in [Actors -> Stages]
    <2>1. "new" \in Stages /\ "idle" \in Stages
        BY DEF Stages
    <2> QED
        BY <1>1, <2>1 DEF Init, Actors
<1>4. \A a \in Actors : att[a] = FreshAttempt(FALSE) /\ att[a].partial = "none"
    BY FreshFacts DEF Init
<1>5. TypeOK
    BY <1>1, <1>2, <1>3, FreshFacts DEF Init, TypeOK
<1>6. NothingOut /\ AtMostOnce /\ row.status = "none" /\ owner = Nobody
    BY <1>2 DEF Init, NothingOut, AtMostOnce
<1>7. Stations /\ Exclusive
    BY <1>3 DEF Stations, Exclusive, Holding, Sending
<1>8. Unrecorded /\ Untouched /\ Evident(row, out)
    BY <1>3, <1>6 DEF Unrecorded, Untouched, Evident, Sending
<1>9. ASSUME NEW a \in Actors PROVE Own(pc[a], att[a], row, out)
    <2>1. pc[a] \in {"new", "idle"}
        BY <1>3 DEF Actors
    <2> QED
        BY <1>4, <2>1 DEF Own, StillToSend, SentIsKnown, RowIsMarked, OnPart, Sending
<1> QED
    BY <1>5, <1>6, <1>7, <1>8, <1>9 DEF IInv

\* A step that changes nothing keeps it.
LEMMA StutterPreserves == IInv /\ UNCHANGED vars => IInv'
<1> SUFFICES ASSUME IInv, UNCHANGED vars PROVE IInv'
    OBVIOUS
<1>1. TypeOK' /\ Stations' /\ Exclusive' /\ Unrecorded' /\ Untouched'
    BY DEF vars, IInv, TypeOK, Stations, Exclusive, Unrecorded, Untouched, Pending, NothingOut
<1>2. AtMostOnce' /\ Evident(row, out)'
    BY DEF vars, IInv, AtMostOnce, Evident
<1>3. ASSUME NEW a \in Actors PROVE Own(pc[a], att[a], row, out)'
    BY DEF vars, IInv, Own, StillToSend, SentIsKnown, RowIsMarked, Explained
<1> QED
    BY <1>1, <1>2, <1>3 DEF IInv

\* Every step keeps the invariant.
LEMMA NextPreserves == IInv /\ [Next]_vars => IInv'
<1> SUFFICES ASSUME IInv, [Next]_vars PROVE IInv'
    OBVIOUS
<1>1. ASSUME NEW a \in Actors, AttemptStep(a) PROVE IInv'
    BY <1>1, PreSendPreserves, DispatchPreserves, AcceptsPreserves, RefusesPreserves,
       AnswerPreserves, ResultPreserves DEF AttemptStep
<1>2. CASE LiveStep
    BY <1>2, ClaimLivePreserves, LiveReturnedPreserves, LiveSettlesPreserves,
       LiveThrownPreserves, DirectEndsPreserves DEF LiveStep
<1>3. ASSUME NEW r \in Recoverers, BeginPass(r) \/ PassStep(r) PROVE IInv'
    BY <1>3, BeginPassPreserves, ClaimEntryPreserves, PassOverPreserves, ProceedPreserves,
       ReconcilePreserves, ReservePreserves, RecoveredReturnedPreserves,
       RecoveredSettlesPreserves, RecoveredThrownPreserves DEF PassStep
<1> QED
    BY <1>1, <1>2, <1>3, EnqueuePreserves, CrashPreserves, StutterPreserves DEF Next

\* The invariant holds in every behaviour.
LEMMA Invariance == Spec => []IInv
BY InitEstablishes, NextPreserves, PTL DEF Spec

\* Every variable keeps its type, and no more attempts are counted than the budget has
\* (reserveDeliveryAttempt), whatever fails and however often the process dies.
THEOREM BudgetHolds == Spec => []TypeOK
<1>1. IInv => TypeOK
    BY DEF IInv
<1> QED
    BY <1>1, Invariance, PTL

\* Whatever is on the platform, or on its way, has evidence in a row that is still
\* pending: recovery never replays it blindly (onPlatformSendStart, drainQueuedEntry).
THEOREM EvidenceIsWrittenFirst == Spec => []EvidenceBeforeSend
<1>1. IInv => EvidenceBeforeSend
    BY InFlight DEF EvidenceBeforeSend, IInv, Evident, Pending
<1> QED
    BY <1>1, Invariance, PTL

\* Two attempts that work on the row of the message are never under way together.
OneSender ==
    \A a, b \in Actors :
        (/\ pc[a] \in Sending /\ att[a].linked
         /\ pc[b] \in Sending /\ att[b].linked) => a = b

\* However many passes recur while the live sender is slow, whoever works on the
\* entry is alone with it (entriesInProgress, claimRecoveryEntry).
THEOREM AttemptsAreExclusive == Spec => []OneSender
<1>1. ASSUME IInv PROVE OneSender
    <2>1. ASSUME NEW a \in Actors, pc[a] \in Sending, att[a].linked
          PROVE  owner = a
        BY <1>1, <2>1 DEF IInv, Exclusive, Actors, Holding
    <2> QED
        BY <2>1 DEF OneSender
<1> QED
    BY <1>1, Invariance, PTL

-----------------------------------------------------------------------------
(* The refinement of Outbox.                                               *)

SendingNow == \E a \in Actors : pc[a] \in Sending

(* A step puts nothing on the platform, or one part whose request was on its way. *)
Puts(a) == pc[a] = "io" /\ out' = [out EXCEPT ![att[a].part] = @ + 1]

\* Only a request puts something on the platform.
LEMMA OutMoves == [Next]_vars => out' = out \/ \E a \in Actors : Puts(a)
<1>1. ASSUME NEW a \in Actors, AttemptStep(a) PROVE out' = out \/ Puts(a)
    BY <1>1 DEF AttemptStep, PreSend, Dispatch, PlatformAccepts, PlatformRefuses, Answer,
                Result, Puts
<1>2. LiveStep => out' = out
    BY DEF LiveStep, ClaimLive, LiveReturned, LiveSettles, LiveThrown, DirectEnds
<1>3. ASSUME NEW r \in Recoverers, BeginPass(r) \/ PassStep(r) PROVE out' = out
    BY <1>3 DEF BeginPass, PassStep, ClaimEntry, PassOver, OutOfBudget, Proceed, Reconcile,
                Reserve, RecoveredReturned, RecoveredSettles, RecoveredThrown
<1>4. Enqueue => out' = out
    BY DEF Enqueue
<1>5. Crash => out' = out \/ \E a \in Actors : Puts(a)
    BY DEF Crash, Puts
<1> QED
    BY <1>1, <1>2, <1>3, <1>4, <1>5 DEF Next, vars

\* No step makes the message new again.
LEMMA NeverNewAgain ==
    ASSUME IInv, [Next]_vars, pc'[Live] = "new"
    PROVE  pc[Live] = "new"
<1>1. pc \in [Actors -> Stages] /\ Live \in Actors
    BY DEF IInv, TypeOK, Actors
<1>2. ASSUME NEW a \in Actors, NEW s, Move(a, s), s # "new" PROVE pc[Live] = "new"
    BY <1>1, <1>2 DEF Move
<1>3. ASSUME NEW a \in Actors, Release(a) PROVE pc[Live] = "new"
    BY <1>2, <1>3 DEF Release
<1>4. ASSUME NEW a \in Actors, NEW t, NEW e, PartFails(a, t, e) PROVE pc[Live] = "new"
    BY <1>2, <1>4 DEF PartFails, Next1
<1>5. ASSUME NEW a \in Actors, AttemptStep(a) PROVE pc[Live] = "new"
    <2>1. CASE PreSend(a)
        BY <1>2, <1>4, <2>1 DEF PreSend
    <2>2. CASE Dispatch(a)
        BY <1>2, <1>4, <2>2 DEF Dispatch
    <2>3. CASE PlatformAccepts(a)
        BY <1>2, <2>3 DEF PlatformAccepts
    <2>4. CASE PlatformRefuses(a)
        BY <1>4, <2>4 DEF PlatformRefuses
    <2>5. CASE Answer(a)
        BY <1>2, <1>4, <2>5 DEF Answer
    <2>6. CASE Result(a)
        BY <1>2, <1>4, <2>6 DEF Result, Next1
    <2> QED
        BY <1>5, <2>1, <2>2, <2>3, <2>4, <2>5, <2>6 DEF AttemptStep
<1>6. CASE LiveStep
    BY <1>1, <1>2, <1>3, <1>6
       DEF LiveStep, ClaimLive, LiveReturned, LiveSettles, LiveThrown, DirectEnds
<1>7. ASSUME NEW r \in Recoverers, BeginPass(r) \/ PassStep(r) PROVE pc[Live] = "new"
    <2>1. r \in Actors
        BY DEF Actors
    <2> QED
        BY <1>2, <1>3, <1>7, <2>1
           DEF BeginPass, PassStep, ClaimEntry, PassOver, OutOfBudget, Proceed, Reconcile,
               Reserve, RecoveredReturned, RecoveredSettles, RecoveredThrown
<1>8. CASE Enqueue
    BY <1>8 DEF Enqueue
<1>9. CASE Crash
    BY <1>1, <1>9 DEF Crash
<1>10. CASE UNCHANGED vars
    BY <1>10 DEF vars
<1> QED
    BY <1>5, <1>6, <1>7, <1>8, <1>9, <1>10 DEF Next

\* Once the message is settled no step sends, or touches the row.
LEMMA SettledStays ==
    ASSUME IInv, [Next]_vars, ~SendingNow, ~Pending, pc[Live] # "new"
    PROVE  row' = row /\ out' = out /\ ~SendingNow'
<1>1. /\ pc \in [Actors -> Stages] /\ Live \in Actors /\ Recoverers \subseteq Actors
      /\ Live \notin Recoverers
    BY DeliveryAssumption DEF IInv, TypeOK, Actors
<1>2. \A a \in Actors : pc[a] \notin Sending
    BY DEF SendingNow
<1>3. \A s \in {"queued", "done", "idle", "listed", "claimed", "drain", "reserve"} :
          s \notin Sending
    BY DEF Sending
<1>4. ASSUME NEW a \in Actors, NEW s, s \notin Sending, Move(a, s) PROVE ~SendingNow'
    BY <1>1, <1>2, <1>4 DEF Move, SendingNow
<1>5. ASSUME NEW a \in Actors, Release(a) PROVE ~SendingNow'
    BY <1>3, <1>4, <1>5 DEF Release
<1>6. \A w, n : ~Updated(w) /\ (Throws(n) => row' = row)
    BY DEF Updated, Throws
<1>7. AckedRow = row
    BY DEF AckedRow
<1>8. ASSUME NEW a \in Actors PROVE ~AttemptStep(a)
    BY <1>2 DEF AttemptStep, PreSend, Dispatch, PlatformAccepts, PlatformRefuses, Answer,
                Result, Sending
<1>9. CASE LiveStep
    <2>1. CASE ClaimLive
        <3>1. pc[Live] = "queued" /\ owner # Nobody
            BY <2>1 DEF ClaimLive, IInv, Untouched
        <3> QED
            BY <1>1, <1>3, <1>4, <2>1, <3>1 DEF ClaimLive
    <2>2. ~(LiveReturned \/ LiveSettles \/ LiveThrown \/ DirectEnds)
        BY <1>1, <1>2 DEF LiveReturned, LiveSettles, LiveThrown, DirectEnds, Sending
    <2> QED
        BY <1>9, <2>1, <2>2 DEF LiveStep
<1>10. ASSUME NEW r \in Recoverers, BeginPass(r) \/ PassStep(r)
       PROVE  row' = row /\ out' = out /\ ~SendingNow'
    <2>1. r \in Actors
        BY <1>1
    <2>2. ~(BeginPass(r) \/ OutOfBudget(r) \/ Proceed(r))
        BY DEF BeginPass, OutOfBudget, Proceed
    <2>3. ~(RecoveredReturned(r) \/ RecoveredSettles(r) \/ RecoveredThrown(r))
        BY <1>2, <2>1 DEF RecoveredReturned, RecoveredSettles, RecoveredThrown, Sending
    <2>4. CASE ClaimEntry(r)
        BY <1>3, <1>4, <2>1, <2>4 DEF ClaimEntry
    <2>5. CASE PassOver(r)
        BY <1>5, <1>6, <2>1, <2>5 DEF PassOver
    <2>6. CASE Reconcile(r)
        BY <1>3, <1>4, <1>5, <1>6, <1>7, <2>1, <2>6 DEF Reconcile
    <2>7. CASE Reserve(r)
        BY <1>5, <1>6, <2>1, <2>7 DEF Reserve
    <2> QED
        BY <1>10, <2>2, <2>3, <2>4, <2>5, <2>6, <2>7 DEF PassStep
<1>11. ~Enqueue
    BY DEF Enqueue
<1>12. CASE Crash
    <2>1. \A a \in Actors : pc'[a] \in {"new", "done", "idle"} /\ pc[a] # "io"
        BY <1>2, <1>12 DEF Crash, Sending
    <2> QED
        BY <1>12, <2>1 DEF Crash, SendingNow, Sending
<1>13. CASE UNCHANGED vars
    BY <1>13 DEF vars, SendingNow
<1> QED
    BY <1>8, <1>9, <1>10, <1>11, <1>12, <1>13 DEF Next


(* What the state of the outbox says of the queue: idle is new, closed is settled. *)
OutboxMeans ==
    /\ OutboxState \in {"idle", "open", "closed"}
    /\ SendingNow \/ Pending => OutboxState = "open"
    /\ OutboxState = "idle" <=> pc[Live] = "new"
    /\ ~SendingNow /\ ~Pending /\ pc[Live] # "new" => OutboxState = "closed"

\* The mapping is meant as it is in every state of the invariant.
LEMMA OutboxFacts == IInv => OutboxMeans
<1> SUFFICES ASSUME IInv PROVE OutboxMeans
    OBVIOUS
<1>1. /\ row.status \in {"none", "pending", "failed", "gone"} /\ Live \in Actors
      /\ "new" \notin Sending
    BY DEF IInv, TypeOK, Row, Actors, Sending
<1>2. pc[Live] = "new" => row.status = "none" /\ ~SendingNow
    <2>1. ASSUME pc[Live] = "new" PROVE row.status = "none" /\ \A r \in Recoverers : pc[r] = "idle"
        BY <2>1 DEF IInv, Unrecorded
    <2> QED
        BY <1>1, <2>1 DEF SendingNow, Actors, Sending
<1>3. CASE SendingNow
    BY <1>2, <1>3 DEF OutboxMeans, OutboxState, SendingNow
<1>4. CASE ~SendingNow
    <2>1. CASE row.status = "pending"
        BY <1>2, <1>4, <2>1 DEF OutboxMeans, OutboxState, SendingNow, Pending
    <2>2. CASE row.status \in {"failed", "gone"}
        BY <1>2, <1>4, <2>2 DEF OutboxMeans, OutboxState, SendingNow, Pending
    <2>3. CASE row.status = "none"
        <3>1. pc[Live] \in {"new", "done"}
            BY <1>1, <1>4, <2>3 DEF IInv, Stations, Unrecorded, SendingNow
        <3> QED
            BY <1>4, <2>3, <3>1 DEF OutboxMeans, OutboxState, SendingNow, Pending
    <2> QED
        BY <1>1, <2>1, <2>2, <2>3
<1> QED
    BY <1>3, <1>4

\* Every step of the queue is a step of the outbox or changes nothing there.
LEMMA StepRefinesOutbox ==
    ASSUME IInv, [Next]_vars
    PROVE  [Abstract!Next]_(Abstract!vars)
<1>1. IInv'
    BY NextPreserves
<1>2. /\ OutboxState \in {"idle", "open", "closed"}
      /\ SendingNow \/ Pending => OutboxState = "open"
      /\ OutboxState = "idle" <=> pc[Live] = "new"
      /\ ~SendingNow /\ ~Pending /\ pc[Live] # "new" => OutboxState = "closed"
    BY OutboxFacts DEF OutboxMeans
<1>0. OutboxMeans'
    BY <1>1, OutboxFacts, PTL
<1>3. /\ OutboxState' \in {"idle", "open", "closed"}
      /\ OutboxState' = "idle" <=> pc'[Live] = "new"
      /\ ~SendingNow' /\ ~Pending' /\ pc'[Live] # "new" => OutboxState' = "closed"
    BY <1>0 DEF OutboxMeans
<1>4. pc'[Live] = "new" => pc[Live] = "new"
    BY NeverNewAgain
<1>5. ASSUME NEW a \in Actors, Puts(a) PROVE [Abstract!Next]_(Abstract!vars)
    <2> DEFINE p == att[a].part
    <2>1. p \in Parts /\ out[p] = 0 /\ out \in [Parts -> Nat]
        BY <1>5, InFlight DEF Puts, IInv, TypeOK
    <2>2. OutboxState = "open"
        BY <1>2, <1>5 DEF Puts, SendingNow, Sending
    <2>3. OutboxState' \in {"open", "closed"}
        BY <1>2, <1>3, <1>4, <2>2
    <2>4. out' = [out EXCEPT ![p] = 1]
        BY <1>5, <2>1 DEF Puts
    <2>5. Abstract!Put(p)
        BY <2>1, <2>2, <2>3, <2>4 DEF Abstract!Put
    <2> QED
        BY <2>1, <2>5 DEF Abstract!Next
<1>6. CASE out' = out
    <2>1. CASE OutboxState = "idle"
        BY <1>3, <1>6, <2>1 DEF Abstract!Next, Abstract!Accept, Abstract!Refuse, Abstract!vars
    <2>2. CASE OutboxState = "open"
        <3>1. OutboxState' # "idle"
            BY <1>2, <1>3, <1>4, <2>2
        <3> QED
            BY <1>3, <1>6, <2>2, <3>1 DEF Abstract!Next, Abstract!Close, Abstract!vars
    <2>3. CASE OutboxState = "closed"
        <3>1. ~SendingNow /\ ~Pending /\ pc[Live] # "new"
            BY <1>2, <2>3
        <3>2. row' = row /\ ~SendingNow'
            BY <3>1, SettledStays
        <3>3. ~Pending'
            BY <3>1, <3>2 DEF Pending
        <3> QED
            BY <1>3, <1>4, <1>6, <2>3, <3>1, <3>2, <3>3 DEF Abstract!vars
    <2> QED
        BY <1>2, <2>1, <2>2, <2>3
<1> QED
    BY <1>5, <1>6, OutMoves

\* In all attempts together, over any number of crashes and failing writes, each part
\* is put on the platform at most once, and nothing once the message is settled
\* (the claim of entriesInProgress, onPlatformSendStart, reconcileUnknownSend).
THEOREM QueueImplementsOutbox == Spec => ImplementsOutbox
<1>1. Init => Abstract!Init
    <2> SUFFICES ASSUME Init PROVE Abstract!Init
        OBVIOUS
    <2>1. IInv /\ pc[Live] = "new"
        BY InitEstablishes DEF Init, Actors
    <2>2. OutboxState = "idle"
        BY <2>1, OutboxFacts DEF OutboxMeans
    <2> QED
        BY <2>2 DEF Init, Abstract!Init
<1>2. IInv /\ [Next]_vars => [Abstract!Next]_(Abstract!vars)
    BY StepRefinesOutbox
<1> QED
    BY <1>1, <1>2, Invariance, PTL DEF Spec, ImplementsOutbox, Abstract!Spec


-----------------------------------------------------------------------------
(* What is acknowledged was delivered.                                     *)

(* An attempt without a failure so far has put every part it is past on the *)
(* platform.                                                                *)
Whole(s, t, o) ==
    /\ t.partial = "none" /\ s \in OnPart => \A p \in Parts : p < t.part => o[p] > 0
    /\ s \in Landed => o[t.part] > 0
    /\ t.partial = "none" /\ s \in {"returned", "settle"} => \A p \in Parts : o[p] > 0

CompleteInv ==
    /\ IInv /\ AckedWasDelivered
    /\ \A a \in Actors : Whole(pc[a], att[a], out)

(* One actor goes on with its attempt. *)
GoesOn(a) ==
    \E s, t : /\ pc' = [pc EXCEPT ![a] = s] /\ att' = [att EXCEPT ![a] = t]
              /\ Whole(s, t, out')

(* The platform keeps what it has, failures are counted, a withdrawal is final. *)
Grows ==
    /\ \A p \in Parts : out'[p] >= out[p]
    /\ failedWrites' >= failedWrites /\ (withdrawn => withdrawn')

(* The row is acknowledged for the whole message, or not without a reason. *)
AcksTheWhole ==
    row'.status = "gone" =>
        \/ row.status = "gone" \/ failedWrites' # 0 \/ withdrawn'
        \/ \A p \in Parts : out'[p] > 0

\* A step of one actor keeps the invariant.
LEMMA CompleteStep ==
    ASSUME CompleteInv, IInv', Grows, AcksTheWhole, NEW a \in Actors, GoesOn(a)
    PROVE  CompleteInv'
<1>1. /\ pc \in [Actors -> Stages] /\ att \in [Actors -> Attempt] /\ out \in [Parts -> Nat]
      /\ out' \in [Parts -> Nat] /\ failedWrites \in Nat /\ failedWrites' \in Nat
      /\ pc' \in [Actors -> Stages] /\ att' \in [Actors -> Attempt]
    BY DEF CompleteInv, IInv, TypeOK
<1>2. AckedWasDelivered'
    <2> SUFFICES ASSUME row'.status = "gone", failedWrites' = 0, ~withdrawn'
                 PROVE  \A p \in Parts : out'[p] > 0
        BY DEF AckedWasDelivered
    <2>1. failedWrites = 0 /\ ~withdrawn
        BY <1>1 DEF Grows
    <2>2. CASE row.status = "gone"
        BY <1>1, <2>1, <2>2 DEF CompleteInv, AckedWasDelivered, Grows
    <2> QED
        BY <2>2 DEF AcksTheWhole
<1>3. PICK s, t : /\ pc' = [pc EXCEPT ![a] = s] /\ att' = [att EXCEPT ![a] = t]
                  /\ Whole(s, t, out')
    BY DEF GoesOn
<1>4. ASSUME NEW b \in Actors PROVE Whole(pc[b], att[b], out)'
    <2>1. CASE b = a
        BY <1>1, <1>3, <2>1 DEF Whole
    <2>2. CASE b # a
        <3>1. pc'[b] = pc[b] /\ att'[b] = att[b] /\ Whole(pc[b], att[b], out)
            BY <1>1, <1>3, <2>2 DEF CompleteInv
        <3>2. \A p \in Parts : out[p] > 0 => out'[p] > 0
            BY <1>1 DEF Grows
        <3>3. pc[b] \in Landed => att[b].part \in Parts
            BY DEF CompleteInv, IInv, Own, StillToSend, Landed, OnPart
        <3> QED
            BY <3>1, <3>2, <3>3 DEF Whole
    <2> QED
        BY <2>1, <2>2
<1> QED
    BY <1>2, <1>4 DEF CompleteInv

\* Where no part is at hand nothing is claimed of the platform.
LEMMA GoesToRest ==
    ASSUME NEW a \in Actors, NEW s, s \notin OnPart \cup {"returned", "settle"}, NEW t,
           pc' = [pc EXCEPT ![a] = s], att' = [att EXCEPT ![a] = t]
    PROVE  GoesOn(a)
BY DEF GoesOn, Whole, OnPart, Landed

\* The end of an attempt.
LEMMA ReleaseGoesOn ==
    ASSUME NEW a \in Actors, Release(a)
    PROVE  GoesOn(a)
<1>1. PICK s \in {"done", "idle"} : pc' = [pc EXCEPT ![a] = s]
    BY DEF Release, Move
<1>2. att' = [att EXCEPT ![a] = FreshAttempt(FALSE)]
    BY DEF Release
<1>3. s \notin OnPart \cup {"returned", "settle"}
    BY DEF OnPart
<1> QED
    BY <1>1, <1>2, <1>3, GoesToRest

\* A part that fails is remembered, or ends the attempt.
LEMMA PartFailsGoesOn ==
    ASSUME NEW a \in Actors, NEW t \in Attempt, NEW err, PartFails(a, t, err)
    PROVE  GoesOn(a)
<1>1. CASE intent.bestEffort
    <2> DEFINE f == IF err \in {"proven", "rejected"} /\ t.partial # "unproven"
                      THEN "proven" ELSE "unproven"
               n == t.part + 1
               u == [t EXCEPT !.part = n, !.partial = f]
    <2>1. u.partial # "none"
        BY DEF Attempt
    <2>2. att' = [att EXCEPT ![a] = u] /\ pc' = [pc EXCEPT ![a] = Next1(a)]
        BY <1>1 DEF PartFails, Move
    <2>3. Next1(a) \notin Landed
        BY DEF Next1, Landed
    <2> HIDE DEF u
    <2> QED
        BY <2>1, <2>2, <2>3 DEF GoesOn, Whole
<1>2. CASE ~intent.bestEffort
    <2>1. "thrown" \notin OnPart \cup {"returned", "settle"}
        BY DEF OnPart
    <2> QED
        BY <1>2, <2>1, GoesToRest DEF PartFails, Move
<1> QED
    BY <1>1, <1>2


(* What a write leaves behind: more failures, or a row that is gone only where *)
(* it was gone before or where a write has failed.                             *)
Writes ==
    /\ failedWrites' >= failedWrites
    /\ row'.status = "gone" => row.status = "gone" \/ failedWrites' # 0

\* Failures are counted.
LEMMA FailuresGrow ==
    ASSUME TypeOK, NEW n \in Nat, Failures(n)
    PROVE  failedWrites' = failedWrites + n /\ failedWrites' >= failedWrites
           /\ (n > 0 => failedWrites' # 0)
BY DEF TypeOK, Failures

\* None of the updates of a pending row acknowledges it.
LEMMA UpdatesKeepStatus ==
    ASSUME TypeOK, Pending
    PROVE  /\ Marked("unknown").status # "gone" /\ Marked("started").status # "gone"
           /\ DeadRow.status # "gone" /\ FailedRow.status # "gone"
           /\ NotSentRow.status # "gone" /\ AfterSendRow.status # "gone"
           /\ \A b \in BOOLEAN : RecordedRow(b).status # "gone"
           /\ [row EXCEPT !.attempts = 1 + IF @ > row.retries THEN @ ELSE row.retries].status
                # "gone"
<1>1. row \in Row /\ row.status = "pending"
    BY DEF TypeOK, Pending
<1>2. /\ Marked("unknown").status # "gone" /\ Marked("started").status # "gone"
      /\ DeadRow.status # "gone"
    BY <1>1 DEF Marked, DeadRow, Row
<1>3. /\ FailedRow.status # "gone" /\ NotSentRow.status # "gone" /\ AfterSendRow.status # "gone"
    BY <1>1 DEF FailedRow, NotSentRow, AfterSendRow, Row
<1>4. \A b \in BOOLEAN : RecordedRow(b).status # "gone"
    BY <1>3 DEF RecordedRow
<1>5. [row EXCEPT !.attempts = 1 + IF @ > row.retries THEN @ ELSE row.retries].status # "gone"
    BY <1>1 DEF Row
<1> QED
    BY <1>2, <1>3, <1>4, <1>5

\* An update and a write that throws acknowledge nothing.
LEMMA QuietWrites ==
    ASSUME TypeOK
    PROVE  /\ \A w : w.status # "gone" /\ Updated(w) => Writes
           /\ \A n \in Nat : Throws(n) => Writes
           /\ UNCHANGED <<row, failedWrites>> => Writes
<1>1. ASSUME NEW w, w.status # "gone", Updated(w) PROVE Writes
    BY <1>1, FailuresGrow DEF Updated, Writes
<1>2. ASSUME NEW n \in Nat, Throws(n) PROVE Writes
    BY <1>2, FailuresGrow DEF Throws, Writes
<1>3. ASSUME UNCHANGED <<row, failedWrites>> PROVE Writes
    BY <1>3 DEF Writes, TypeOK
<1> QED
    BY <1>1, <1>2, <1>3

\* An acknowledgement in place of a write that failed.
LEMMA AckAfterFailure ==
    ASSUME TypeOK, row' = AckedRow, Failures(UpdateCost)
    PROVE  Writes
<1>1. CASE Pending
    <2>1. Failures(1)
        BY <1>1 DEF UpdateCost
    <2> QED
        BY <2>1, FailuresGrow DEF Writes
<1>2. CASE ~Pending
    <2>1. Failures(0) /\ row' = row
        BY <1>2 DEF UpdateCost, AckedRow
    <2> QED
        BY <2>1, FailuresGrow DEF Writes
<1> QED
    BY <1>1, <1>2

\* The evidence after a send.
LEMMA PersistsWrites ==
    ASSUME TypeOK, NEW o \in PostStates, Persists(o)
    PROVE  Writes
<1>1. CASE o = "marked"
    <2>1. Pending /\ Updated(Marked("unknown"))
        BY <1>1 DEF Persists, Updated
    <2> QED
        BY <2>1, UpdatesKeepStatus, QuietWrites
<1>2. CASE o = "acked"
    BY <1>2, AckAfterFailure DEF Persists
<1>3. CASE o = "failed"
    BY <1>3, UpdatesKeepStatus, FailuresGrow DEF Persists, Writes
<1>4. CASE o = "none"
    <2>1. 1 + 2 * UpdateCost \in Nat
        BY CostTyped
    <2> QED
        BY <1>4, <2>1, QuietWrites DEF Persists
<1> QED
    BY <1>1, <1>2, <1>3, <1>4 DEF PostStates

\* A step that writes so keeps the invariant.
LEMMA WritesComplete ==
    ASSUME CompleteInv, IInv', Writes, UNCHANGED out, withdrawn => withdrawn',
           NEW a \in Actors, GoesOn(a)
    PROVE  CompleteInv'
<1>1. Grows
    BY DEF Grows, Writes, CompleteInv, IInv, TypeOK
<1>2. AcksTheWhole
    BY DEF AcksTheWhole, Writes
<1> QED
    BY <1>1, <1>2, CompleteStep

\* An actor whose attempt stays as it is at another stage.
LEMMA StaysWhole ==
    ASSUME CompleteInv, NEW a \in Actors, NEW s,
           pc' = [pc EXCEPT ![a] = s], UNCHANGED out,
           \E t : /\ att' = [att EXCEPT ![a] = t]
                  /\ t.part = att[a].part /\ t.partial = att[a].partial,
           s \in OnPart => pc[a] \in OnPart,
           s \in Landed => pc[a] \in Landed,
           s \in {"returned", "settle"} => pc[a] \in {"returned", "settle"}
    PROVE  GoesOn(a)
<1>1. Whole(pc[a], att[a], out)
    BY DEF CompleteInv
<1>2. PICK t : /\ att' = [att EXCEPT ![a] = t]
               /\ t.part = att[a].part /\ t.partial = att[a].partial
    OBVIOUS
<1>3. Whole(s, t, out')
    BY <1>1, <1>2 DEF Whole
<1> QED
    BY <1>2, <1>3 DEF GoesOn


\* The steps of one attempt, before and with its requests.
LEMMA PreSendCompletes ==
    ASSUME CompleteInv, IInv', NEW a \in Actors, PreSend(a)
    PROVE  CompleteInv'
<1>1. /\ pc[a] = "start" /\ pc[a] \in OnPart /\ "dispatch" \notin Landed
      /\ "dispatch" \notin {"returned", "settle"}
      /\ UNCHANGED <<out, withdrawn>> /\ TypeOK /\ att[a] \in Attempt
      /\ att \in [Actors -> Attempt]
    BY DEF PreSend, OnPart, Landed, CompleteInv, IInv, TypeOK
<1>2. CASE att[a].linked /\ ~intent.exact /\ att[a].pre = "none"
    <2>1. CASE Updated(Marked("started")) /\ att' = [att EXCEPT ![a].pre = "marked"]
               /\ Move(a, "dispatch")
        <3>1. Writes
            BY <1>1, <2>1, UpdatesKeepStatus, QuietWrites DEF Updated
        <3>2. GoesOn(a)
            <4> DEFINE t == [att[a] EXCEPT !.pre = "marked"]
            <4>1. att' = [att EXCEPT ![a] = t] /\ t.part = att[a].part /\ t.partial = att[a].partial
                BY <1>1, <2>1 DEF Attempt
            <4> QED
                BY <1>1, <2>1, <4>1, StaysWhole DEF Move
        <3> QED
            BY <1>1, <3>1, <3>2, WritesComplete
    <2>2. CASE /\ row' = AckedRow /\ Failures(UpdateCost) /\ Move(a, "dispatch")
               /\ att' = [att EXCEPT ![a].pre = "acked",
                                     ![a].post = IF a = Live THEN "acked" ELSE @]
        <3>1. Writes
            BY <1>1, <2>2, AckAfterFailure
        <3>2. GoesOn(a)
            <4> DEFINE t == [att[a] EXCEPT !.pre = "acked",
                                           !.post = IF a = Live THEN "acked" ELSE @]
            <4>1. att' = [att EXCEPT ![a] = t] /\ t.part = att[a].part /\ t.partial = att[a].partial
                BY <1>1, <2>2 DEF Attempt
            <4> QED
                BY <1>1, <2>2, <4>1, StaysWhole DEF Move
        <3> QED
            BY <1>1, <3>1, <3>2, WritesComplete
    <2>3. CASE /\ Throws(UpdateCost + IF intent.policy = "best_effort" THEN 1 ELSE 0)
               /\ PartFails(a, att[a], "unproven")
        <3>1. UpdateCost + (IF intent.policy = "best_effort" THEN 1 ELSE 0) \in Nat
            BY CostTyped
        <3>2. Writes
            BY <1>1, <2>3, <3>1, QuietWrites
        <3> QED
            BY <1>1, <2>3, <3>2, PartFailsGoesOn, WritesComplete
    <2> QED
        BY <1>2, <2>1, <2>2, <2>3 DEF PreSend
<1>3. CASE ~(att[a].linked /\ ~intent.exact /\ att[a].pre = "none")
    <2>1. Move(a, "dispatch") /\ UNCHANGED <<row, att, failedWrites>>
        BY <1>3 DEF PreSend
    <2>2. Writes
        BY <1>1, <2>1, QuietWrites
    <2>3. att' = [att EXCEPT ![a] = att[a]]
        BY <1>1, <2>1
    <2>4. GoesOn(a)
        BY <1>1, <2>1, <2>3, StaysWhole DEF Move
    <2> QED
        BY <1>1, <2>2, <2>4, WritesComplete
<1> QED
    BY <1>2, <1>3

\* The last evidence before the request.
LEMMA DispatchCompletes ==
    ASSUME CompleteInv, IInv', NEW a \in Actors, Dispatch(a)
    PROVE  CompleteInv'
<1>1. /\ pc[a] = "dispatch" /\ pc[a] \in OnPart /\ "io" \notin Landed
      /\ "io" \notin {"returned", "settle"}
      /\ UNCHANGED <<out, withdrawn>> /\ TypeOK /\ att[a] \in Attempt
      /\ att \in [Actors -> Attempt]
    BY DEF Dispatch, OnPart, Landed, CompleteInv, IInv, TypeOK
<1>2. CASE Updated(Marked("started")) /\ att' = [att EXCEPT ![a].pre = "marked"] /\ Move(a, "io")
    <2>1. Writes
        BY <1>1, <1>2, UpdatesKeepStatus, QuietWrites DEF Updated
    <2>2. GoesOn(a)
        <3> DEFINE t == [att[a] EXCEPT !.pre = "marked"]
        <3>1. att' = [att EXCEPT ![a] = t] /\ t.part = att[a].part /\ t.partial = att[a].partial
            BY <1>1, <1>2 DEF Attempt
        <3> QED
            BY <1>1, <1>2, <3>1, StaysWhole DEF Move
    <2> QED
        BY <1>1, <2>1, <2>2, WritesComplete
<1>3. CASE Throws(UpdateCost) /\ PartFails(a, att[a], "unproven")
    <2>1. Writes
        BY <1>1, <1>3, CostTyped, QuietWrites
    <2> QED
        BY <1>1, <1>3, <2>1, PartFailsGoesOn, WritesComplete
<1>4. CASE Writes /\ Move(a, "io") /\ UNCHANGED att
    <2>1. att' = [att EXCEPT ![a] = att[a]]
        BY <1>1, <1>4
    <2>2. GoesOn(a)
        BY <1>1, <1>4, <2>1, StaysWhole DEF Move
    <2> QED
        BY <1>1, <1>4, <2>2, WritesComplete
<1>5. \/ Updated(Marked("started")) /\ att' = [att EXCEPT ![a].pre = "marked"] /\ Move(a, "io")
      \/ Throws(UpdateCost) /\ PartFails(a, att[a], "unproven")
      \/ Throws(UpdateCost) /\ Move(a, "io") /\ UNCHANGED att
      \/ UNCHANGED <<row, failedWrites>> /\ Move(a, "io") /\ UNCHANGED att
    BY DEF Dispatch
<1> QED
    BY <1>1, <1>2, <1>3, <1>4, <1>5, CostTyped, QuietWrites

\* The request, its refusal, its answer and its first result.
LEMMA PlatformCompletes ==
    ASSUME CompleteInv, IInv', NEW a \in Actors,
           PlatformAccepts(a) \/ PlatformRefuses(a) \/ Answer(a)
    PROVE  CompleteInv'
<1>1. /\ TypeOK /\ att[a] \in Attempt /\ att \in [Actors -> Attempt] /\ pc[a] \in OnPart
      /\ att[a].part \in Parts /\ UNCHANGED <<row, failedWrites, withdrawn>> /\ Writes
      /\ out \in [Parts -> Nat]
    <2>1. pc[a] \in OnPart /\ UNCHANGED <<row, failedWrites, withdrawn>>
        BY DEF PlatformAccepts, PlatformRefuses, Answer, OnPart
    <2> QED
        BY <2>1, QuietWrites DEF CompleteInv, IInv, TypeOK, Own, StillToSend
<1>2. CASE PlatformAccepts(a)
    <2>1. /\ out' = [out EXCEPT ![att[a].part] = @ + 1] /\ pc' = [pc EXCEPT ![a] = "accepted"]
          /\ att' = [att EXCEPT ![a] = att[a]]
        BY <1>1, <1>2 DEF PlatformAccepts, Move
    <2>2. \A p \in Parts : out'[p] >= out[p] /\ (out[p] > 0 => out'[p] > 0)
        BY <1>1, <2>1
    <2>3. out'[att[a].part] > 0
        BY <1>1, <2>1
    <2>4. Whole("accepted", att[a], out')
        <3>1. Whole(pc[a], att[a], out)
            BY DEF CompleteInv
        <3> QED
            BY <1>1, <2>2, <2>3, <3>1 DEF Whole
    <2>5. GoesOn(a)
        BY <2>1, <2>4 DEF GoesOn
    <2>6. Grows /\ AcksTheWhole
        BY <1>1, <2>2 DEF Grows, AcksTheWhole, TypeOK
    <2> QED
        BY <2>5, <2>6, CompleteStep
<1>3. CASE PlatformRefuses(a)
    <2>1. UNCHANGED out
        BY <1>3 DEF PlatformRefuses
    <2>2. GoesOn(a)
        BY <1>1, <1>3, PartFailsGoesOn DEF PlatformRefuses
    <2> QED
        BY <1>1, <2>1, <2>2, WritesComplete
<1>4. CASE Answer(a)
    <2>1. UNCHANGED out /\ pc[a] \in Landed
        BY <1>4 DEF Answer, Landed
    <2>2. GoesOn(a)
        <3>1. CASE Move(a, "result") /\ UNCHANGED att
            <4>1. att' = [att EXCEPT ![a] = att[a]]
                BY <1>1, <3>1
            <4> QED
                BY <1>1, <2>1, <3>1, <4>1, StaysWhole DEF Move
        <3>2. CASE \E err \in ErrorsOf(a) : PartFails(a, att[a], err)
            BY <1>1, <3>2, PartFailsGoesOn
        <3> QED
            BY <1>4, <3>1, <3>2 DEF Answer
    <2> QED
        BY <1>1, <2>1, <2>2, WritesComplete
<1> QED
    BY <1>2, <1>3, <1>4

\* A result: the part is past, and what is past is on the platform.
LEMMA ResultCompletes ==
    ASSUME CompleteInv, IInv', NEW a \in Actors, Result(a)
    PROVE  CompleteInv'
<1> DEFINE n == att[a].results + 1
           r == [att[a] EXCEPT !.results = n]
           m == r.part + 1
<1>1. /\ TypeOK /\ att[a] \in Attempt /\ att \in [Actors -> Attempt] /\ pc[a] = "result"
      /\ pc[a] \in OnPart /\ pc[a] \in Landed /\ att[a].part \in Parts
      /\ UNCHANGED <<out, withdrawn>>
    BY DEF Result, OnPart, Landed, CompleteInv, IInv, TypeOK, Own, StillToSend
<1>2. r \in Attempt /\ r.part = att[a].part /\ r.partial = att[a].partial
    <2>1. n \in Nat
        BY <1>1 DEF Attempt
    <2> HIDE DEF n
    <2> QED
        BY <1>1, <2>1 DEF Attempt
<1>3. \/ /\ Writes /\ PartFails(a, r, "unproven")
      \/ /\ Writes /\ pc' = [pc EXCEPT ![a] = Next1(a)]
         /\ \E post : att' = [att EXCEPT ![a] = [r EXCEPT !.part = m, !.post = post]]
    BY <1>1, PersistsWrites, QuietWrites DEF Result, Move
<1>4. CASE Writes /\ PartFails(a, r, "unproven")
    <2> HIDE DEF r
    <2> QED
        BY <1>1, <1>2, <1>4, PartFailsGoesOn, WritesComplete
<1>5. CASE /\ Writes /\ pc' = [pc EXCEPT ![a] = Next1(a)]
           /\ \E post : att' = [att EXCEPT ![a] = [r EXCEPT !.part = m, !.post = post]]
    <2>1. PICK post : att' = [att EXCEPT ![a] = [r EXCEPT !.part = m, !.post = post]]
        BY <1>5
    <2> DEFINE t == [r EXCEPT !.part = m, !.post = post]
    <2>2. t.part = m /\ t.partial = att[a].partial
        BY <1>2 DEF Attempt
    <2>3. Whole(pc[a], att[a], out)
        BY DEF CompleteInv
    <2>4. m = att[a].part + 1 /\ att[a].part \in Nat /\ NumParts \in Nat
        BY <1>1, <1>2, DeliveryAssumption DEF Parts
    <2> HIDE DEF r, m, t
    <2>5. ASSUME att[a].partial = "none", NEW p \in Parts, p < m \/ att[a].part >= NumParts
          PROVE  out[p] > 0
        <3>1. p \in Nat /\ p <= NumParts /\ (p < att[a].part \/ p = att[a].part)
            BY <2>4, <2>5 DEF Parts
        <3> QED
            BY <1>1, <2>3, <2>5, <3>1 DEF Whole
    <2>6. Whole(Next1(a), t, out')
        <3>1. Next1(a) \notin Landed /\ Next1(a) # "settle"
              /\ (Next1(a) = "returned" => att[a].part >= NumParts)
            BY <2>4 DEF Next1, Landed
        <3> QED
            BY <1>1, <2>2, <2>5, <3>1 DEF Whole
    <2>7. GoesOn(a)
        BY <1>5, <2>1, <2>6 DEF GoesOn, t
    <2> QED
        BY <1>1, <1>5, <2>7, WritesComplete
<1> QED
    BY <1>3, <1>4, <1>5


\* Once all parts are on the platform every write keeps the invariant.
LEMMA DeliveredCompletes ==
    ASSUME CompleteInv, IInv', \A p \in Parts : out[p] > 0, UNCHANGED out,
           failedWrites' >= failedWrites, withdrawn => withdrawn',
           NEW a \in Actors, GoesOn(a)
    PROVE  CompleteInv'
<1>1. Grows
    BY DEF Grows, CompleteInv, IInv, TypeOK
<1>2. AcksTheWhole
    BY DEF AcksTheWhole
<1> QED
    BY <1>1, <1>2, CompleteStep

\* An attempt that moves on, or returns, with nothing but its bookkeeping changed.
LEMMA EndsWhole ==
    ASSUME CompleteInv, NEW a \in Actors, pc[a] = "returned", UNCHANGED out,
           Move(a, "settle"), UNCHANGED att \/ \E o : att' = [att EXCEPT ![a].post = o]
    PROVE  GoesOn(a)
<1>1. att[a] \in Attempt /\ att \in [Actors -> Attempt]
    BY DEF CompleteInv, IInv, TypeOK
<1>2. \E t : /\ att' = [att EXCEPT ![a] = t]
             /\ t.part = att[a].part /\ t.partial = att[a].partial
    <2>1. CASE UNCHANGED att
        <3>1. att' = [att EXCEPT ![a] = att[a]]
            BY <1>1, <2>1
        <3> QED
            BY <3>1
    <2>2. ASSUME NEW o, att' = [att EXCEPT ![a].post = o] PROVE <1>2
        <3> DEFINE t == [att[a] EXCEPT !.post = o]
        <3>1. att' = [att EXCEPT ![a] = t] /\ t.part = att[a].part /\ t.partial = att[a].partial
            BY <1>1, <2>2 DEF Attempt
        <3> QED
            BY <3>1
    <2> QED
        BY <2>1, <2>2
<1>3. "settle" \notin OnPart /\ "settle" \notin Landed
    BY DEF OnPart, Landed
<1> QED
    BY <1>2, <1>3, StaysWhole DEF Move

\* The live batch came back.
LEMMA LiveReturnedCompletes ==
    ASSUME CompleteInv, IInv', LiveReturned
    PROVE  CompleteInv'
<1>1. /\ TypeOK /\ Live \in Actors /\ pc[Live] = "returned"
      /\ UNCHANGED <<out, withdrawn>>
    BY DEF LiveReturned, CompleteInv, IInv, Actors
<1>2. \/ Writes /\ Release(Live)
      \/ /\ Writes /\ Move(Live, "settle")
         /\ UNCHANGED att \/ \E o : att' = [att EXCEPT ![Live].post = o]
    BY <1>1, PersistsWrites, QuietWrites DEF LiveReturned
<1>3. Writes /\ GoesOn(Live)
    BY <1>1, <1>2, ReleaseGoesOn, EndsWhole
<1> QED
    BY <1>1, <1>3, WritesComplete

\* It is acknowledged when no part failed, and then every part is on the platform.
LEMMA LiveSettlesCompletes ==
    ASSUME CompleteInv, IInv', LiveSettles
    PROVE  CompleteInv'
<1>1. /\ TypeOK /\ Live \in Actors /\ pc[Live] = "settle" /\ Release(Live)
      /\ UNCHANGED <<out, withdrawn>> /\ UpdateCost \in Nat /\ 1 + UpdateCost \in Nat
    BY CostTyped DEF LiveSettles, CompleteInv, IInv, Actors
<1>2. GoesOn(Live)
    BY <1>1, ReleaseGoesOn
<1>3. att[Live].partial = "none" => \A p \in Parts : out[p] > 0
    BY <1>1 DEF CompleteInv, Whole
<1>4. \/ UNCHANGED <<row, failedWrites>>
      \/ Updated(RecordedRow(~Evidence(Live) /\ att[Live].partial = "proven"))
      \/ Throws(UpdateCost)
      \/ att[Live].partial = "none" /\ row' = AckedRow /\ Failures(0)
      \/ /\ Pending /\ Failures(1)
         /\ row' = IF Evidence(Live) \/ att[Live].pre # "none" THEN AfterSendRow ELSE FailedRow
      \/ Throws(1 + UpdateCost)
    BY DEF LiveSettles
<1>5. CASE UNCHANGED <<row, failedWrites>> \/ Throws(UpdateCost) \/ Throws(1 + UpdateCost)
    BY <1>1, <1>2, <1>5, QuietWrites, WritesComplete
<1>6. CASE Updated(RecordedRow(~Evidence(Live) /\ att[Live].partial = "proven"))
    <2>1. Writes
        BY <1>1, <1>6, UpdatesKeepStatus, QuietWrites DEF Updated
    <2> QED
        BY <1>1, <1>2, <2>1, WritesComplete
<1>7. CASE att[Live].partial = "none" /\ row' = AckedRow /\ Failures(0)
    <2>1. failedWrites' >= failedWrites
        BY <1>1, <1>7, FailuresGrow
    <2> QED
        BY <1>1, <1>2, <1>3, <1>7, <2>1, DeliveredCompletes
<1>8. CASE /\ Pending /\ Failures(1)
           /\ row' = IF Evidence(Live) \/ att[Live].pre # "none" THEN AfterSendRow ELSE FailedRow
    <2>1. Writes
        BY <1>1, <1>8, UpdatesKeepStatus, FailuresGrow DEF Writes
    <2> QED
        BY <1>1, <1>2, <2>1, WritesComplete
<1> QED
    BY <1>4, <1>5, <1>6, <1>7, <1>8

\* A rejected batch is acknowledged only as withdrawn.
LEMMA LiveThrownCompletes ==
    ASSUME CompleteInv, IInv', LiveThrown
    PROVE  CompleteInv'
<1>1. /\ TypeOK /\ Live \in Actors /\ pc[Live] = "thrown" /\ UNCHANGED out
      /\ UpdateCost \in Nat /\ 1 + UpdateCost \in Nat /\ att[Live] \in Attempt
      /\ att \in [Actors -> Attempt] /\ pc \in [Actors -> Stages]
    BY CostTyped DEF LiveThrown, CompleteInv, IInv, TypeOK, Actors
<1>2. (withdrawn => withdrawn')
    BY DEF LiveThrown
<1>3. GoesOn(Live)
    <2>1. CASE Release(Live)
        BY <1>1, <2>1, ReleaseGoesOn
    <2>2. ASSUME NEW o, att' = [att EXCEPT ![Live].post = o], UNCHANGED pc PROVE GoesOn(Live)
        <3>1. pc' = [pc EXCEPT ![Live] = "thrown"]
            BY <1>1, <2>2
        <3>2. att' = [att EXCEPT ![Live] = [att[Live] EXCEPT !.post = o]]
            BY <1>1, <2>2
        <3>3. "thrown" \notin OnPart \cup {"returned", "settle"}
            BY DEF OnPart
        <3> QED
            BY <1>1, <3>1, <3>2, <3>3, GoesToRest
    <2> QED
        BY <2>1, <2>2 DEF LiveThrown
<1>4. Writes \/ (withdrawn' /\ Failures(0))
    <2>1. Pending => /\ RecordedRow(att[Live].err \in {"proven", "rejected"}).status # "gone"
                     /\ AfterSendRow.status # "gone" /\ NotSentRow.status # "gone"
        BY <1>1, UpdatesKeepStatus DEF RecordedRow
    <2>2. (Pending /\ row' = NotSentRow /\ Failures(1)) => Writes
        BY <1>1, <2>1, FailuresGrow DEF Writes
    <2>3. ASSUME NEW w, Updated(w), Pending => w.status # "gone" PROVE Writes
        BY <1>1, <2>3, QuietWrites DEF Updated
    <2> QED
        BY <1>1, <2>1, <2>2, <2>3, QuietWrites, PersistsWrites DEF LiveThrown
<1>5. CASE Writes
    BY <1>1, <1>2, <1>3, <1>5, WritesComplete
<1>6. CASE withdrawn' /\ Failures(0)
    <2>1. Grows /\ AcksTheWhole
        BY <1>1, <1>6, FailuresGrow DEF Grows, AcksTheWhole, TypeOK
    <2> QED
        BY <1>1, <1>3, <2>1, CompleteStep
<1> QED
    BY <1>4, <1>5, <1>6

\* A send without a row ends.
LEMMA DirectEndsCompletes ==
    ASSUME CompleteInv, IInv', DirectEnds
    PROVE  CompleteInv'
<1>1. /\ TypeOK /\ Live \in Actors /\ Release(Live)
      /\ UNCHANGED <<row, failedWrites, out, withdrawn>>
    BY DEF DirectEnds, CompleteInv, IInv, Actors
<1> QED
    BY <1>1, QuietWrites, ReleaseGoesOn, WritesComplete


\* A recovered batch came back.
LEMMA RecoveredReturnedCompletes ==
    ASSUME CompleteInv, IInv', NEW r \in Recoverers, RecoveredReturned(r)
    PROVE  CompleteInv'
<1>1. /\ TypeOK /\ r \in Actors /\ pc[r] = "returned" /\ UNCHANGED <<out, withdrawn>>
      /\ UpdateCost \in Nat /\ att \in [Actors -> Attempt]
    BY CostTyped DEF RecoveredReturned, CompleteInv, IInv, TypeOK, Actors
<1>2. GoesOn(r)
    <2>1. CASE Release(r)
        BY <1>1, <2>1, ReleaseGoesOn
    <2>2. CASE /\ Move(r, "settle")
               /\ UNCHANGED att \/ \E o : att' = [att EXCEPT ![r].post = o]
        BY <1>1, <2>2, EndsWhole
    <2>3. CASE Move(r, "thrown") /\ att' = [att EXCEPT ![r].err = "unproven"]
        <3>1. "thrown" \notin OnPart \cup {"returned", "settle"}
            BY DEF OnPart
        <3>2. att' = [att EXCEPT ![r] = [att[r] EXCEPT !.err = "unproven"]]
            BY <1>1, <2>3
        <3> QED
            BY <1>1, <2>3, <3>1, <3>2, GoesToRest DEF Move
    <2> QED
        BY <2>1, <2>2, <2>3 DEF RecoveredReturned
<1>3. Writes
    <2>1. ASSUME Updated(RecordedRow(att[r].partial = "proven")) PROVE Writes
        <3>1. RecordedRow(att[r].partial = "proven").status # "gone"
            BY <1>1, <2>1, UpdatesKeepStatus DEF Updated, RecordedRow
        <3> QED
            BY <1>1, <2>1, <3>1, QuietWrites
    <2> QED
        BY <1>1, <2>1, PersistsWrites, QuietWrites DEF RecoveredReturned
<1> QED
    BY <1>1, <1>2, <1>3, WritesComplete

\* It is acknowledged when no part failed.
LEMMA RecoveredSettlesCompletes ==
    ASSUME CompleteInv, IInv', NEW r \in Recoverers, RecoveredSettles(r)
    PROVE  CompleteInv'
<1>1. /\ TypeOK /\ r \in Actors /\ pc[r] = "settle" /\ UNCHANGED <<out, withdrawn>>
      /\ UpdateCost \in Nat /\ 1 + UpdateCost \in Nat /\ att \in [Actors -> Attempt]
    BY CostTyped DEF RecoveredSettles, CompleteInv, IInv, TypeOK, Actors
<1>2. GoesOn(r)
    <2>1. CASE Release(r)
        BY <1>1, <2>1, ReleaseGoesOn
    <2>2. CASE Move(r, "thrown") /\ att' = [att EXCEPT ![r].err = "unproven"]
        <3>1. "thrown" \notin OnPart \cup {"returned", "settle"}
            BY DEF OnPart
        <3>2. att' = [att EXCEPT ![r] = [att[r] EXCEPT !.err = "unproven"]]
            BY <1>1, <2>2
        <3> QED
            BY <1>1, <2>2, <3>1, <3>2, GoesToRest DEF Move
    <2> QED
        BY <2>1, <2>2 DEF RecoveredSettles
<1>3. att[r].partial = "none" => \A p \in Parts : out[p] > 0
    BY <1>1 DEF CompleteInv, Whole
<1>4. Writes \/ (att[r].partial = "none" /\ Failures(0))
    <2>1. ASSUME Pending, Failures(1), row' = AfterSendRow \/ row' = FailedRow PROVE Writes
        BY <1>1, <2>1, UpdatesKeepStatus, FailuresGrow DEF Writes
    <2> QED
        BY <1>1, <2>1, QuietWrites DEF RecoveredSettles
<1>5. CASE Writes
    BY <1>1, <1>2, <1>5, WritesComplete
<1>6. CASE att[r].partial = "none" /\ Failures(0)
    BY <1>1, <1>2, <1>3, <1>6, FailuresGrow, DeliveredCompletes
<1> QED
    BY <1>4, <1>5, <1>6

\* A recovered batch was rejected.
LEMMA RecoveredThrownCompletes ==
    ASSUME CompleteInv, IInv', NEW r \in Recoverers, RecoveredThrown(r)
    PROVE  CompleteInv'
<1>1. /\ TypeOK /\ r \in Actors /\ Release(r) /\ UNCHANGED <<out, withdrawn>>
    BY DEF RecoveredThrown, CompleteInv, IInv, Actors
<1>2. Writes
    <2>1. ASSUME NEW w, Updated(w), Pending => w.status # "gone" PROVE Writes
        BY <1>1, <2>1, QuietWrites DEF Updated
    <2>2. Pending => /\ RecordedRow(att[r].err = "proven").status # "gone"
                     /\ DeadRow.status # "gone"
        BY <1>1, UpdatesKeepStatus DEF RecordedRow
    <2> QED
        BY <1>1, <2>1, <2>2, QuietWrites, PersistsWrites DEF RecoveredThrown
<1> QED
    BY <1>1, <1>2, ReleaseGoesOn, WritesComplete

\* Enqueueing and the claims before an attempt.
LEMMA StationCompletes ==
    ASSUME CompleteInv, IInv',
           \/ Enqueue \/ ClaimLive
           \/ \E r \in Recoverers : BeginPass(r) \/ ClaimEntry(r) \/ Proceed(r)
    PROVE  CompleteInv'
<1>1. /\ TypeOK /\ Live \in Actors /\ Recoverers \subseteq Actors
      /\ att \in [Actors -> Attempt] /\ NumParts \in Nat
    BY DeliveryAssumption DEF CompleteInv, IInv, TypeOK, Actors
<1>2. ASSUME NEW a \in Actors, UNCHANGED att,
             NEW s, s \notin OnPart \cup {"returned", "settle"}, Move(a, s)
      PROVE  GoesOn(a)
    <2>1. att' = [att EXCEPT ![a] = att[a]]
        BY <1>1, <1>2
    <2> QED
        BY <1>2, <2>1, GoesToRest DEF Move
<1>3. ASSUME NEW b \in BOOLEAN, Move(Live, "start"), att' = [att EXCEPT ![Live] = FreshAttempt(b)]
      PROVE  GoesOn(Live)
    <2>1. FreshAttempt(b).part = 1
        BY FreshFacts
    <2>2. Whole("start", FreshAttempt(b), out')
        BY <1>1, <2>1 DEF Whole, Parts, Landed
    <2> QED
        BY <1>3, <2>2 DEF GoesOn, Move
<1>4. \A s \in {"queued", "done", "idle", "listed", "claimed", "drain", "reserve"} :
          s \notin OnPart \cup {"returned", "settle"}
    BY DEF OnPart
<1>5. CASE Enqueue
    <2>1. GoesOn(Live)
        BY <1>1, <1>2, <1>3, <1>4, <1>5 DEF Enqueue
    <2>2. Writes
        <3>1. ASSUME row' = NewRow, Failures(0) PROVE Writes
            BY <1>1, <3>1, FailuresGrow DEF Writes, NewRow
        <3> QED
            BY <1>1, <1>5, <3>1, QuietWrites DEF Enqueue
    <2> QED
        BY <1>1, <1>5, <2>1, <2>2, WritesComplete DEF Enqueue
<1>6. CASE ClaimLive
    <2>1. GoesOn(Live)
        BY <1>1, <1>2, <1>3, <1>4, <1>6 DEF ClaimLive
    <2> QED
        BY <1>1, <1>6, <2>1, QuietWrites, WritesComplete DEF ClaimLive
<1>7. ASSUME NEW r \in Recoverers, BeginPass(r) \/ ClaimEntry(r) \/ Proceed(r)
      PROVE  CompleteInv'
    <2>1. UNCHANGED <<row, att, out, failedWrites, withdrawn>>
        BY <1>7 DEF BeginPass, ClaimEntry, Proceed
    <2>2. GoesOn(r)
        BY <1>1, <1>2, <1>4, <1>7, <2>1 DEF BeginPass, ClaimEntry, Proceed
    <2> QED
        BY <1>1, <2>1, <2>2, QuietWrites, WritesComplete
<1> QED
    BY <1>5, <1>6, <1>7


\* An entry that is passed over is kept or dead.
LEMMA PassOverCompletes ==
    ASSUME CompleteInv, IInv', NEW r \in Recoverers, PassOver(r) \/ OutOfBudget(r)
    PROVE  CompleteInv'
<1>1. /\ TypeOK /\ r \in Actors /\ Release(r) /\ UNCHANGED <<out, withdrawn>>
      /\ UpdateCost \in Nat
    BY CostTyped DEF PassOver, OutOfBudget, CompleteInv, IInv, Actors
<1>2. Writes
    <2>1. Updated(DeadRow) => Writes
        BY <1>1, UpdatesKeepStatus, QuietWrites DEF Updated
    <2> QED
        BY <1>1, <2>1, QuietWrites DEF PassOver, OutOfBudget
<1> QED
    BY <1>1, <1>2, ReleaseGoesOn, WritesComplete

\* The adapter's word that the message was sent is true.
LEMMA ReconcileCompletes ==
    ASSUME CompleteInv, IInv', NEW r \in Recoverers, Reconcile(r)
    PROVE  CompleteInv'
<1>1. /\ TypeOK /\ r \in Actors /\ UNCHANGED <<out, withdrawn>>
      /\ UpdateCost \in Nat /\ 1 + UpdateCost \in Nat /\ att \in [Actors -> Attempt]
    BY CostTyped DEF Reconcile, CompleteInv, IInv, TypeOK, Actors
<1>2. GoesOn(r)
    <2>1. CASE Release(r)
        BY <1>1, <2>1, ReleaseGoesOn
    <2>2. CASE Move(r, "reserve") /\ UNCHANGED att
        <3>1. "reserve" \notin OnPart \cup {"returned", "settle"}
            BY DEF OnPart
        <3>2. att' = [att EXCEPT ![r] = att[r]]
            BY <1>1, <2>2
        <3> QED
            BY <1>1, <2>2, <3>1, <3>2, GoesToRest DEF Move
    <2> QED
        BY <2>1, <2>2 DEF Reconcile
<1>3. Writes \/ ((\A p \in Parts : out[p] > 0) /\ failedWrites' >= failedWrites)
    <2>1. Updated(DeadRow) \/ Updated(FailedRow) => Writes
        BY <1>1, UpdatesKeepStatus, QuietWrites DEF Updated
    <2>2. Pending /\ row' = FailedRow /\ Failures(1) => Writes
        BY <1>1, UpdatesKeepStatus, FailuresGrow DEF Writes
    <2>3. Failures(0) => failedWrites' >= failedWrites
        BY <1>1, FailuresGrow
    <2>4. ("sent" \in TrueAnswers) => \A p \in Parts : out[p] > 0
        BY DEF TrueAnswers
    <2> QED
        BY <1>1, <2>1, <2>2, <2>3, <2>4, QuietWrites DEF Reconcile
<1> QED
    BY <1>1, <1>2, <1>3, WritesComplete, DeliveredCompletes

\* A new attempt starts with the first part.
LEMMA ReserveCompletes ==
    ASSUME CompleteInv, IInv', NEW r \in Recoverers, Reserve(r)
    PROVE  CompleteInv'
<1> DEFINE w == [row EXCEPT !.attempts = 1 + IF @ > row.retries THEN @ ELSE row.retries]
<1>1. /\ TypeOK /\ r \in Actors /\ UNCHANGED <<out, withdrawn>> /\ UpdateCost \in Nat
    BY CostTyped DEF Reserve, CompleteInv, IInv, Actors
<1>2. GoesOn(r)
    <2>1. CASE Release(r)
        BY <1>1, <2>1, ReleaseGoesOn
    <2>2. CASE Move(r, "start") /\ att' = [att EXCEPT ![r] = FreshAttempt(TRUE)]
        <3> DEFINE t == FreshAttempt(TRUE)
        <3>1. t.part = 1 /\ NumParts \in Nat
            BY DeliveryAssumption DEF FreshAttempt
        <3> HIDE DEF t
        <3>2. Whole("start", t, out')
            BY <3>1 DEF Whole, Parts, Landed
        <3> QED
            BY <2>2, <3>2 DEF GoesOn, Move, t
    <2> QED
        BY <2>1, <2>2 DEF Reserve
<1>3. Writes
    <2>1. Pending => w.status # "gone" /\ DeadRow.status # "gone"
        BY <1>1, UpdatesKeepStatus
    <2>2. \/ Updated(w) \/ Updated(DeadRow) \/ Throws(UpdateCost)
        BY DEF Reserve
    <2> HIDE DEF w
    <2> QED
        BY <1>1, <2>1, <2>2, QuietWrites DEF Updated
<1> QED
    BY <1>1, <1>2, <1>3, WritesComplete

\* A crash takes nothing back.
LEMMA CrashCompletes ==
    ASSUME CompleteInv, IInv', Crash
    PROVE  CompleteInv'
<1>1. /\ UNCHANGED <<row, failedWrites, withdrawn>> /\ out \in [Parts -> Nat]
    BY DEF Crash, CompleteInv, IInv, TypeOK
<1>2. \A p \in Parts : out[p] > 0 => out'[p] > 0
    <2>1. CASE out' = out
        BY <2>1
    <2>2. ASSUME NEW a \in Actors, out' = [out EXCEPT ![att[a].part] = @ + 1] PROVE <1>2
        BY <1>1, <2>2
    <2> QED
        BY <2>1, <2>2 DEF Crash
<1>3. AckedWasDelivered'
    BY <1>1, <1>2 DEF CompleteInv, AckedWasDelivered
<1>4. ASSUME NEW a \in Actors PROVE Whole(pc[a], att[a], out)'
    <2>1. pc'[a] \in {"new", "done", "idle"}
        BY DEF Crash
    <2> QED
        BY <2>1 DEF Whole, OnPart, Landed
<1> QED
    BY <1>3, <1>4 DEF CompleteInv

\* Every step keeps the invariant.
LEMMA NextCompletes == CompleteInv /\ [Next]_vars => CompleteInv'
<1> SUFFICES ASSUME CompleteInv, [Next]_vars PROVE CompleteInv'
    OBVIOUS
<1>1. IInv'
    BY NextPreserves DEF CompleteInv
<1>2. ASSUME NEW a \in Actors, AttemptStep(a) PROVE CompleteInv'
    BY <1>1, <1>2, PreSendCompletes, DispatchCompletes, PlatformCompletes, ResultCompletes
       DEF AttemptStep
<1>3. CASE LiveStep
    BY <1>1, <1>3, StationCompletes, LiveReturnedCompletes, LiveSettlesCompletes,
       LiveThrownCompletes, DirectEndsCompletes DEF LiveStep
<1>4. ASSUME NEW r \in Recoverers, BeginPass(r) \/ PassStep(r) PROVE CompleteInv'
    BY <1>1, <1>4, StationCompletes, PassOverCompletes, ReconcileCompletes, ReserveCompletes,
       RecoveredReturnedCompletes, RecoveredSettlesCompletes, RecoveredThrownCompletes
       DEF PassStep
<1>5. CASE UNCHANGED vars
    <2>1. AckedWasDelivered'
        BY <1>5 DEF vars, CompleteInv, AckedWasDelivered
    <2>2. ASSUME NEW a \in Actors PROVE Whole(pc[a], att[a], out)'
        BY <1>5 DEF vars, CompleteInv, Whole
    <2> QED
        BY <1>1, <2>1, <2>2 DEF CompleteInv
<1> QED
    BY <1>1, <1>2, <1>3, <1>4, <1>5, StationCompletes, CrashCompletes DEF Next

\* A row that was acknowledged, with no store write failing and not for an abort or a
\* rejection, belongs to a message that is on the platform completely (ackDelivery and
\* its callers).
THEOREM AcksAreDeserved == Spec => []AckedWasDelivered
<1>1. Init => CompleteInv
    <2> SUFFICES ASSUME Init PROVE CompleteInv
        OBVIOUS
    <2>1. row.status = "none"
        BY DEF Init, NewRow
    <2>2. \A a \in Actors : pc[a] \in {"new", "idle"}
        BY DEF Init
    <2> QED
        BY <2>1, <2>2, InitEstablishes
           DEF CompleteInv, AckedWasDelivered, Whole, OnPart, Landed
<1>2. CompleteInv => AckedWasDelivered
    BY DEF CompleteInv
<1> QED
    BY <1>1, <1>2, NextCompletes, PTL DEF Spec

===============================================================================
