---------------------------- MODULE DeliveryQueue ----------------------------
(***************************************************************************)
(* The life of one outbound message: the write-ahead row of the delivery   *)
(* queue (src/src/infra/outbound/delivery-queue-storage.ts over            *)
(* delivery-queue-sqlite.ts), the live sender that made it (deliver.ts)    *)
(* and the recovery and reconnect passes that take it over                 *)
(* (delivery-queue-recovery.ts), with failing store writes and crashes of  *)
(* the process.  Rows of different messages share nothing but the pacing   *)
(* of replays, so one row is enough.                                       *)
(*                                                                         *)
(* The platform and its adapter are external: a request is accepted or     *)
(* not, its answer arrives or not, and an adapter that can reconcile tells *)
(* the truth about the whole message or says that it cannot tell.          *)
(***************************************************************************)
EXTENDS Naturals

CONSTANTS
    NumParts,         \* payloads, or chunks of a payload, sent one by one
    MaxRetries,       \* resolveMaxRetries
    Recoverers,       \* passes that may run at a time: startup, one per drainKey
    Live,             \* the live sender
    Nobody,           \* no owner
    MaxFailedWrites,  \* bound: store writes that fail
    MaxCrashes        \* bound: crashes of the process

ASSUME DeliveryAssumption ==
    /\ NumParts \in Nat \ {0} /\ MaxRetries \in Nat \ {0}
    /\ MaxFailedWrites \in Nat /\ MaxCrashes \in Nat
    /\ Live \notin Recoverers /\ Nobody \notin Recoverers \cup {Live}

VARIABLES
    intent,        \* how the message is to be sent
    row,           \* the row of delivery_queue_entries
    owner,         \* entriesInProgress: who holds the claim of the entry
    pc,            \* where each actor stands
    att,           \* the attempt of each actor
    seen,          \* the entry each recoverer reloaded after its claim
    out,           \* how often the platform accepted each part
    failedWrites,  \* store writes that failed so far
    crashes,       \* crashes so far
    withdrawn      \* history: the row was acknowledged for an abort or a rejection

vars == <<intent, row, owner, pc, att, seen, out, failedWrites, crashes, withdrawn>>

-----------------------------------------------------------------------------
Parts == 1 .. NumParts
Actors == Recoverers \cup {Live}

Intents == [policy : {"required", "best_effort"},  \* queuePolicy
            exact : BOOLEAN,       \* requireUnknownSendReconciliation
            bestEffort : BOOLEAN,  \* a failing payload does not end the batch
            reconciles : BOOLEAN]  \* the adapter has reconcileUnknownSend

Row == [status : {"none", "pending", "failed", "gone"},
        evidence : {"none", "started", "unknown"},  \* recoveryState
        retries : Nat, attempts : 0 .. MaxRetries]

Errors == {"none", "proven", "unproven", "permanent", "rejected", "abort"}
Attempt == [part : Nat, linked : BOOLEAN,
            pre : {"none", "marked", "acked"},             \* queuedPreSendState
            post : {"none", "marked", "acked", "failed"},  \* queuedPostSendState
            results : Nat,
            partial : {"none", "proven", "unproven"},  \* what failed under bestEffort
            err : Errors]                              \* what was thrown

FreshAttempt(linked) ==
    [part |-> 1, linked |-> linked, pre |-> "none", post |-> "none",
     results |-> 0, partial |-> "none", err |-> "none"]

NewRow == [status |-> "pending", evidence |-> "none", retries |-> 0, attempts |-> 0]

Sending == {"start", "dispatch", "io", "accepted", "result", "returned", "settle", "thrown"}
Stages == Sending \cup {"new", "queued", "done", "idle", "listed", "claimed", "drain", "reserve"}

Init ==
    /\ intent \in {i \in Intents : i.exact => i.reconciles}
    /\ row = [NewRow EXCEPT !.status = "none"]
    /\ owner = Nobody
    /\ pc = [a \in Actors |-> IF a = Live THEN "new" ELSE "idle"]
    /\ att = [a \in Actors |-> FreshAttempt(FALSE)]
    /\ seen = [r \in Recoverers |-> NewRow]
    /\ out = [p \in Parts |-> 0]
    /\ failedWrites = 0 /\ crashes = 0 /\ withdrawn = FALSE

-----------------------------------------------------------------------------
(* The store.  A write works or throws; an update of a row that is no      *)
(* longer pending throws, a delete of one does nothing.                    *)

Pending == row.status = "pending"

Failures(n) ==
    /\ failedWrites + n <= MaxFailedWrites
    /\ failedWrites' = failedWrites + n

UpdateCost == IF Pending THEN 1 ELSE 0  \* failures an update needs in order to throw

Updated(r) == Pending /\ row' = r /\ Failures(0)
Throws(n) == row' = row /\ Failures(n)

AckedRow == IF Pending THEN [row EXCEPT !.status = "gone"] ELSE row
Marked(e) == [row EXCEPT !.evidence = e]
DeadRow == [row EXCEPT !.status = "failed"]

(* failDelivery, failDeliveryBeforePlatformSend, failDeliveryAfterPlatformSend. *)
FailedRow == [row EXCEPT !.retries = @ + 1]
NotSentRow == [row EXCEPT !.retries = @ + 1, !.evidence = "none"]
AfterSendRow == [row EXCEPT !.retries = @ + 1, !.evidence = "unknown"]

\* Mutant: a failure clears the evidence although nothing proves that no part went out.
RecordedRowUnproven(proven) == NotSentRow

RecordedRow(proven) == IF proven THEN NotSentRow ELSE FailedRow

(* persistQueuedPostSendState and persistRecoveredPostSendState: mark, else *)
(* acknowledge, else fail with the evidence; o = "none" when all three throw. *)
Persists(o) ==
    \/ o = "marked" /\ Updated(Marked("unknown"))
    \/ o = "acked" /\ row' = AckedRow /\ Failures(UpdateCost)
    \/ o = "failed" /\ Pending /\ row' = AfterSendRow /\ Failures(2)
    \/ o = "none" /\ Throws(1 + 2 * UpdateCost)

PostStates == {"none", "marked", "acked", "failed"}

-----------------------------------------------------------------------------
(* The live sender up to its first part.                                   *)

Move(a, stage) == pc' = [pc EXCEPT ![a] = stage]

(* stageAndEnqueueDelivery: a best-effort send goes on without a row. *)
Enqueue ==
    /\ pc[Live] = "new"
    /\ \/ row' = NewRow /\ Failures(0) /\ Move(Live, "queued") /\ UNCHANGED att
       \/ /\ Throws(1)
          /\ IF intent.policy = "required"
               THEN Move(Live, "done") /\ UNCHANGED att
               ELSE Move(Live, "start") /\ att' = [att EXCEPT ![Live] = FreshAttempt(FALSE)]
    /\ UNCHANGED <<intent, owner, seen, out, crashes, withdrawn>>

(* withActiveDeliveryClaim: a recovery pass may have been faster. *)
ClaimLive ==
    /\ pc[Live] = "queued"
    /\ IF owner = Nobody
         THEN /\ owner' = Live /\ Move(Live, "start")
              /\ att' = [att EXCEPT ![Live] = FreshAttempt(TRUE)]
         ELSE Move(Live, "done") /\ UNCHANGED <<owner, att>>
    /\ UNCHANGED <<intent, row, seen, out, failedWrites, crashes, withdrawn>>

\* Mutant: the claim outlives the attempt.
ReleaseKeepsClaim(a) ==
    /\ a # Live => pc[Live] # "queued"
    /\ owner' = owner
    /\ Move(a, IF a = Live THEN "done" ELSE "idle")
    /\ att' = [att EXCEPT ![a] = FreshAttempt(FALSE)]

(* The finally blocks: the claim goes with the attempt.  A pass that overtook *)
(* the live sender needs more turns of the microtask queue to come here than  *)
(* that sender needs to find the entry claimed.                               *)
Release(a) ==
    /\ a # Live => pc[Live] # "queued"
    /\ owner' = IF owner = a THEN Nobody ELSE owner
    /\ Move(a, IF a = Live THEN "done" ELSE "idle")
    /\ att' = [att EXCEPT ![a] = FreshAttempt(FALSE)]

-----------------------------------------------------------------------------
(* One attempt, of the live sender or of a recoverer.                      *)

Next1(a) == IF att[a].part < NumParts THEN "start" ELSE "returned"

\* Mutant: under bestEffort the failure of a part is not remembered.
PartFailsSilently(a, r, err) ==
    IF intent.bestEffort
      THEN Move(a, Next1(a)) /\ att' = [att EXCEPT ![a] = [r EXCEPT !.part = @ + 1]]
      ELSE Move(a, "thrown") /\ att' = [att EXCEPT ![a] = [r EXCEPT !.err = err]]

(* A part fails: under bestEffort the batch goes on, else the error ends it. *)
PartFails(a, r, err) ==
    IF intent.bestEffort
      THEN /\ Move(a, Next1(a))
           /\ att' = [att EXCEPT ![a] =
                [r EXCEPT !.part = @ + 1,
                          !.partial = IF err \in {"proven", "rejected"} /\ @ # "unproven"
                                        THEN "proven" ELSE "unproven"]]
      ELSE Move(a, "thrown") /\ att' = [att EXCEPT ![a] = [r EXCEPT !.err = err]]

(* onPlatformSendStart: the row says that a send begins before it does. *)
PreSend(a) ==
    /\ pc[a] = "start"
    /\ IF att[a].linked /\ ~intent.exact /\ att[a].pre = "none"
         THEN \/ /\ Updated(Marked("started"))
                 /\ att' = [att EXCEPT ![a].pre = "marked"] /\ Move(a, "dispatch")
              \/ /\ intent.policy = "best_effort"  \* the row goes before the message does
                 /\ row' = AckedRow /\ Failures(UpdateCost)
                 /\ att' = [att EXCEPT ![a].pre = "acked",
                                       ![a].post = IF a = Live THEN "acked" ELSE @]
                 /\ Move(a, "dispatch")
              \/ /\ Throws(UpdateCost + IF intent.policy = "best_effort" THEN 1 ELSE 0)
                 /\ PartFails(a, att[a], "unproven")
         ELSE Move(a, "dispatch") /\ UNCHANGED <<row, att, failedWrites>>
    /\ UNCHANGED <<intent, owner, seen, out, crashes, withdrawn>>

(* onPlatformSendDispatch, which only some adapters call; one that reconciles *)
(* exactly must.                                                             *)
Dispatch(a) ==
    /\ pc[a] = "dispatch"
    /\ IF att[a].linked /\ att[a].pre # "acked"
         THEN \/ /\ Updated(Marked("started"))
                 /\ att' = [att EXCEPT ![a].pre = "marked"] /\ Move(a, "io")
              \/ /\ Throws(UpdateCost)
                 /\ IF intent.exact THEN PartFails(a, att[a], "unproven")
                                    ELSE Move(a, "io") /\ UNCHANGED att
              \/ /\ ~intent.exact
                 /\ Move(a, "io") /\ UNCHANGED <<row, att, failedWrites>>
         ELSE Move(a, "io") /\ UNCHANGED <<row, att, failedWrites>>
    /\ UNCHANGED <<intent, owner, seen, out, crashes, withdrawn>>

ErrorsOf(a) == {"unproven", "permanent"} \cup IF a = Live THEN {"abort"} ELSE {}

(* The platform takes the part, or the request fails before that. *)
PlatformAccepts(a) ==
    /\ pc[a] = "io"
    /\ out' = [out EXCEPT ![att[a].part] = @ + 1]
    /\ Move(a, "accepted")
    /\ UNCHANGED <<intent, row, owner, att, seen, failedWrites, crashes, withdrawn>>

PlatformRefuses(a) ==
    /\ pc[a] = "io"
    /\ \E err \in ErrorsOf(a) \cup {"proven", "rejected"} : PartFails(a, att[a], err)
    /\ UNCHANGED <<intent, row, owner, seen, out, failedWrites, crashes, withdrawn>>

(* The answer comes, or it is lost. *)
Answer(a) ==
    /\ pc[a] = "accepted"
    /\ \/ Move(a, "result") /\ UNCHANGED att
       \/ \E err \in ErrorsOf(a) : PartFails(a, att[a], err)
    /\ UNCHANGED <<intent, row, owner, seen, out, failedWrites, crashes, withdrawn>>

(* onDeliveryResult: the first result is evidence that is written at once. *)
Result(a) ==
    /\ pc[a] = "result"
    /\ LET r == [att[a] EXCEPT !.results = @ + 1]
           Goes(post) == /\ att' = [att EXCEPT ![a] = [r EXCEPT !.part = @ + 1, !.post = post]]
                         /\ Move(a, Next1(a))
       IN  IF r.linked /\ r.post = "none"
             THEN \E o \in PostStates :
                    /\ Persists(o)
                    /\ IF o = "none" THEN PartFails(a, r, "unproven") ELSE Goes(o)
             ELSE Goes(r.post) /\ UNCHANGED <<row, failedWrites>>
    /\ UNCHANGED <<intent, owner, seen, out, crashes, withdrawn>>

-----------------------------------------------------------------------------
(* The end of an attempt.                                                  *)

Evidence(a) == att[a].results > 0

(* A live batch came back: write the evidence if that is still to be done. *)
LiveReturned ==
    /\ pc[Live] = "returned" /\ att[Live].linked
    /\ LET r == att[Live]
           whole == r.partial = "none"
       IN  IF r.post = "none" /\ (Evidence(Live) \/ (whole /\ r.pre = "marked"))
             THEN \E o \in PostStates :
                    /\ Persists(o)
                    /\ IF o = "none" THEN Release(Live)
                       ELSE /\ att' = [att EXCEPT ![Live].post = o]
                            /\ Move(Live, "settle") /\ UNCHANGED owner
             ELSE Move(Live, "settle") /\ UNCHANGED <<row, att, owner, failedWrites>>
    /\ UNCHANGED <<intent, seen, out, crashes, withdrawn>>

(* Then acknowledge it, or keep the row for another attempt. *)
LiveSettles ==
    /\ pc[Live] = "settle"
    /\ LET r == att[Live]
           proven == ~Evidence(Live) /\ r.partial = "proven"
       IN  \/ r.post \in {"acked", "failed"} /\ UNCHANGED <<row, failedWrites>>
           \/ /\ r.post \in {"none", "marked"} /\ r.partial # "none"
              /\ Updated(RecordedRow(proven)) \/ Throws(UpdateCost)
           \/ /\ r.post \in {"none", "marked"} /\ r.partial = "none"
              /\ \/ row' = AckedRow /\ Failures(0)
                 \/ /\ Pending /\ Failures(1)
                    /\ row' = IF Evidence(Live) \/ r.pre # "none"
                                THEN AfterSendRow ELSE FailedRow
                 \/ Throws(1 + UpdateCost)
    /\ Release(Live)
    /\ UNCHANGED <<intent, seen, out, crashes, withdrawn>>

(* A live batch was rejected: aborted, partly sent, removed before the send, *)
(* refused for good, or to be tried again.                                   *)
LiveThrown ==
    /\ pc[Live] = "thrown" /\ att[Live].linked
    /\ LET r == att[Live]
           retry == Updated(RecordedRow(r.err \in {"proven", "rejected"})) \/ Throws(UpdateCost)
       IN  IF r.err = "abort" THEN
                /\ Release(Live)
                /\ \/ row' = AckedRow /\ Failures(0) /\ withdrawn' = TRUE
                   \/ Throws(1) /\ UNCHANGED withdrawn
           ELSE IF Evidence(Live) THEN
                /\ UNCHANGED withdrawn
                /\ IF r.post = "none"
                     THEN \E o \in PostStates :
                            /\ Persists(o)
                            /\ IF o = "marked"
                                 THEN /\ att' = [att EXCEPT ![Live].post = o]
                                      /\ UNCHANGED <<pc, owner>>
                                 ELSE Release(Live)
                     ELSE /\ Release(Live)
                          /\ IF r.post = "marked"
                               THEN Updated(AfterSendRow) \/ Throws(UpdateCost)
                               ELSE UNCHANGED <<row, failedWrites>>
           ELSE /\ Release(Live)
                /\ IF r.pre = "acked" THEN UNCHANGED <<row, failedWrites, withdrawn>>
                   ELSE IF r.err = "rejected" THEN
                        \/ row' = AckedRow /\ Failures(0) /\ withdrawn' = TRUE
                        \/ Pending /\ row' = NotSentRow /\ Failures(1) /\ UNCHANGED withdrawn
                        \/ Throws(1 + UpdateCost) /\ UNCHANGED withdrawn
                   ELSE retry /\ UNCHANGED withdrawn
    /\ UNCHANGED <<intent, seen, out, crashes>>

(* A send without a row just ends. *)
DirectEnds ==
    /\ pc[Live] \in {"returned", "thrown"} /\ ~att[Live].linked
    /\ Release(Live)
    /\ UNCHANGED <<intent, row, seen, out, failedWrites, crashes, withdrawn>>

(* A recovered batch came back.  What throws here is caught as if the batch *)
(* had thrown it.                                                           *)
RecoveredReturned(r) ==
    /\ pc[r] = "returned"
    /\ LET a == att[r]
           Caught == /\ Move(r, "thrown") /\ UNCHANGED owner
                     /\ att' = [att EXCEPT ![r].err = "unproven"]
       IN  IF a.post = "none" /\ Evidence(r)
             THEN \E o \in PostStates :
                    /\ Persists(o)
                    /\ IF o = "none" THEN Caught
                       ELSE /\ att' = [att EXCEPT ![r].post = o] /\ UNCHANGED owner
                            /\ Move(r, "settle")
             ELSE IF a.partial # "none" /\ ~Evidence(r)
               THEN \/ Updated(RecordedRow(a.partial = "proven")) /\ Release(r)
                    \/ Throws(UpdateCost) /\ Caught
             ELSE Move(r, "settle") /\ UNCHANGED <<row, att, owner, failedWrites>>
    /\ UNCHANGED <<intent, seen, out, crashes, withdrawn>>

RecoveredSettles(r) ==
    /\ r # Live /\ pc[r] = "settle"
    /\ LET a == att[r]
       IN  IF a.partial # "none" \/ a.post \in {"acked", "failed"}
             THEN Release(r) /\ UNCHANGED <<row, failedWrites>>
             ELSE \/ row' = AckedRow /\ Failures(0) /\ Release(r)
                  \/ /\ Pending /\ Failures(1)
                     /\ row' = IF Evidence(r) THEN AfterSendRow ELSE FailedRow
                     /\ Release(r)
                  \/ /\ Throws(1 + UpdateCost)
                     /\ att' = [att EXCEPT ![r].err = "unproven"]
                     /\ Move(r, "thrown") /\ UNCHANGED owner
    /\ UNCHANGED <<intent, seen, out, crashes, withdrawn>>

(* A recovered batch was rejected. *)
RecoveredThrown(r) ==
    /\ r # Live /\ pc[r] = "thrown"
    /\ LET a == att[r]
       IN  IF Evidence(r) \/ a.post # "none"
             THEN IF a.post = "none" THEN \E o \in PostStates : Persists(o)
                                     ELSE UNCHANGED <<row, failedWrites>>
             ELSE IF ~Pending THEN UNCHANGED <<row, failedWrites>>
             ELSE \/ IF a.err \in {"rejected", "permanent"} THEN Updated(DeadRow)
                     ELSE Updated(RecordedRow(a.err = "proven"))
                  \/ Throws(1)
    /\ Release(r)
    /\ UNCHANGED <<intent, seen, out, crashes, withdrawn>>

-----------------------------------------------------------------------------
(* drainPendingDeliveries and recoverPendingDeliveries.                    *)

(* loadPendingDeliveries: what is pending now is on the list of the pass. *)
BeginPass(r) ==
    /\ pc[r] = "idle" /\ Pending
    /\ Move(r, "listed")
    /\ UNCHANGED <<intent, row, owner, att, seen, out, failedWrites, crashes, withdrawn>>

\* Mutant: a pass does not look whether the entry is claimed.
ClaimEntryRegardless(r) ==
    /\ pc[r] = "listed"
    /\ owner' = r /\ Move(r, "claimed")
    /\ UNCHANGED <<intent, row, att, seen, out, failedWrites, crashes, withdrawn>>

ClaimEntry(r) ==
    /\ pc[r] = "listed"
    /\ IF owner = Nobody THEN owner' = r /\ Move(r, "claimed")
                         ELSE Move(r, "idle") /\ UNCHANGED owner
    /\ UNCHANGED <<intent, row, att, seen, out, failedWrites, crashes, withdrawn>>

\* Mutant: one attempt too many.
SpentLate(entry) == (IF entry.attempts > entry.retries THEN entry.attempts ELSE entry.retries)
                      > MaxRetries

Spent(entry) == (IF entry.attempts > entry.retries THEN entry.attempts ELSE entry.retries)
                  >= MaxRetries

(* Re-read after the claim: an entry that is gone, no longer admitted, out of *)
(* budget, or not due yet is not replayed.                                    *)
PassOver(r) ==
    /\ pc[r] = "claimed"
    /\ \/ UNCHANGED <<row, failedWrites>>
       \/ Updated(DeadRow) \/ Throws(UpdateCost)  \* admission denied
    /\ Release(r)
    /\ UNCHANGED <<intent, seen, out, crashes, withdrawn>>

OutOfBudget(r) ==
    /\ pc[r] = "claimed" /\ Pending /\ Spent(row) /\ row.evidence = "none"
    /\ Updated(DeadRow) \/ Throws(1)
    /\ Release(r)
    /\ UNCHANGED <<intent, seen, out, crashes, withdrawn>>

Proceed(r) ==
    /\ pc[r] = "claimed" /\ Pending
    /\ ~(Spent(row) /\ row.evidence = "none")
    /\ seen' = [seen EXCEPT ![r] = row]
    /\ Move(r, IF row.evidence = "none" THEN "reserve" ELSE "drain")
    /\ UNCHANGED <<intent, row, owner, att, out, failedWrites, crashes, withdrawn>>

(* reconcileUnknownSend: what a truthful adapter can say about the message. *)
TrueAnswers ==
    IF ~intent.reconciles THEN {"unsupported"}
    ELSE {"unresolved", "unresolvedForNow"}
           \cup (IF \A p \in Parts : out[p] > 0 THEN {"sent"} ELSE {})
           \cup (IF \A p \in Parts : out[p] = 0 THEN {"not_sent"} ELSE {})

Reconcile(r) ==
    /\ pc[r] = "drain"
    /\ \E answer \in TrueAnswers :
         IF answer = "not_sent" /\ seen[r].evidence = "started"
           THEN Move(r, "reserve") /\ UNCHANGED <<row, owner, att, failedWrites>>
           ELSE /\ Release(r)
                /\ IF answer = "sent" THEN
                     \/ row' = AckedRow /\ Failures(0)
                     \/ Pending /\ row' = FailedRow /\ Failures(1)
                     \/ Throws(1 + UpdateCost)
                   ELSE IF answer = "unresolvedForNow" /\ ~Spent(seen[r]) THEN
                     Updated(FailedRow) \/ Throws(UpdateCost)
                   ELSE Updated(DeadRow) \/ Throws(UpdateCost)
    /\ UNCHANGED <<intent, seen, out, crashes, withdrawn>>

(* reserveDeliveryAttempt, in one transaction: the attempt is counted before *)
(* it is made.                                                               *)
Reserve(r) ==
    /\ pc[r] = "reserve"
    /\ \/ /\ ~Spent(row)
          /\ Updated([row EXCEPT !.attempts =
                        1 + IF @ > row.retries THEN @ ELSE row.retries])
          /\ Move(r, "start") /\ att' = [att EXCEPT ![r] = FreshAttempt(TRUE)]
          /\ UNCHANGED owner
       \/ Spent(row) /\ Updated(DeadRow) /\ Release(r)
       \/ Throws(UpdateCost) /\ Release(r)
    /\ UNCHANGED <<intent, seen, out, crashes, withdrawn>>

-----------------------------------------------------------------------------
(* The process dies: claims and attempts are gone, the row stays; a request *)
(* that was on its way may still arrive.                                    *)
Crash ==
    /\ crashes < MaxCrashes /\ crashes' = crashes + 1
    /\ owner' = Nobody
    /\ pc' = [a \in Actors |-> IF a = Live THEN (IF pc[a] = "new" THEN "new" ELSE "done")
                                           ELSE "idle"]
    /\ att' = [a \in Actors |-> FreshAttempt(FALSE)]
    /\ \/ UNCHANGED out
       \/ \E a \in Actors : pc[a] = "io" /\ out' = [out EXCEPT ![att[a].part] = @ + 1]
    /\ UNCHANGED <<intent, row, seen, failedWrites, withdrawn>>

AttemptStep(a) ==
    \/ PreSend(a) \/ Dispatch(a) \/ PlatformAccepts(a) \/ PlatformRefuses(a)
    \/ Answer(a) \/ Result(a)
LiveStep == ClaimLive \/ LiveReturned \/ LiveSettles \/ LiveThrown \/ DirectEnds
PassStep(r) ==
    \/ ClaimEntry(r) \/ PassOver(r) \/ OutOfBudget(r) \/ Proceed(r) \/ Reconcile(r)
    \/ Reserve(r) \/ RecoveredReturned(r) \/ RecoveredSettles(r) \/ RecoveredThrown(r)

Next ==
    \/ Enqueue \/ LiveStep \/ Crash
    \/ \E a \in Actors : AttemptStep(a)
    \/ \E r \in Recoverers : BeginPass(r) \/ PassStep(r)

Spec == Init /\ [][Next]_vars

(* Passes recur (a reconnect poll, the notice's own retries, the next start), *)
(* calls of an adapter end, and a back-off is over at last.                   *)
Fairness ==
    /\ WF_vars(LiveStep)
    /\ \A a \in Actors : WF_vars(AttemptStep(a))
    /\ \A r \in Recoverers :
         WF_vars(BeginPass(r)) /\ WF_vars(PassStep(r)) /\ SF_vars(Proceed(r) \/ OutOfBudget(r))

FairSpec == Spec /\ Fairness

-----------------------------------------------------------------------------
(* Properties.                                                             *)

\* Every variable keeps its type, and no more attempts are counted than the budget has.
TypeOK ==
    /\ intent \in Intents /\ row \in Row /\ owner \in Actors \cup {Nobody}
    /\ pc \in [Actors -> Stages] /\ att \in [Actors -> Attempt]
    /\ seen \in [Recoverers -> Row] /\ out \in [Parts -> Nat]
    /\ failedWrites \in Nat /\ crashes \in Nat /\ withdrawn \in BOOLEAN

\* Write-ahead evidence: whenever a part is on the platform, or its request is
\* on the way, a row that is still pending says that a send began.  Recovery
\* replays a row without evidence blindly.
EvidenceBeforeSend ==
    Pending /\ (\/ \E p \in Parts : out[p] > 0
                \/ \E a \in Actors : pc[a] = "io" /\ att[a].linked)
      => row.evidence # "none"

\* A row that was acknowledged, with no store write failing and not for an abort
\* or a rejection, belongs to a message that is on the platform completely.
AckedWasDelivered ==
    (row.status = "gone" /\ failedWrites = 0 /\ ~withdrawn)
      => \A p \in Parts : out[p] > 0

\* Every accepted message is settled: it is sent, or dead-lettered.
PendingIsResolved == Pending ~> ~Pending

(* The refinement of Outbox. *)
OutboxState ==
    IF \E a \in Actors : pc[a] \in Sending THEN "open"
    ELSE CASE row.status = "pending" -> "open"
           [] row.status \in {"failed", "gone"} -> "closed"
           [] OTHER -> IF pc[Live] = "done" THEN "closed" ELSE "idle"
Abstract == INSTANCE Outbox WITH state <- OutboxState

\* In all its attempts together the queue puts each part on the platform at most
\* once, and nothing at all once the message is settled.
ImplementsOutbox == Abstract!Spec
==============================================================================
