----------------------------- MODULE ManifestPool -----------------------------
(***************************************************************************)
(* The subsidized manifest pool at work.  Savers reserve capacity and      *)
(* queue an upsert; the pending-operation processor, one operation at a    *)
(* time, writes and deletes events and settles what was reserved; the      *)
(* maintenance job recovers reservations a crash left behind and rebuilds  *)
(* the counters from the events index.  Every step is one request to       *)
(* Meilisearch, and any actor may stop between two of them.                *)
(***************************************************************************)
EXTENDS ManifestReservations

CONSTANTS
  Earlier,     \* per address, the manifest stored and counted at the start, or None
  Rank,        \* created_at and id as one order: the higher event wins
  MaxAborts,   \* bound: runs of the processor or of the job that stop early
  Faults       \* "slow_handoff": a saver outlives the 60 s orphan lease;
               \* "unknown_enqueue": queueOps throws although Meilisearch
               \* accepted the task, as the wait does on shutdown

OpKey == Reservation \cup Deletion

ASSUME PoolAssumption ==
  /\ Rank \in [Event -> Nat]
  /\ Earlier \in [Ref -> Event \cup {None}]
  /\ \A x \in Ref : Earlier[x] # None => RefOf[Earlier[x]] = x
  /\ MaxAborts \in Nat
  /\ Faults \subseteq {"slow_handoff", "unknown_enqueue"}
  /\ Reservation \cap Deletion = {}
  /\ "unread" \notin Event \cup {None}

VARIABLES
  event,      \* the events index: per address, the stored manifest or None
  phase,      \* pendingOps: "none" before, "gone" after the operation exists
  ahead,      \* operations queued before this one (PENDING_OPS_SORT)
  requested,  \* deletions: snapshots asked for
  selected,   \* deletions: snapshots found stored when the operation started
  pc,         \* where each saver, the processor and the job stand
  cur,        \* the operation the processor is running
  todo,       \* counters the processor or the job has still to visit
  page,       \* the job's copy of the documents its recovery pass has still to
              \* visit: their states, "absent" for the others
  visit,      \* the reservation it is visiting
  seen,       \* the job's scan of the events index
  aborts

workVars == << pc, cur, todo, page, visit, seen, aborts >>
queueVars == << phase, ahead, requested, selected >>
vars == << counterVars, reservationVars, call, event, queueVars, workVars >>

Phase == {"none", "queued", "prepared", "event_applied", "events_deleted",
          "accounting_applied", "gone"}
SaverPc == {"idle", "global", "author", "mark", "rejectGlobal", "rejectAuthor",
            "cancel", "enqueue", "done", "crashed"}
UpsertPc == {"open", "check", "phase1", "apply", "applied", "phase2", "finalize",
             "settling", "phase3", "failed", "compensate", "cancel", "remove"}
DeletionPc == {"select", "begin", "delete", "deleted", "rebegin", "account",
               "accounted", "clear", "finish"}
JobPc == {"page", "inspect", "search", "calling", "terminal", "authors", "scan", "reconcile"}

PoolOK ==
  /\ event \in [Ref -> Event \cup {None}]
  /\ phase \in [OpKey -> Phase]
  /\ ahead \in [OpKey -> SUBSET OpKey]
  /\ requested \in [Deletion -> SUBSET Event]
  /\ selected \in [Deletion -> SUBSET Event]
  /\ pc \in [Actor -> SaverPc \cup UpsertPc \cup DeletionPc \cup JobPc]
  /\ cur \in OpKey \cup {None}
  /\ todo \in [{Processor, Job} -> SUBSET Scope]
  /\ page \in [Reservation -> Live \cup Terminal \cup {"absent"}]
  /\ visit \in Reservation \cup {None}
  /\ seen \in [Ref -> Event \cup {None, "unread"}]
  /\ aborts \in 0..MaxAborts

ShapeOK == TokensOK /\ ReservationsOK /\ PoolOK
TypeOK == AmountsOK /\ ShapeOK

NoPage == [r \in Reservation |-> "absent"]
Unread == [x \in Ref |-> "unread"]

Bytes(S) == SumFunctionOnSet(Size, S)
By(a, S) == {e \in S : AuthorOf[e] = a}
InScope(s, S) == IF s = Global THEN S ELSE By(s, S)

Init ==
  /\ LET counted(s) == InScope(s, {Earlier[x] : x \in Ref} \ {None})
     IN CountersInit([s \in Scope |-> Bytes(counted(s))],
                     [s \in Scope |-> Cardinality(counted(s))])
  /\ ReservationsInit
  /\ event = Earlier
  /\ phase = [o \in OpKey |-> "none"]
  /\ ahead = [o \in OpKey |-> {}]
  /\ requested = [d \in Deletion |-> {}]
  /\ selected = [d \in Deletion |-> {}]
  /\ pc = [a \in Actor |-> "idle"]
  /\ cur = None
  /\ todo = [a \in {Processor, Job} |-> {}]
  /\ page = NoPage
  /\ visit = None
  /\ seen = Unread
  /\ aborts = 0

-------------------------------------------------------------------------------
Goto(a, l) == pc' = [pc EXCEPT ![a] = l]
Patch(r, s) == state' = [state EXCEPT ![r] = s]
Reject(r) == doc' = [doc EXCEPT ![r].rejection = TRUE]
Invoke(a, c) == call' = [call EXCEPT ![a] = c]

Queued == {o \in OpKey : phase[o] \notin {"none", "gone"}}
Started == {o \in Queued : phase[o] # "queued"}
Enqueue(o) ==
  /\ phase' = [phase EXCEPT ![o] = "queued"]
  /\ ahead' = [ahead EXCEPT ![o] = Queued]

Stored == {event[x] : x \in Ref} \ {None}

\* Mutant: only one author of the events is charged.
TouchedOneAuthor(d) ==
  IF selected[d] = {} THEN {} ELSE {Global, AuthorOf[CHOOSE e \in selected[d] : TRUE]}

\* The counters a deletion charges.
Touched(d) == IF selected[d] = {} THEN {} ELSE {Global} \cup {AuthorOf[e] : e \in selected[d]}

\* Mutant: the comparison is turned round.
WinsReversed(current, e) == current # None /\ Rank[current] < Rank[e]

\* currentWins, and hasMoreRecent in the saver.
Wins(current, e) == current # None /\ Rank[current] > Rank[e]

-------------------------------------------------------------------------------
(***************************************************************************)
(* EventSaver.save of a manifest, from the reservation on.                 *)
(***************************************************************************)
\* Mutant: a smaller replacement reserves a negative amount.
ReservedUnclamped(e, old) ==
  [bytes |-> IF old = None THEN Size[e] ELSE Size[e] - Size[old],
   count |-> IF old = None THEN 1 ELSE 0]

\* reservedBytes and reservedCount
Reserved(e, old) ==
  [bytes |-> IF old = None THEN Size[e] ELSE AtLeastZero(Size[e] - Size[old]),
   count |-> IF old = None THEN 1 ELSE 0]

BeginSave(r, e) ==
  LET old == event[RefOf[e]] IN
  /\ pc[r] = "idle"
  /\ old # e /\ ~Wins(old, e)
  /\ Patch(r, "preparing")
  /\ doc' = [doc EXCEPT ![r] =
       [event |-> e, reserved |-> Reserved(e, old), rejection |-> FALSE]]
  /\ Goto(r, "global")
  /\ UNCHANGED << counterVars, delta, settled, call, event, queueVars,
                  cur, todo, page, visit, seen, aborts >>

Reserve(r, s, next, refused) ==
  LET amount == doc[r].reserved IN
  /\ IF Fits(s, amount.bytes)
     THEN ReserveCounter(s, r, amount.bytes, amount.count) /\ Goto(r, next)
     ELSE Goto(r, refused) /\ UNCHANGED counterVars
  /\ UNCHANGED << reservationVars, call, event, queueVars,
                  cur, todo, page, visit, seen, aborts >>

SaverGlobal(r) == pc[r] = "global" /\ Reserve(r, Global, "author", "rejectGlobal")
SaverAuthor(r) == pc[r] = "author" /\ Reserve(r, AuthorScope(r), "mark", "rejectAuthor")

SaverMark(r) ==
  /\ pc[r] = "mark"
  /\ Patch(r, "reserved")
  /\ Goto(r, "enqueue")
  /\ UNCHANGED << counterVars, doc, delta, settled, call, event, queueVars,
                  cur, todo, page, visit, seen, aborts >>

SaverReject(r) ==
  /\ pc[r] \in {"rejectGlobal", "rejectAuthor"}
  /\ Reject(r)
  /\ \/ pc[r] = "rejectGlobal" /\ Patch(r, "rejected") /\ Goto(r, "done") /\ call' = call
     \/ /\ pc[r] = "rejectAuthor"
        /\ Patch(r, "cancel_required")
        /\ Invoke(r, Cancel(r, "rejected"))
        /\ Goto(r, "cancel")
  /\ UNCHANGED << counterVars, delta, settled, event, queueVars,
                  cur, todo, page, visit, seen, aborts >>

SaverEnqueue(r) ==
  /\ pc[r] = "enqueue"
  /\ Enqueue(r)
  /\ \/ Goto(r, "done") /\ call' = call
     \/ /\ "unknown_enqueue" \in Faults
        /\ Invoke(r, Cancel(r, "cancelled"))
        /\ Goto(r, "cancel")
  /\ UNCHANGED << counterVars, reservationVars, event, requested, selected,
                  cur, todo, page, visit, seen, aborts >>

\* queueOps fails outright: the catch block cancels.
SaverEnqueueFails(r) ==
  /\ pc[r] = "enqueue"
  /\ Invoke(r, Cancel(r, "cancelled"))
  /\ Goto(r, "cancel")
  /\ UNCHANGED << counterVars, reservationVars, event, queueVars,
                  cur, todo, page, visit, seen, aborts >>

SaverCancelled(r) ==
  /\ pc[r] = "cancel" /\ Finished(r)
  /\ Goto(r, "done")
  /\ Invoke(r, NoCall)
  /\ UNCHANGED << counterVars, reservationVars, event, queueVars,
                  cur, todo, page, visit, seen, aborts >>

\* The process stops, or a request fails before save() knows the reservation.
SaverCrash(r) ==
  /\ pc[r] \notin {"idle", "done", "crashed"}
  /\ Goto(r, "crashed")
  /\ Invoke(r, NoCall)
  /\ UNCHANGED << counterVars, reservationVars, event, queueVars,
                  cur, todo, page, visit, seen, aborts >>

Saver(r) ==
  \/ \E e \in Event : BeginSave(r, e)
  \/ SaverGlobal(r) \/ SaverAuthor(r) \/ SaverMark(r) \/ SaverReject(r)
  \/ SaverEnqueue(r) \/ SaverEnqueueFails(r) \/ SaverCancelled(r)

-------------------------------------------------------------------------------
(***************************************************************************)
(* processPendingWorkflow.  Operations are taken in queue order, those     *)
(* already started first; a run that stops leaves its operation in the     *)
(* queue at the phase last persisted.                                      *)
(***************************************************************************)
At(l) == pc[Processor] = l
Then(l) == pc' = [pc EXCEPT ![Processor] = l]

Take(o) ==
  LET candidates == IF Started = {} THEN Queued ELSE Started IN
  /\ At("idle")
  /\ o \in candidates /\ ahead[o] \cap candidates = {}
  /\ cur' = o
  /\ Then(CASE o \in Reservation -> "open"
           [] o \in Deletion /\ phase[o] = "queued" -> "select"
           [] o \in Deletion /\ phase[o] = "prepared" -> "begin"
           [] o \in Deletion /\ phase[o] = "events_deleted" -> "rebegin"
           [] OTHER -> "clear")
  /\ todo' = [todo EXCEPT ![Processor] =
       IF o \in Deletion /\ phase[o] \in {"events_deleted", "accounting_applied"}
       THEN Touched(o) ELSE {}]
  /\ UNCHANGED << counterVars, reservationVars, call, event, queueVars, page, visit, seen, aborts >>

PatchOp(l, p, next) ==
  /\ At(l)
  /\ phase' = [phase EXCEPT ![cur] = p]
  /\ Then(next)
  /\ UNCHANGED << counterVars, reservationVars, call, event, ahead, requested, selected,
                  cur, todo, page, visit, seen, aborts >>

Remove ==
  /\ At("remove")
  /\ phase' = [phase EXCEPT ![cur] = "gone"]
  /\ ahead' = [o \in OpKey |-> IF o = cur THEN {} ELSE ahead[o] \ {cur}]
  /\ cur' = None
  /\ Then("idle")
  /\ UNCHANGED << counterVars, reservationVars, call, event, requested, selected,
                  todo, page, visit, seen, aborts >>

ProcessorAbort ==
  /\ pc[Processor] # "idle" /\ aborts < MaxAborts
  /\ aborts' = aborts + 1
  /\ cur' = None
  /\ Then("idle")
  /\ Invoke(Processor, NoCall)
  /\ todo' = [todo EXCEPT ![Processor] = {}]
  /\ UNCHANGED << counterVars, reservationVars, event, queueVars, page, visit, seen >>

-------------------------------------------------------------------------------
(***************************************************************************)
(* upsertManifestWithReservation.  The processor is the only writer of     *)
(* manifests in the events index, so what it reads there and the patch     *)
(* that follows are one step.                                              *)
(***************************************************************************)
Candidate == doc[cur].event
Current == event[RefOf[Candidate]]
Nothing == [bytes |-> 0, count |-> 0]
Actual == [bytes |-> Size[Candidate] - (IF Current = None THEN 0 ELSE Size[Current]),
           count |-> IF Current = None THEN 1 ELSE 0]
Exceeds == \/ Actual.bytes > doc[cur].reserved.bytes
           \/ Actual.count > doc[cur].reserved.count

UpsertOpen ==
  /\ At("open")
  /\ \/ /\ state[cur] \in Terminal \cup {"absent"}
        /\ Then("remove") /\ call' = call
     \/ /\ state[cur] = "cancel_required"
        /\ Invoke(Processor, Cancel(cur, "cancelled"))
        /\ Then("cancel")
     \/ /\ state[cur] \in Live \ {"cancel_required"}
        /\ Then(CASE phase[cur] = "queued" -> "check"
                 [] phase[cur] = "prepared" -> "apply"
                 [] phase[cur] = "event_applied" -> "finalize"
                 [] OTHER -> "remove")
        /\ call' = call
  /\ UNCHANGED << counterVars, reservationVars, event, queueVars,
                  cur, todo, page, visit, seen, aborts >>

\* markCancellationAndCancel
MarkAndCancel ==
  /\ Patch(cur, "cancel_required")
  /\ delta' = [delta EXCEPT ![cur] = Nothing]
  /\ Invoke(Processor, Cancel(cur, "cancelled"))
  /\ Then("cancel")

UpsertCheck ==
  /\ At("check")
  /\ \/ /\ Current = Candidate \/ Wins(Current, Candidate)
        /\ MarkAndCancel
        /\ doc' = doc
     \/ /\ Current # Candidate /\ ~Wins(Current, Candidate)
        /\ IF Exceeds
           THEN /\ Patch(cur, "cancel_required")
                /\ Invoke(Processor, Cancel(cur, "rejected"))
                /\ Then("cancel")
                /\ Reject(cur)
                /\ delta' = delta
           ELSE /\ Patch(cur, "prepared")
                /\ delta' = [delta EXCEPT ![cur] = Actual]
                /\ Then("phase1")
                /\ UNCHANGED << call, doc >>
  /\ UNCHANGED << counterVars, settled, event, queueVars,
                  cur, todo, page, visit, seen, aborts >>

UpsertApply ==
  /\ At("apply")
  /\ IF Wins(Current, Candidate)
     THEN MarkAndCancel /\ event' = event
     ELSE /\ event' = [event EXCEPT ![RefOf[Candidate]] = Candidate]
          /\ Then("applied")
          /\ UNCHANGED << state, delta, call >>
  /\ UNCHANGED << counterVars, doc, settled, queueVars, cur, todo, page, visit, seen, aborts >>

UpsertApplied ==
  /\ At("applied")
  /\ Patch(cur, "event_applied")
  /\ Then("phase2")
  /\ UNCHANGED << counterVars, doc, delta, settled, call, event, queueVars,
                  cur, todo, page, visit, seen, aborts >>

UpsertFinalize ==
  /\ At("finalize")
  /\ Invoke(Processor, Finalize(cur))
  /\ Then("settling")
  /\ UNCHANGED << counterVars, reservationVars, event, queueVars,
                  cur, todo, page, visit, seen, aborts >>

UpsertFinalized ==
  /\ At("settling") /\ Finished(Processor)
  /\ Then(IF call[Processor].step = "done" THEN "phase3" ELSE "failed")
  /\ Invoke(Processor, NoCall)
  /\ UNCHANGED << counterVars, reservationVars, event, queueVars,
                  cur, todo, page, visit, seen, aborts >>

\* recordManifestUpsertFailure: a run that lost the settlement to another one
\* ends here with "reservation token is missing".
UpsertFailed ==
  /\ At("failed")
  /\ Then(IF state[cur] \in Terminal \cup {"absent"} THEN "remove" ELSE "compensate")
  /\ UNCHANGED << counterVars, reservationVars, call, event, queueVars,
                  cur, todo, page, visit, seen, aborts >>

UpsertCompensate ==
  /\ At("compensate")
  /\ IF Current = Candidate /\ delta[cur] # None
     THEN /\ Patch(cur, "event_applied")
          /\ Invoke(Processor, Finalize(cur))
          /\ Then("cancel")
          /\ delta' = delta
     ELSE MarkAndCancel
  /\ UNCHANGED << counterVars, doc, settled, event, queueVars,
                  cur, todo, page, visit, seen, aborts >>

UpsertCancelled ==
  /\ At("cancel") /\ Finished(Processor)
  /\ Then("remove")
  /\ Invoke(Processor, NoCall)
  /\ UNCHANGED << counterVars, reservationVars, event, queueVars,
                  cur, todo, page, visit, seen, aborts >>

Upsert ==
  \/ UpsertOpen \/ UpsertCheck
  \/ PatchOp("phase1", "prepared", "apply")
  \/ UpsertApply \/ UpsertApplied
  \/ PatchOp("phase2", "event_applied", "finalize")
  \/ UpsertFinalize \/ UpsertFinalized
  \/ PatchOp("phase3", "accounting_applied", "remove")
  \/ UpsertFailed \/ UpsertCompensate \/ UpsertCancelled

-------------------------------------------------------------------------------
(***************************************************************************)
(* deleteEventsWithAccounting, queued by deletion requests and by the      *)
(* pruning of an over-full pool.  The operation's key is its effectKey.    *)
(***************************************************************************)
RequestDeletion(d, S) ==
  /\ phase[d] = "none"
  /\ S # {} /\ S \subseteq Stored
  /\ requested' = [requested EXCEPT ![d] = S]
  /\ Enqueue(d)
  /\ UNCHANGED << counterVars, reservationVars, call, event, selected, workVars >>

\* Mutant: every snapshot asked for is taken as stored.
DeletionSelectAll ==
  /\ At("select")
  /\ selected' = [selected EXCEPT ![cur] = requested[cur]]
  /\ phase' = [phase EXCEPT ![cur] = "prepared"]
  /\ Then("begin")
  /\ UNCHANGED << counterVars, reservationVars, call, event, ahead, requested,
                  cur, todo, page, visit, seen, aborts >>

DeletionSelect ==
  /\ At("select")
  /\ selected' = [selected EXCEPT ![cur] = {e \in requested[cur] : event[RefOf[e]] = e}]
  /\ phase' = [phase EXCEPT ![cur] = "prepared"]
  /\ Then("begin")
  /\ UNCHANGED << counterVars, reservationVars, call, event, ahead, requested,
                  cur, todo, page, visit, seen, aborts >>

\* beginManifestMutation is called before the deletion and again after it.
DeletionBegin(l, next) ==
  /\ At(l)
  /\ IF selected[cur] # {} THEN BeginManifestMutation(cur) ELSE UNCHANGED counterVars
  /\ Then(next)
  /\ todo' = [todo EXCEPT ![Processor] = IF next = "account" THEN Touched(cur) ELSE {}]
  /\ UNCHANGED << reservationVars, call, event, queueVars, cur, page, visit, seen, aborts >>

DeletionDelete ==
  /\ At("delete")
  /\ event' = [x \in Ref |-> IF event[x] \in selected[cur] THEN None ELSE event[x]]
  /\ Then("deleted")
  /\ UNCHANGED << counterVars, reservationVars, call, queueVars,
                  cur, todo, page, visit, seen, aborts >>

\* The global counter comes first.
Visit(a, s) ==
  /\ s \in todo[a] /\ (s = Global \/ Global \notin todo[a])
  /\ todo' = [todo EXCEPT ![a] = @ \ {s}]

DeletionAccount(s) ==
  LET charged == InScope(s, selected[cur]) IN
  /\ At("account")
  /\ Visit(Processor, s)
  /\ AccountOnce(s, cur, Bytes(charged), Cardinality(charged))
  /\ UNCHANGED << reservationVars, call, event, queueVars, pc, cur, page, visit, seen, aborts >>

DeletionAccounted ==
  /\ At("account") /\ todo[Processor] = {}
  /\ phase' = [phase EXCEPT ![cur] = "accounting_applied"]
  /\ todo' = [todo EXCEPT ![Processor] = Touched(cur)]
  /\ Then("clear")
  /\ UNCHANGED << counterVars, reservationVars, call, event, ahead, requested, selected,
                  cur, page, visit, seen, aborts >>

DeletionClear(s) ==
  /\ At("clear")
  /\ Visit(Processor, s)
  /\ ClearAccounting(s, cur)
  /\ UNCHANGED << reservationVars, call, event, queueVars, pc, cur, page, visit, seen, aborts >>

DeletionFinish ==
  /\ At("clear") /\ todo[Processor] = {}
  /\ IF selected[cur] # {} THEN FinishManifestMutation(cur) ELSE UNCHANGED counterVars
  /\ Then("remove")
  /\ UNCHANGED << reservationVars, call, event, queueVars, cur, todo, page, visit, seen, aborts >>

Delete ==
  \/ DeletionSelect
  \/ DeletionBegin("begin", "delete")
  \/ DeletionDelete
  \/ PatchOp("deleted", "events_deleted", "rebegin")
  \/ DeletionBegin("rebegin", "account")
  \/ \E s \in Scope : DeletionAccount(s) \/ DeletionClear(s)
  \/ DeletionAccounted \/ DeletionFinish

-------------------------------------------------------------------------------
(***************************************************************************)
(* The pruneManifestPool job: recoverManifestReservations over a page of   *)
(* documents, whose copies may be old by the time they are acted on, and   *)
(* reconcileManifestPoolUsage.                                             *)
(***************************************************************************)
JobAt(l) == pc[Job] = l
JobThen(l) == pc' = [pc EXCEPT ![Job] = l]

Visited(r) == page' = [page EXCEPT ![r] = "absent"] /\ visit' = None

\* A run begins with a recovery pass over every document.
JobStart ==
  /\ JobAt("idle")
  /\ JobThen("page")
  /\ page' = state
  /\ UNCHANGED << counterVars, reservationVars, call, event, queueVars,
                  cur, todo, visit, seen, aborts >>

JobVisit(r) ==
  /\ JobAt("page") /\ page[r] # "absent"
  /\ visit' = r
  /\ \/ /\ page[r] \in Terminal
        /\ JobThen("terminal") /\ call' = call
        /\ todo' = [todo EXCEPT ![Job] = {Global, AuthorScope(r)}]
     \/ /\ page[r] = "cancel_required"
        /\ Invoke(Job, Cancel(r, IF doc[r].rejection THEN "rejected" ELSE "cancelled"))
        /\ JobThen("calling") /\ todo' = todo
     \/ /\ page[r] \in Live \ {"cancel_required"}
        /\ JobThen("inspect") /\ UNCHANGED << call, todo >>
  /\ UNCHANGED << counterVars, reservationVars, event, queueVars, cur, page, seen, aborts >>

JobInspect ==
  LET r == visit
      applied == /\ page[r] \in {"prepared", "event_applied"}
                 /\ event[RefOf[doc[r].event]] = doc[r].event
  IN /\ JobAt("inspect")
     /\ IF applied THEN Invoke(Job, Finalize(r)) /\ JobThen("calling")
        ELSE JobThen("search") /\ call' = call
     /\ UNCHANGED << counterVars, reservationVars, event, queueVars,
                     cur, todo, page, visit, seen, aborts >>

\* A pending operation owns the reservation, or the orphan lease still runs.
JobSkip ==
  /\ JobAt("search")
  /\ JobThen("page") /\ Visited(visit)
  /\ UNCHANGED << counterVars, reservationVars, call, event, queueVars,
                  cur, todo, seen, aborts >>

InFlight(r) == pc[r] \notin {"done", "crashed"}

\* Mutant: the pending operation is not looked for.
JobCancelQueued ==
  /\ JobAt("search")
  /\ ~InFlight(visit)
  /\ Invoke(Job, Cancel(visit, "cancelled"))
  /\ JobThen("calling")
  /\ UNCHANGED << counterVars, reservationVars, event, queueVars,
                  cur, todo, page, visit, seen, aborts >>

\* Mutant: reservations that never got past "preparing" are left alone.
JobCancelReserved ==
  /\ JobAt("search")
  /\ visit \notin Queued /\ ~InFlight(visit) /\ page[visit] # "preparing"
  /\ Invoke(Job, Cancel(visit, "cancelled"))
  /\ JobThen("calling")
  /\ UNCHANGED << counterVars, reservationVars, event, queueVars,
                  cur, todo, page, visit, seen, aborts >>

JobCancelOrphan ==
  /\ JobAt("search")
  /\ visit \notin Queued
  /\ InFlight(visit) => "slow_handoff" \in Faults
  /\ Invoke(Job, Cancel(visit, "cancelled"))
  /\ JobThen("calling")
  /\ UNCHANGED << counterVars, reservationVars, event, queueVars,
                  cur, todo, page, visit, seen, aborts >>

\* An error ends the pass, and with it the run.
JobCalled ==
  /\ JobAt("calling") /\ Finished(Job)
  /\ Invoke(Job, NoCall)
  /\ IF call[Job].step = "done" THEN JobThen("page") /\ Visited(visit)
     ELSE JobThen("idle") /\ page' = NoPage /\ visit' = None
  /\ UNCHANGED << counterVars, reservationVars, event, queueVars, cur, todo, seen, aborts >>

\* Mutant: the commit token is cleared whatever the outcome was.
JobTerminalCommit(s) ==
  /\ JobAt("terminal")
  /\ Visit(Job, s)
  /\ ClearSettlement(s, visit, "commit")
  /\ UNCHANGED << reservationVars, call, event, queueVars, pc, cur, page, visit, seen, aborts >>

JobTerminal(s) ==
  /\ JobAt("terminal")
  /\ Visit(Job, s)
  /\ ClearSettlement(s, visit, IF page[visit] = "committed" THEN "commit" ELSE "cancel")
  /\ UNCHANGED << reservationVars, call, event, queueVars, pc, cur, page, visit, seen, aborts >>

\* Terminal documents are kept for 24 hours, longer than anything that still
\* refers to them.
JobRetire ==
  LET r == visit IN
  /\ JobAt("terminal") /\ todo[Job] = {}
  /\ \/ UNCHANGED reservationVars
     \/ /\ ~InFlight(r) /\ r \notin Queued /\ state[r] \in Terminal
        /\ Patch(r, "absent")
        /\ doc' = [doc EXCEPT ![r] = None]
        /\ delta' = [delta EXCEPT ![r] = None]
        /\ settled' = [settled EXCEPT ![r] = {}]
  /\ JobThen("page") /\ Visited(r)
  /\ UNCHANGED << counterVars, call, event, queueVars, cur, todo, seen, aborts >>

\* The pass is over and no reconciliation is due, or it is deferred.
JobFinish ==
  /\ JobAt("page") /\ page = NoPage
  /\ JobThen("idle")
  /\ UNCHANGED << counterVars, reservationVars, call, event, queueVars,
                  cur, todo, page, visit, seen, aborts >>

\* getManifestPoolUsage reads the global counter and then the authors'.  With
\* active tokens in the global one the reconciliation is deferred.
JobSnapshot ==
  /\ \/ /\ JobAt("page") /\ page = NoPage /\ ~Active(Global)
        /\ moved' = moved \ {Global}
        /\ JobThen("authors")
     \/ /\ JobAt("authors")
        /\ moved' = moved \ Author
        /\ JobThen("scan")
  /\ UNCHANGED << logicalBytes, manifestCount, reservationTokens, settlementTokens,
                  accountingTokens, workflowTokens, reservationVars, call, event,
                  queueVars, cur, todo, page, visit, seen, aborts >>

JobScan(x) ==
  /\ JobAt("scan") /\ seen[x] = "unread"
  /\ seen' = [seen EXCEPT ![x] = event[x]]
  /\ IF \E y \in Ref : seen'[y] = "unread" THEN UNCHANGED << pc, todo >>
     ELSE JobThen("reconcile") /\ todo' = [todo EXCEPT ![Job] = Scope]
  /\ UNCHANGED << counterVars, reservationVars, call, event, queueVars, cur, page, visit, aborts >>

\* A refused global write ends the run; a refused author is left for the next.
JobReconcile(s) ==
  LET found == InScope(s, {seen[x] : x \in Ref} \ {None}) IN
  /\ JobAt("reconcile")
  /\ s \in todo[Job] /\ (s = Global \/ Global \notin todo[Job])
  /\ ReconcileCounter(s, Bytes(found), Cardinality(found))
  /\ todo' = [todo EXCEPT ![Job] =
       IF s = Global /\ ~CanReconcile(Global) THEN {} ELSE @ \ {s}]
  /\ UNCHANGED << reservationVars, call, event, queueVars, pc, cur, page, visit, seen, aborts >>

JobRest ==
  /\ seen' = Unread
  /\ moved' = Scope
  /\ JobThen("idle") /\ page' = NoPage /\ visit' = None
  /\ UNCHANGED << logicalBytes, manifestCount, reservationTokens, settlementTokens,
                  accountingTokens, workflowTokens, reservationVars, event, queueVars, cur >>

JobReconciled ==
  /\ JobAt("reconcile") /\ todo[Job] = {}
  /\ JobRest
  /\ UNCHANGED << call, todo, aborts >>

JobAbort ==
  /\ pc[Job] # "idle" /\ aborts < MaxAborts
  /\ aborts' = aborts + 1
  /\ JobRest
  /\ Invoke(Job, NoCall)
  /\ todo' = [todo EXCEPT ![Job] = {}]

JobStep ==
  \/ JobStart \/ JobFinish
  \/ \E r \in Reservation : JobVisit(r)
  \/ JobInspect \/ JobSkip \/ JobCancelOrphan \/ JobCalled
  \/ \E s \in Scope : JobTerminal(s) \/ JobReconcile(s)
  \/ JobRetire \/ JobSnapshot \/ JobReconciled
  \/ \E x \in Ref : JobScan(x)

-------------------------------------------------------------------------------
\* One step of finalize or cancel, run by any actor.
Settlement ==
  \E a \in Actor : CallNext(a) /\ UNCHANGED << event, queueVars, workVars >>

ProcessorStep == Upsert \/ Delete \/ Remove \/ \E o \in OpKey : Take(o)

Next ==
  \/ \E r \in Reservation : Saver(r) \/ SaverCrash(r)
  \/ Settlement
  \/ ProcessorStep \/ ProcessorAbort
  \/ JobStep \/ JobAbort
  \/ \E d \in Deletion, S \in SUBSET Event : RequestDeletion(d, S)

Spec == Init /\ [][Next]_vars
===============================================================================
