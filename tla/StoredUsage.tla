------------------------------ MODULE StoredUsage ------------------------------
(***************************************************************************)
(* The bytes ordinary owners are charged for: EventSaver's ordinary path,  *)
(* checkStorageLimitAndPrune, prune-workflow.js, the deletion workflow of  *)
(* pending-workflows.js and stored-owner-accounting.js.                    *)
(*                                                                         *)
(* An event belongs to the IP it came from, or to its author when that is  *)
(* popular (ownerType).  Only the processor writes events and owners, one  *)
(* operation after the other (PendingOps); it may stop at any step and     *)
(* resumes from the phase of the operation.  Sizes are one.                *)
(*                                                                         *)
(* The queue keeps the order that matters: a check may be overtaken,       *)
(* everything else waits for what was queued before it.  A save stands for *)
(* its deltaUsage and insertOrReplaceDocument, which one commit writes.    *)
(***************************************************************************)
EXTENDS Integers, Sequences, FiniteSets, SequencesExt

CONSTANTS
  Event,       \* events, numbered by created_at
  Author,      \* pubkeys
  IP,          \* the IP all of them use, as the key of an owner
  By,          \* the author of an event
  Chunk,       \* events of kind BINARY_DATA_CHUNK
  Rising,      \* authors the popularity filters may or may not contain:
               \* every process has its own copy, ten minutes old at most
  Deletable,   \* events whose authors may ask for their deletion
  Limit,       \* the storage limit of an owner
  PruneBatch,  \* PRUNE_BATCH_SIZE
  MaxDrift,    \* bound: bytes an owner is charged too much at first
  MaxSeen,     \* bound: times the IP is active
  MaxSweeps,   \* bound: passes of deleteStaleIps over the IP
  MaxStops     \* bound: stops of the processor, and operations that fail for good

Owner == Author \cup {IP}

\* Nobody's: the event is not stored.
Gone == "gone"

ASSUME UsageAssumption ==
  /\ Event \subseteq Nat /\ IsFiniteSet(Event)
  /\ IP \notin Author /\ Gone \notin Owner
  /\ By \in [Event -> Author]
  /\ Chunk \subseteq Event /\ Rising \subseteq Author /\ Deletable \subseteq Event
  /\ Limit \in [Owner -> Nat]
  /\ PruneBatch \in Nat \ {0}
  /\ MaxDrift \in Nat /\ MaxSeen \in Nat /\ MaxSweeps \in Nat /\ MaxStops \in Nat

VARIABLES
  of,       \* index events: who owns an event, Gone if it is not stored
  owner,    \* index storedEventOwners: the documents
  queue,    \* index pendingOps
  saved,    \* events whose save was queued
  drift,    \* bytes charged in error that no check has set right yet
  seen,     \* the last lastActiveAt of the IP that was queued
  done,     \* the last request for the workflow in hand that was answered
  sweeps, stops,
  mode,     \* "relay" while the relay's processes run; otherwise the tool at work
  listed,   \* owners that reconcile-used-bytes has still to look at
  unchecked \* history: owners of checks that an error used up

upkeepVars == << mode, listed, unchecked >>
vars == << of, owner, queue, saved, drift, seen, done, sweeps, stops, upkeepVars >>

NoDoc == [there |-> FALSE, used |-> 0, tokens |-> {}, active |-> 0]

\* What a key is made of: its kind, and the event or the owner it is about.
Name == {"", "save", "delete", "stale", "target"} \X (Event \cup {0}) \X Owner
NoName == << "", 0, IP >>

\* accountingTokens of one owner name a workflow and its step.
Doc == [there : BOOLEAN, used : Int, tokens : SUBSET (Name \X Nat), active : 0 .. MaxSeen]

Target(limit) == (limit * 9) \div 10

Phase == {"queued", "prepared", "events_applied", "accounting_applied"}

\* What a workflow does to one event: it goes, or it passes to its author.
Act == [event : Event, from : Owner, to : Author \cup {Gone}]

\* A pending operation.  name is its key, cutoff is staleIfLastActiveAtLte, or
\* -1; begun is pruningStarted, whose limit is the one its first step found.
Op == [kind : {"save", "touch", "check", "delete"}, name : Name,
       owner : Owner, event : Event \cup {0}, stamp : 0 .. MaxSeen,
       acts : SUBSET Act, phase : Phase, step : Nat,
       limit : Nat, begun : BOOLEAN, cutoff : -1 .. MaxSeen]

Blank == [kind |-> "save", name |-> NoName, owner |-> IP, event |-> 0, stamp |-> 0, acts |-> {},
          phase |-> "queued", step |-> 0, limit |-> 0, begun |-> FALSE, cutoff |-> -1]

Init ==
  /\ of = [e \in Event |-> Gone]
  /\ drift \in {d \in [Owner -> 0 .. MaxDrift] : \A a \in Author : d[a] = 0}
  /\ owner = [o \in Owner |->
       [NoDoc EXCEPT !.there = drift[o] > 0, !.used = drift[o]]]
  /\ queue = << >> /\ saved = {}
  /\ seen = 0 /\ done = "nothing" /\ sweeps = 0 /\ stops = 0
  /\ mode = "relay" /\ listed = {} /\ unchecked = {}

Stored(o) == {e \in Event : of[e] = o}
Names == {queue[n].name : n \in DOMAIN queue}

-------------------------------------------------------------------------------
(***************************************************************************)
(* Producers.                                                              *)
(***************************************************************************)
Owners(e) == IF By[e] \in Rising THEN {IP, By[e]} ELSE {IP}

CheckOf(o, name) == [Blank EXCEPT !.kind = "check", !.name = name, !.owner = o, !.limit = Limit[o]]

\* EventSaver.save: the usage read may be behind; from nine tenths of the
\* limit a check goes with the save.
Save(e) ==
  /\ e \notin saved /\ \A d \in Event : d < e => d \in saved   \* bound: in this order
  /\ saved' = saved \cup {e}
  /\ \E o \in Owners(e) :
       queue' = queue \o << [Blank EXCEPT !.owner = o, !.event = e] >>
         \o (IF 10 * (owner[o].used + 1) > 9 * Limit[o]
               THEN << CheckOf(o, << "save", e, o >>) >> ELSE << >>)
  /\ UNCHANGED << of, owner, drift, seen, done, sweeps, stops >>

\* handleStandardDelete, queueDeleteEventsWithAccounting: what is stored is
\* taken with the owner it has now (deletionSnapshot).
RequestDeletion(e) ==
  /\ e \in Deletable /\ of[e] # Gone
  /\ << "delete", e, IP >> \notin Names
  /\ queue' = Append(queue, [Blank EXCEPT !.kind = "delete", !.name = << "delete", e, IP >>,
                             !.acts = {[event |-> e, from |-> of[e], to |-> Gone]}])
  /\ UNCHANGED << of, owner, saved, drift, seen, done, sweeps, stops >>

\* flushIpActivityToMDB
Touch ==
  /\ seen < MaxSeen
  /\ seen' = seen + 1
  /\ queue' = Append(queue, [Blank EXCEPT !.kind = "touch", !.stamp = seen + 1])
  /\ UNCHANGED << of, owner, saved, drift, done, sweeps, stops >>

\* queuePruneChecksOnce: keys say who the check is for.
Once(op) == IF op.name \in Names THEN queue ELSE Append(queue, op)

\* deleteStaleIps: an IP that has not been active for long.
Sweep ==
  /\ owner[IP].there /\ sweeps < MaxSweeps
  /\ sweeps' = sweeps + 1
  /\ queue' = Once([CheckOf(IP, << "stale", 0, IP >>) EXCEPT !.limit = 0, !.cutoff = owner[IP].active])
  /\ UNCHANGED << of, owner, saved, drift, seen, done, stops >>

-------------------------------------------------------------------------------
(***************************************************************************)
(* The processor.                                                          *)
(***************************************************************************)
Started(n) == queue[n].phase # "queued"
Turn(n) ==
  IF \E m \in DOMAIN queue : Started(m) THEN Started(n)
  ELSE \A m \in 1 .. n - 1 : queue[m].kind = "check"

Drop(n) == queue' = RemoveAt(queue, n)
Patch(n, op) == queue' = ReplaceAt(queue, n, op)

\* deltaUsage makes the document if there is none.
ApplySave(n) ==
  /\ queue[n].kind = "save"
  /\ of' = [of EXCEPT ![queue[n].event] = queue[n].owner]
  /\ owner' = [owner EXCEPT ![queue[n].owner].there = TRUE, ![queue[n].owner].used = @ + 1]
  /\ Drop(n)
  /\ UNCHANGED << saved, drift, seen, done, sweeps, stops >>

\* patchDocumentIfExists with lastActiveAt
ApplyTouch(n) ==
  /\ queue[n].kind = "touch"
  /\ owner' = IF owner[IP].there THEN [owner EXCEPT ![IP].active = queue[n].stamp] ELSE owner
  /\ Drop(n)
  /\ UNCHANGED << of, saved, drift, seen, done, sweeps, stops >>

StillStale(op) == op.cutoff = -1 \/ owner[op.owner].active <= op.cutoff

\* maybeDeleteEmptyOwner
Emptied(op) ==
  IF op.cutoff # -1 /\ owner[op.owner].used <= 0 /\ Stored(op.owner) = {} /\ StillStale(op)
    THEN [owner EXCEPT ![op.owner] = NoDoc] ELSE owner

Oldest(S) == {e \in S : Cardinality({d \in S : d < e}) < PruneBatch}

\* selectActions: chunks before anything else; an IP's events pass to authors
\* that are popular.
Selections(o) ==
  LET chunks == Stored(o) \cap Chunk
      act(e, t) == [event |-> e, from |-> o, to |-> t]
      fates(e) == IF o = IP /\ By[e] \in Rising THEN {By[e], Gone} ELSE {Gone}
  IN IF chunks # {} THEN {{act(e, Gone) : e \in Oldest(chunks)}}
     ELSE {{act(e, f[e]) : e \in Oldest(Stored(o))} :
           f \in {g \in [Oldest(Stored(o)) -> Author \cup {Gone}] :
                    \A e \in DOMAIN g : g[e] \in fates(e)}}

StopAt(op) == IF op.begun THEN Target(op.limit) ELSE op.limit

Checking(n) == queue[n].kind = "check" /\ queue[n].phase = "queued"

\* processPruneCheck, queued: nothing to do.
EndCheck(n) ==
  LET op == queue[n] IN
  /\ Checking(n)
  /\ \/ ~ owner[op.owner].there /\ UNCHANGED owner
     \/ ~ StillStale(op) /\ UNCHANGED owner
     \/ owner[op.owner].used <= StopAt(op) /\ owner' = Emptied(op)
  /\ Drop(n)
  /\ UNCHANGED << of, saved, drift, seen, done, sweeps, stops >>

Needed(n) ==
  LET op == queue[n] IN
  Checking(n) /\ owner[op.owner].there /\ StillStale(op) /\ owner[op.owner].used > StopAt(op)

\* handleNoActions: the charge is wrong.  The check goes on from there.
CorrectUsage(n) ==
  LET o == queue[n].owner IN
  /\ Needed(n) /\ Stored(o) = {}
  /\ owner' = [owner EXCEPT ![o].used = 0]
  /\ drift' = [drift EXCEPT ![o] = 0]
  /\ UNCHANGED << of, queue, saved, seen, done, sweeps, stops >>

PrepareCheck(n) ==
  /\ Needed(n) /\ Stored(queue[n].owner) # {}
  /\ \E acts \in Selections(queue[n].owner) :
       Patch(n, [queue[n] EXCEPT !.phase = "prepared", !.acts = acts, !.begun = TRUE])
  /\ UNCHANGED << of, owner, saved, drift, seen, done, sweeps, stops >>

\* processDeletion, queued: what is still there is selected.
PrepareDeletion(n) ==
  /\ queue[n].kind = "delete" /\ queue[n].phase = "queued"
  /\ Patch(n, [queue[n] EXCEPT !.phase = "prepared",
               !.acts = {a \in @ : of[a.event] # Gone}])
  /\ UNCHANGED << of, owner, saved, drift, seen, done, sweeps, stops >>

-------------------------------------------------------------------------------
(***************************************************************************)
(* The phases.  cancelPreparedStalePruneIfReactivated reads an owner that  *)
(* only the processor writes, and a started check is resumed before        *)
(* anything else: it never finds what it looks for.                        *)
(***************************************************************************)
In(n, p) == queue[n].phase = p

Leaving(op) == {a.event : a \in {b \in op.acts : b.to = Gone}}
Moving(op) == {a \in op.acts : a.to # Gone}

\* applyActions: two requests in parallel, by ref and id.
RemoveEvents(n) ==
  /\ In(n, "prepared")
  /\ \E e \in Leaving(queue[n]) : of[e] # Gone
  /\ of' = [e \in Event |-> IF e \in Leaving(queue[n]) THEN Gone ELSE of[e]]
  /\ UNCHANGED << owner, queue, saved, drift, seen, done, sweeps, stops >>

PromoteEvents(n) ==
  /\ In(n, "prepared")
  /\ \E a \in Moving(queue[n]) : of[a.event] = IP
  /\ of' = [e \in Event |->
       IF of[e] = IP /\ \E a \in Moving(queue[n]) : a.event = e THEN By[e] ELSE of[e]]
  /\ UNCHANGED << owner, queue, saved, drift, seen, done, sweeps, stops >>

\* The check of applyActions, and the patch to events_applied
\* (events_deleted): an event that is gone is not credited to anyone.
EventsApplied(n) ==
  /\ In(n, "prepared")
  /\ \A a \in queue[n].acts :
       IF a.to = Gone THEN of[a.event] = Gone ELSE of[a.event] # IP
  /\ Patch(n, [queue[n] EXCEPT !.phase = "events_applied",
       !.acts = {[a EXCEPT !.to = IF of[a.event] = Gone THEN Gone ELSE @] : a \in @}])
  /\ UNCHANGED << of, owner, saved, drift, seen, done, sweeps, stops >>

\* usageDeltas, aggregateDeltas
Delta(op, o) ==
  Cardinality({a \in op.acts : a.to = o}) - Cardinality({a \in op.acts : a.from = o})
Token(op) == << op.name, op.step >>

\* prepareStoredOwners
CreateOwners(n) ==
  LET new == {o \in Owner : Delta(queue[n], o) > 0 /\ ~ owner[o].there} IN
  /\ In(n, "events_applied") /\ new # {} /\ done = "nothing"
  /\ owner' = [o \in Owner |-> IF o \in new THEN [NoDoc EXCEPT !.there = TRUE] ELSE owner[o]]
  /\ UNCHANGED << of, queue, saved, drift, seen, done, sweeps, stops >>

\* Mutant: every retry charges.
ChargedAgain(op, o) ==
  [owner[o] EXCEPT !.used = IF @ + Delta(op, o) < 0 THEN 0 ELSE @ + Delta(op, o),
                   !.tokens = @ \cup {Token(op)}]
\* One owner after applyStoredUsageDeltasOnce.
Charged(op, o) ==
  IF ~ owner[o].there \/ Delta(op, o) = 0 \/ Token(op) \in owner[o].tokens THEN owner[o]
  ELSE [owner[o] EXCEPT !.used = IF @ + Delta(op, o) < 0 THEN 0 ELSE @ + Delta(op, o),
                        !.tokens = @ \cup {Token(op)}]

Charge(n) ==
  LET op == queue[n] IN
  /\ In(n, "events_applied") /\ done = "nothing"
  /\ \A o \in Owner : Delta(op, o) > 0 => owner[o].there
  /\ owner' = [o \in Owner |-> Charged(op, o)]
  /\ done' = "charged"
  /\ UNCHANGED << of, queue, saved, drift, seen, sweeps, stops >>

AccountingApplied(n) ==
  /\ In(n, "events_applied") /\ done = "charged"
  /\ Patch(n, [queue[n] EXCEPT !.phase = "accounting_applied"])
  /\ done' = "nothing"
  /\ UNCHANGED << of, owner, saved, drift, seen, sweeps, stops >>

\* Mutant: no check for the new owner.
QueueNothing(n) ==
  /\ In(n, "accounting_applied") /\ queue[n].kind = "check" /\ done = "nothing"
  /\ done' = "queued"
  /\ UNCHANGED << of, owner, queue, saved, drift, seen, sweeps, stops >>

\* queueDestinationChecks: the limit is looked up when the check begins.
QueueDestinations(n) ==
  LET check(o) == CheckOf(o, << "target", 0, o >>)
      new == {o \in {a.to : a \in Moving(queue[n])} : check(o).name \notin Names}
  IN /\ In(n, "accounting_applied") /\ queue[n].kind = "check" /\ done = "nothing"
     /\ queue' = queue \o [i \in 1 .. Cardinality(new) |-> check(SetToSeq(new)[i])]
     /\ done' = "queued"
     /\ UNCHANGED << of, owner, saved, drift, seen, sweeps, stops >>

\* Mutant: the tokens stay.
KeepTokens(n) == owner
\* clearStoredUsageDeltaTokens
WithoutTokens(n) ==
  [o \in Owner |-> IF Delta(queue[n], o) = 0 THEN owner[o]
                   ELSE [owner[o] EXCEPT !.tokens = @ \ {Token(queue[n])}]]

ClearTokens(n) ==
  /\ In(n, "accounting_applied")
  /\ done = IF queue[n].kind = "check" THEN "queued" ELSE "nothing"
  /\ owner' = WithoutTokens(n)
  /\ done' = "cleared"
  /\ UNCHANGED << of, queue, saved, drift, seen, sweeps, stops >>

\* finishOrContinue
\* Mutant: two steps at most.
ContinuesOnce(op) ==
  /\ op.kind = "check" /\ op.step = 0
  /\ owner[op.owner].there /\ StillStale(op)
  /\ owner[op.owner].used > Target(op.limit)

Continues(op) ==
  /\ op.kind = "check"
  /\ owner[op.owner].there /\ StillStale(op)
  /\ owner[op.owner].used > Target(op.limit)

Continue(n) ==
  /\ In(n, "accounting_applied") /\ done = "cleared" /\ Continues(queue[n])
  /\ Patch(n, [queue[n] EXCEPT !.phase = "queued", !.step = @ + 1, !.acts = {}])
  /\ done' = "nothing"
  /\ UNCHANGED << of, owner, saved, drift, seen, sweeps, stops >>

Finish(n) ==
  /\ In(n, "accounting_applied") /\ done = "cleared" /\ ~ Continues(queue[n])
  /\ owner' = IF queue[n].kind = "check" THEN Emptied(queue[n]) ELSE owner
  /\ Drop(n)
  /\ done' = "nothing"
  /\ UNCHANGED << of, saved, drift, seen, sweeps, stops >>

\* The run, or the tool at its place, stops and is started again: what it had
\* not persisted is forgotten.
Stop ==
  /\ stops < MaxStops /\ \E n \in DOMAIN queue : Started(n)
  /\ stops' = stops + 1
  /\ done' = "nothing"
  /\ UNCHANGED << of, owner, queue, saved, drift, seen, sweeps >>

\* queueDeletionCompensation: the accounting of what a failed deletion removed,
\* under the same key; begun says that it is one (compensationAttempts).
Compensation(op) ==
  [op EXCEPT !.phase = IF @ = "prepared" THEN "events_applied" ELSE @,
             !.acts = {a \in @ : of[a.event] = Gone}, !.begun = TRUE]

\* processPendingWorkflow: an error that is not the network's uses up a deletion.
\* Compensation and removal are two requests; a stop between them is left out,
\* and so is the failure of a compensation.
FailDeletion(n) ==
  /\ Turn(n) /\ queue[n].kind = "delete" /\ ~ queue[n].begun /\ stops < MaxStops
  /\ queue' = RemoveAt(queue, n) \o
       (IF queue[n].phase = "queued" \/ Compensation(queue[n]).acts = {}
          THEN << >> ELSE << Compensation(queue[n]) >>)
  /\ stops' = stops + 1 /\ done' = "nothing"
  /\ UNCHANGED << of, owner, saved, drift, seen, sweeps >>

\* A check is used up only before it has begun.  Once it is prepared the error
\* is thrown again, which is a stop.
FailCheck(n) ==
  /\ Turn(n) /\ Checking(n) /\ stops < MaxStops
  /\ Drop(n)
  /\ unchecked' = unchecked \cup {queue[n].owner} /\ stops' = stops + 1
  /\ UNCHANGED << of, owner, saved, drift, seen, done, sweeps, mode, listed >>

-------------------------------------------------------------------------------
(***************************************************************************)
(* Upkeep by an operator who has stopped every process of the relay:       *)
(* pending-ops:resume-started, then reconcile-used-bytes.                  *)
(***************************************************************************)

\* listStartedWorkflows
StartedWorkflows == {n \in DOMAIN queue : Started(n)}

\* assertPm2AppStopped: what the processes had not persisted is gone, and what
\* they had sent is applied (waitForTaskQueueBarrier).
Halt ==
  /\ mode = "relay" /\ stops < MaxStops
  /\ stops' = stops + 1
  /\ mode' = "resuming" /\ done' = "nothing"
  /\ UNCHANGED << of, owner, queue, saved, drift, seen, sweeps, listed, unchecked >>

\* Every started workflow is gone; the owners are listed.
EndResume ==
  /\ mode = "resuming" /\ StartedWorkflows = {}
  /\ mode' = "reconciling"
  /\ listed' = {o \in Owner : owner[o].there}
  /\ UNCHANGED << of, owner, queue, saved, drift, seen, done, sweeps, stops, unchecked >>

\* reconcile-used-bytes: an owner is charged for what it stores.
Reconcile(o) ==
  /\ mode = "reconciling" /\ o \in listed
  /\ listed' = listed \ {o}
  /\ owner' = [owner EXCEPT ![o].used = Cardinality(Stored(o))]
  /\ drift' = [drift EXCEPT ![o] = 0]
  /\ UNCHANGED << of, queue, saved, seen, done, sweeps, stops, mode, unchecked >>

\* The relay is started again, perhaps before its owners are through.
Restart ==
  /\ mode = "reconciling"
  /\ mode' = "relay" /\ listed' = {}
  /\ UNCHANGED << of, owner, queue, saved, drift, seen, done, sweeps, stops, unchecked >>

-------------------------------------------------------------------------------
Produce ==
  mode = "relay" /\ (Touch \/ Sweep \/ \E e \in Event : Save(e) \/ RequestDeletion(e))

\* One step of the operation whose turn it is
Process ==
  \E n \in {m \in DOMAIN queue : Turn(m)} :
    \/ ApplySave(n) \/ ApplyTouch(n)
    \/ EndCheck(n) \/ CorrectUsage(n) \/ PrepareCheck(n) \/ PrepareDeletion(n)
    \/ RemoveEvents(n) \/ PromoteEvents(n) \/ EventsApplied(n)
    \/ CreateOwners(n) \/ Charge(n) \/ AccountingApplied(n)
    \/ QueueDestinations(n) \/ ClearTokens(n) \/ Continue(n) \/ Finish(n)

\* The tool resumes what was started and nothing else.
Works == mode = "relay" \/ (mode = "resuming" /\ StartedWorkflows # {})

Upkeep == Halt \/ EndResume \/ Restart \/ \E o \in Owner : Reconcile(o)

Next ==
  \/ (Produce \/ Stop) /\ UNCHANGED upkeepVars
  \/ Works /\ (Process \/ \E n \in DOMAIN queue : FailDeletion(n)) /\ UNCHANGED upkeepVars
  \/ Works /\ \E n \in DOMAIN queue : FailCheck(n)
  \/ Upkeep

\* The processor's job is started again whenever it ends (JobWorker), and an
\* operator who has stopped the relay starts it again.
Spec ==
  /\ Init /\ [][Next]_vars
  /\ WF_vars(Works /\ Process /\ UNCHANGED upkeepVars)
  /\ WF_vars(EndResume \/ Restart)
================================================================================
