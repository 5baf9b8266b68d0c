------------------------------- MODULE PendingOps -------------------------------
(***************************************************************************)
(* The processor of pending operations (process-pending-ops/index.js): one *)
(* run at a time (JobWorker), stopped at any step and started again.       *)
(*                                                                         *)
(* A request that was sent when the run stops may still take effect; it    *)
(* does so before the next run begins, for the next run begins with the    *)
(* write of a lease and Meilisearch applies its tasks in order.  So a step *)
(* that writes happens or not, and a stop comes between steps.             *)
(*                                                                         *)
(* Checks and workflows are opaque here: what they do to documents and     *)
(* their phases are in StoredUsage and ManifestPool.                       *)
(***************************************************************************)
EXTENDS Integers, Sequences, FiniteSets, SequencesExt

CONSTANTS
  Index, Key, Root, Shapes, MaxBatch, Late,   \* as in SerialQueue
  BatchSize,    \* BATCH_SIZE
  MaxStops,     \* bound: stops of a run
  MaxSteps      \* bound: checks that stay after one of their steps

ASSUME ProcessorAssumption ==
  /\ Root \subseteq Key
  /\ MaxBatch \in Nat /\ Late \in Nat
  /\ BatchSize \in Nat \ {0} /\ MaxStops \in Nat /\ MaxSteps \in Nat

VARIABLES
  sent, arrived, docs,   \* as in SerialQueue
  queue,    \* the operations in index pendingOps
  started,  \* those whose phase is not "queued"
  state,    \* per index, processedOpIds of its state document
  pc,       \* where the run stands
  seen,     \* its systemState
  buffer,   \* its opsBuffer
  batch,    \* the operations of processBatch not looked at yet
  segment,  \* the segment being flushed
  plan,     \* what the simple batch is going to write, per index
  consumed, \* opsToDeleteFromQueue
  owners,   \* processedPruneOwners
  spare,    \* redundantKeys
  stops, steps

queueVars == << sent, arrived, queue, started >>
batchVars == << batch, segment, plan, consumed, owners, spare >>
vars == << sent, arrived, docs, queue, started, state, pc, seen, buffer,
           batch, segment, plan, consumed, owners, spare, stops, steps >>

\* Pending: in the queue, and not recorded as done.
Unapplied ==
  {o \in queue : \A i \in Index : o \notin state[i] \cup seen[i]}

\* Checks go last in their batch.
Part(s, checks) ==
  LET keep(t, x) == IF (x.kind = "check") = checks THEN Append(t, x) ELSE t
  IN FoldLeft(keep, << >>, s)
Deferred(s) == Part(s, FALSE) \o Part(s, TRUE)

Serial == INSTANCE SerialQueue WITH
  pending <- Unapplied, Shapes <- {Deferred(s) : s \in Shapes}

\* queueOps queues no empty batch.  Documents that merges write (usage, sketches,
\* statistics) are in other indexes than those that are removed: getDoc would
\* not see the first of two merges after a removal.
ASSUME ShapesAssumption ==
  /\ Shapes \subseteq Seq(Serial!Shape) \ {<< >>}
  /\ \A s, t \in Shapes : \A m \in DOMAIN s, n \in DOMAIN t :
       s[m].kind = "merge" /\ t[n].kind = "remove" => s[m].index # t[n].index

Op == Serial!Op
What(o) == Serial!What(o)
Before(o, p) == Serial!Before(o, p)

Nothing == [i \in Index |-> {}]
Idle == [stage |-> "done", dels |-> {}, puts |-> << >>, ids |-> {}]

Init ==
  /\ queue = {} /\ started = {}
  /\ state = Nothing
  /\ pc = "off"
  /\ seen = Nothing /\ buffer = {}
  /\ batch = {} /\ segment = {} /\ consumed = {} /\ owners = {} /\ spare = {}
  /\ plan = [i \in Index |-> Idle]
  /\ stops = 0 /\ steps = 0
  /\ Serial!Init

-------------------------------------------------------------------------------
\* queueOps: one request carries the batch.
QueueOps ==
  \E b \in Serial!Batch, s \in Shapes :
    /\ Serial!MaySend(b)
    /\ sent' = [sent EXCEPT ![b] = Deferred(s)]
    /\ arrived' = Append(arrived, b)
    /\ queue' = queue \cup Serial!OpsOf(b, Deferred(s))
    /\ UNCHANGED << docs, started, state, pc, seen, buffer, batchVars, stops, steps >>

-------------------------------------------------------------------------------
\* loadSystemState
\* Mutant: the run trusts its own memory only.
LoadStateEmpty ==
  /\ pc = "off"
  /\ pc' = "fetch"
  /\ UNCHANGED << queueVars, docs, state, seen, buffer, batchVars, stops, steps >>

LoadState ==
  /\ pc = "off"
  /\ pc' = "fetch"
  /\ seen' = state
  /\ UNCHANGED << queueVars, docs, state, buffer, batchVars, stops, steps >>

First(n, S) == {o \in S : Cardinality({p \in S : Before(p, o)}) < n}

TakeBatch(S) ==
  /\ pc' = "batch"
  /\ batch' = S
  /\ owners' = {}
  /\ buffer' = {}

\* Started workflows go before everything else.
ResumeStarted ==
  /\ pc = "fetch" /\ buffer = {}
  /\ \E o \in started : TakeBatch({o})
  /\ UNCHANGED << queueVars, docs, state, seen, segment, plan, consumed, spare, stops, steps >>

\* What was fetched is kept, and merged with the next page.
Fill ==
  /\ pc = "fetch"
  /\ buffer = {} => started = {}
  /\ Cardinality(buffer) < BatchSize
  /\ buffer' = First(BatchSize, buffer \cup First(BatchSize, queue))
  /\ buffer' # buffer
  /\ UNCHANGED << queueVars, docs, state, pc, seen, batchVars, stops, steps >>

Take ==
  /\ pc = "fetch" /\ buffer # {}
  /\ TakeBatch(buffer)
  /\ UNCHANGED << queueVars, docs, state, seen, segment, plan, consumed, spare, stops, steps >>

-------------------------------------------------------------------------------
Queued(o) == o \notin started
Splits(o) == What(o).kind = "flow" \/ (What(o).kind = "check" /\ ~ Queued(o))

\* The operations before the next workflow make a segment.
FlushSegment ==
  /\ pc = "batch" /\ batch # {}
  /\ LET s == {o \in batch : \A p \in batch : Splits(p) => Before(o, p)}
     IN /\ s # {}
        /\ segment' = s
        /\ batch' = batch \ s
  /\ pc' = "simple"
  /\ UNCHANGED << queueVars, docs, state, seen, buffer, plan, consumed, owners, spare, stops, steps >>

\* How the dispatch of one operation changes what is going to be written to
\* its index.  getDoc looks at the deletions first, then at the documents.
\* Mutant: only at what is stored.
KnownStored(i, a, k) == docs[i][k]
Known(i, a, k) ==
  IF k \in a.dels THEN Serial!Absent
  ELSE IF k \in DOMAIN a.puts THEN a.puts[k] ELSE docs[i][k]

Put(a, k, d) ==
  [a EXCEPT !.puts = [x \in DOMAIN @ \cup {k} |-> IF x = k THEN d ELSE @[x]]]
Keep(a, k) == [a EXCEPT !.dels = @ \ {k}]

Replacing(a, k, o) == Keep(Put(a, k, << o >>), k)

Removing(a, k) ==
  [a EXCEPT !.dels = @ \cup {k}, !.puts = [x \in DOMAIN @ \ {k} |-> @[x]]]

Patching(i, a, k, o) ==
  IF Known(i, a, k) = Serial!Absent THEN a
  ELSE Keep(Put(a, k, Append(Known(i, a, k), o)), k)

Counting(i, a, k, o) ==
  IF Known(i, a, k) = Serial!Absent \/ k \notin Root THEN a
  ELSE Put(a, k, Append(Known(i, a, k), o))

Merging(i, a, k, o) == Put(a, k, Append(Known(i, a, k), o))

Dispatch(a, o) ==
  LET i == What(o).index
      k == What(o).key
      b == [a EXCEPT !.ids = @ \cup {o}]
  IN CASE What(o).kind = "replace" -> Replacing(b, k, o)
       [] What(o).kind = "remove" -> Removing(b, k)
       [] What(o).kind = "patch" -> Patching(i, b, k, o)
       [] What(o).kind = "count" -> Counting(i, b, k, o)
       [] What(o).kind = "merge" -> Merging(i, b, k, o)

\* What a simple batch takes from the queue: malformed operations as well.
\* Mutant: they stay.
ConsumedGood(S) == {o \in S : What(o).kind \notin {"check", "bad"}}
Consumed(S) == {o \in S : What(o).kind # "check"}

\* processSimpleBatch up to its commit.  What systemState knows is not done again.
Evaluate ==
  /\ pc = "simple"
  /\ LET fresh(i) == Serial!Of(segment, i) \ seen[i]
         begin(i) == [Idle EXCEPT !.stage = IF fresh(i) = {} THEN "done" ELSE "delete"]
         dispatch(o, a) == Dispatch(a, o)
         same(o) == o
     IN plan' = [i \in Index |->
          MapThenFoldSet(dispatch, begin(i), same, Serial!Latest, fresh(i))]
  /\ consumed' = Consumed(segment)
  /\ pc' = "commit"
  /\ UNCHANGED << queueVars, docs, state, seen, buffer, batch, segment, owners, spare, stops, steps >>

\* Indexes are committed in parallel, each in two requests.
CommitDelete(i) ==
  /\ pc = "commit" /\ plan[i].stage = "delete"
  /\ docs' = [docs EXCEPT ![i] =
       [k \in Key |-> IF k \in plan[i].dels THEN Serial!Absent ELSE @[k]]]
  /\ plan' = [plan EXCEPT ![i].stage = "write"]
  /\ UNCHANGED << queueVars, state, pc, seen, buffer, batch, segment, consumed, owners, spare, stops, steps >>

CommitDocs(i) ==
  /\ pc = "commit" /\ plan[i].stage = "write"
  /\ docs' = [docs EXCEPT ![i] =
       [k \in Key |-> IF k \in DOMAIN plan[i].puts THEN plan[i].puts[k] ELSE @[k]]]
  /\ state' = [state EXCEPT ![i] = plan[i].ids]
  /\ plan' = [plan EXCEPT ![i].stage = "done"]
  /\ UNCHANGED << queueVars, pc, seen, buffer, batch, segment, consumed, owners, spare, stops, steps >>

\* What was committed is remembered, then leaves the queue.
Remember ==
  /\ pc = "commit"
  /\ \A i \in Index : plan[i].stage = "done"
  /\ seen' = [i \in Index |-> seen[i] \cup plan[i].ids]
  /\ pc' = "dequeue"
  /\ UNCHANGED << queueVars, docs, state, buffer, batchVars, stops, steps >>

Dequeue ==
  /\ pc = "dequeue"
  /\ queue' = queue \ consumed
  /\ segment' = {o \in segment : What(o).kind = "check"}
  /\ consumed' = {}
  /\ plan' = [i \in Index |-> Idle]
  /\ pc' = "checks"
  /\ UNCHANGED << sent, arrived, started, docs, state, seen, buffer, batch, owners, spare, stops, steps >>

-------------------------------------------------------------------------------
\* How a step of a check or a workflow may end: it is done with and deleted;
\* it goes on in a later step; or it stops the run in a started phase.
Finish(o) ==
  /\ queue' = queue \ {o}
  /\ started' = started \ {o}
  /\ UNCHANGED << stops, steps >>

Continue(o) ==
  /\ What(o).kind = "check" /\ steps < MaxSteps
  /\ steps' = steps + 1
  /\ started' = started \ {o}
  /\ UNCHANGED << queue, stops >>

\* Checks of one owner under the same policy are one group
\* (getPruneCheckCoalescingKey).
Same(o) == {p \in segment : What(p) = What(o)}
FirstOf(S) == CHOOSE o \in S : \A p \in S : p = o \/ Before(o, p)

\* The first of the group stands for all, unless it was consumed by an error.
RunCheck ==
  /\ pc = "checks" /\ segment # {}
  /\ LET o == FirstOf(segment)
     IN /\ segment' = segment \ Same(o)
        /\ IF What(o).key \in owners
             THEN UNCHANGED << queue, started, owners, spare, stops, steps >>
             ELSE /\ owners' = owners \cup {What(o).key}
                  /\ \/ Finish(o) /\ spare' \in {spare, spare \cup (Same(o) \ {o})}
                     \/ Continue(o) /\ spare' = spare \cup (Same(o) \ {o})
  /\ UNCHANGED << sent, arrived, docs, state, pc, seen, buffer, batch, plan, consumed >>

DropSpare ==
  /\ pc = "checks" /\ segment = {}
  /\ queue' = queue \ spare
  /\ spare' = {}
  /\ pc' = "batch"
  /\ UNCHANGED << sent, arrived, started, docs, state, seen, buffer, batch, segment, plan,
                  consumed, owners, stops, steps >>

\* A workflow, or a check that was started, is taken when all before it is done.
RunFlow ==
  /\ pc = "batch" /\ batch # {}
  /\ LET o == FirstOf(batch)
         owner == What(o).key
     IN /\ Splits(o)
        /\ batch' = batch \ {o}
        /\ IF What(o).kind = "check" /\ owner \in owners
             THEN UNCHANGED << queue, started, owners, stops, steps >>
             ELSE /\ owners' = IF What(o).kind = "check" THEN owners \cup {owner} ELSE owners
                  /\ Finish(o) \/ Continue(o)
  /\ UNCHANGED << sent, arrived, docs, state, pc, seen, buffer, segment, plan, consumed, spare >>

EndBatch ==
  /\ pc = "batch" /\ batch = {}
  /\ pc' = "fetch"
  /\ UNCHANGED << queueVars, docs, state, seen, buffer, batchVars, stops, steps >>

-------------------------------------------------------------------------------
\* The operation that a run is about to work on in phases.
AtHand ==
  IF pc = "checks" /\ segment # {} /\ What(FirstOf(segment)).key \notin owners
    THEN {FirstOf(segment)}
  ELSE IF pc = "batch" /\ batch # {} /\ Splits(FirstOf(batch))
    THEN {FirstOf(batch)} ELSE {}

\* The signal fires, a request fails, or the process dies: what the run knew is
\* gone.  A workflow may have been left in a started phase.
Stop ==
  /\ pc # "off" /\ stops < MaxStops
  /\ stops' = stops + 1
  /\ pc' = "off"
  /\ started' \in {started, started \cup AtHand}
  /\ seen' = Nothing /\ buffer' = {}
  /\ batch' = {} /\ segment' = {} /\ consumed' = {} /\ owners' = {} /\ spare' = {}
  /\ plan' = [i \in Index |-> Idle]
  /\ UNCHANGED << sent, arrived, queue, docs, state, steps >>

Process ==
  \/ LoadState \/ ResumeStarted \/ Fill \/ Take \/ FlushSegment \/ Evaluate
  \/ (\E i \in Index : CommitDelete(i) \/ CommitDocs(i))
  \/ Remember \/ Dequeue \/ RunCheck \/ DropSpare \/ RunFlow \/ EndBatch

Next == QueueOps \/ Process \/ Stop

\* The job runs for ever and is started again (JobWorker).
Spec == Init /\ [][Next]_vars /\ WF_vars(Process)
================================================================================
