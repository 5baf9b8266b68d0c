------------------------------ MODULE Publication ------------------------------
(***************************************************************************)
(* An EVENT message from end to end: the handler (event-handler.js), the   *)
(* saver (saver/mdb/index.js) and what the pending operations it queues do *)
(* to the stored events.  Every read and write the handler awaits is a     *)
(* step of its own, so handlers interleave with each other, with the       *)
(* processor of the queue and with the job that drops expired events.      *)
(*                                                                         *)
(* Owner limits and counters are StoredUsage's, manifests ManifestPool's,  *)
(* the socket to the other processes IpcDelivery's; here that socket is    *)
(* ready or not, and delivers a broadcast or not.                          *)
(***************************************************************************)
EXTENDS Integers, Sequences, FiniteSets

CONSTANTS
  Event, None,
  Ref,         \* Ref[e]: eventToRecord's key, one for all events of an address
  Author,      \* Author[e]: getAuthorPubkey
  Newer,       \* pairs << f, e >> of one address: f is the more recent, by created_at and then
               \* id.  save() compares no deletions, and no reactions, whose address has no d tag
  Ephemeral,   \* events that are relayed and never stored
  Expiring,    \* events with an expiration
  Deletion,    \* events of kind 5
  Targets,     \* Targets[d]: events that the e and a tags of d name
  Private,     \* private-channel broadcasts
  Key,         \* Key[e]: the one-time key that a private broadcast carries in its s tag
  Keyed,       \* deletions with the k tag of private broadcasts, which are asked for Key
  MaxSubmissions, \* bound: EVENT messages
  MaxFaults       \* bound: messages that meet a failure

ASSUME PublicationAssumption ==
  /\ None \notin Event /\ {MaxSubmissions, MaxFaults} \subseteq Nat
  /\ UNION {Ephemeral, Expiring, Deletion, Private} \subseteq Event /\ Keyed \subseteq Deletion
  /\ DOMAIN Ref = Event /\ DOMAIN Author = Event /\ Targets \in [Deletion -> SUBSET Event]
  /\ DOMAIN Key = Private
  /\ Newer \subseteq (Event \ Deletion) \X (Event \ Deletion)
  /\ \A v \in Newer : Ref[v[1]] = Ref[v[2]] /\ << v[2], v[1] >> \notin Newer

Sub == 1 .. MaxSubmissions

VARIABLES
  event,    \* the event of each submission, None before
  pc,       \* where its handler is, or its answer
  hits,     \* events its deletion found
  passed,   \* operations of others accepted while it writes its own
  known,    \* history: events stored ever since the message came
  blind,    \* history: messages whose read of the version before them failed
  stored,   \* index events: the event under each key, None without one
  queue,    \* index pendingOps, in the order of models/pending-op/order.js
  due,      \* expired events the job has found
  late,     \* events whose expiration has passed
  live,     \* history: events that were broadcast
  gone      \* history: events that have left the index

vars == << event, pc, hits, passed, known, blind, stored, queue, due, late, live, gone >>

Handling == {"ready", "search", "find", "check", "select", "remove", "deleted", "version", "save", "relay"}
Answers == {"blocked", "ok", "duplicate", "expired", "refused", "retry", "error"}
Op == [sub : Sub, insert : Event] \cup [sub : Sub \cup {None}, delete : SUBSET Event]

Stored == {stored[r] : r \in DOMAIN stored} \ {None}
Inserting(o) == "insert" \in DOMAIN o
InFlight(s) == pc[s] \in Handling
Queued(e) == \E i \in DOMAIN queue : Inserting(queue[i]) /\ queue[i].insert = e

Init ==
  /\ event = [s \in Sub |-> None] /\ pc = [s \in Sub |-> "none"]
  /\ hits = [s \in Sub |-> {}] /\ passed = [s \in Sub |-> 0] /\ known = [s \in Sub |-> {}]
  /\ blind = {}
  /\ \E e \in (Event \ Ephemeral) \cup {None} :  \* bound: one event published before
       /\ stored = [r \in {Ref[f] : f \in Event} |-> IF e # None /\ Ref[e] = r THEN e ELSE None]
       /\ live = {e} \ {None}
  /\ queue = << >> /\ due = {} /\ late = {} /\ gone = {}

(***************************************************************************)
(* The handler.  Goto(s, p) is the return, or the next await.              *)
(***************************************************************************)
Goto(s, p) == pc' = [pc EXCEPT ![s] = p]
MayFail == Cardinality(blind \cup {s \in Sub : pc[s] \in {"retry", "error", "lost"}}) < MaxFaults
Same == UNCHANGED << event, stored, known, blind, due, late, gone >>
Quiet == Same /\ UNCHANGED << hits, passed, queue, live >>

Submit(s, e, p) ==
  /\ pc[s] = "none" /\ \A t \in 1 .. s - 1 : pc[t] # "none"
  /\ event' = [event EXCEPT ![s] = e] /\ Goto(s, p)
  /\ known' = [known EXCEPT ![s] = IF p = "ready" THEN Stored ELSE {}]
  /\ UNCHANGED << hits, passed, blind, stored, queue, due, late, live, gone >>

\* The message is over a rate limit, or too long for its kind.
Block(s, e) == Submit(s, e, "blocked")
\* The event is invalid, old without AUTH of its author, or far in the future.
Refuse(s, e) == Submit(s, e, "refused")
Receive(s, e) == Submit(s, e, IF e \in late THEN "expired" ELSE "ready")

\* waitUntilReady
Ready(s) ==
  /\ pc[s] = "ready" /\ Quiet
  /\ \/ Goto(s, IF event[s] \in Ephemeral THEN "relay" ELSE "search")
     \/ MayFail /\ Goto(s, "retry")

\* save() looks for the id in the index; operations in the queue are not seen.
Search(s) ==
  /\ pc[s] = "search" /\ Quiet
  /\ Goto(s, IF event[s] \in Stored THEN "duplicate"
             ELSE IF event[s] \in Deletion THEN "find" ELSE "deleted")

\* handlePrivateBroadcastDelete: one search, and every target must be in it.
FindKeyed(s) ==
  LET d == event[s]
      found == {e \in Targets[d] \cap Stored \cap Private : Key[e] = Author[d]}
  IN /\ pc[s] = "find" /\ d \in Keyed /\ Same /\ UNCHANGED << passed, queue, live >>
     /\ \/ found = Targets[d] /\ hits' = [hits EXCEPT ![s] = found] /\ Goto(s, "remove")
        \/ found # Targets[d] /\ UNCHANGED hits /\ Goto(s, "refused")

\* handleStandardDelete: three searches, for private broadcasts, for what is not
\* the author's or a deletion, and for what to remove.
Own(d) == {e \in Targets[d] \cap Stored : Author[e] = Author[d]}

\* Mutant: a private broadcast is like any other event of its author.
FindNothing(s) == pc[s] = "find" /\ event[s] \notin Keyed /\ Quiet /\ Goto(s, "check")

FindPrivate(s) ==
  /\ pc[s] = "find" /\ event[s] \notin Keyed /\ Quiet
  /\ Goto(s, IF Own(event[s]) \cap Private # {} THEN "refused" ELSE "check")

FindForeign(s) ==
  /\ pc[s] = "check" /\ Quiet
  /\ Goto(s, IF Targets[event[s]] \cap Stored \subseteq Own(event[s]) \ Deletion
             THEN "select" ELSE "refused")

Select(s) ==
  /\ pc[s] = "select" /\ Same /\ UNCHANGED << passed, queue, live >>
  /\ hits' = [hits EXCEPT ![s] = Own(event[s])] /\ Goto(s, "remove")

\* A kind 5 event in the index names e, and is signed by e's author.
Disowned(e) == \E d \in Deletion \cap Stored : Author[d] = Author[e] /\ e \in Targets[d]

CheckDeleted(s) ==
  /\ pc[s] = "deleted" /\ Quiet
  /\ Goto(s, IF Disowned(event[s]) THEN "refused" ELSE "version")

\* Mutant: the two versions are compared the wrong way round.
OutdatedSwapped(e) == << e, stored[Ref[e]] >> \in Newer

\* The newest of the versions in the index counts, not one that is queued.
Outdated(e) == << stored[Ref[e]], e >> \in Newer

CheckVersion(s) ==
  /\ pc[s] = "version" /\ Quiet
  /\ Goto(s, IF Outdated(event[s]) THEN "refused" ELSE "save")

\* getEventByRef catches every error, and save() takes it for the answer that
\* there is no other version.  Only a more recent one can be missed.
MissVersion(s) ==
  /\ MayFail /\ pc[s] = "version" /\ \E f \in Event : << f, event[s] >> \in Newer
  /\ Goto(s, "save") /\ blind' = blind \cup {s}
  /\ UNCHANGED << event, hits, passed, known, stored, queue, due, late, live, gone >>

Settle(s) == hits' = [hits EXCEPT ![s] = {}] /\ passed' = [passed EXCEPT ![s] = 0]

\* queueOps stamps an operation before it writes it: an operation that another
\* handler gets in meanwhile may have a later stamp, and be applied after it.
Writing == {t \in Sub : pc[t] \in {"remove", "save"}}

Counting(s, i) ==
  [t \in Sub |-> IF t = s THEN 0
                 ELSE IF t \in Writing /\ i >= Len(queue) - passed[t] THEN passed[t] + 1
                 ELSE passed[t]]
Accept(s, o) ==
  \E i \in Len(queue) - passed[s] .. Len(queue) :
    /\ i >= 0 /\ queue' = SubSeq(queue, 1, i) \o << o >> \o SubSeq(queue, i + 1, Len(queue))
    /\ passed' = Counting(s, i)

\* queueDeleteEventsWithAccounting; the write may be made and reported as lost.
RemoveHits(s) ==
  /\ pc[s] = "remove" /\ Same /\ UNCHANGED live
  /\ hits' = [hits EXCEPT ![s] = {}]
  /\ \/ hits[s] = {} /\ Goto(s, "save") /\ passed' = [passed EXCEPT ![s] = 0] /\ UNCHANGED queue
     \/ hits[s] # {} /\ Goto(s, "save") /\ Accept(s, [sub |-> s, delete |-> hits[s]])
     \/ hits[s] # {} /\ MayFail /\ Goto(s, "error") /\ Accept(s, [sub |-> s, delete |-> hits[s]])

\* The document that is replaced is read first, for its counters; an error is
\* taken for its absence.
Save(s) ==
  /\ pc[s] = "save" /\ Same /\ UNCHANGED << hits, live >>
  /\ Accept(s, [sub |-> s, insert |-> event[s]])
  /\ Goto(s, "relay") \/ (MayFail /\ Goto(s, "error"))

\* Mutant: OK although the broadcast failed.
BroadcastAnyway(s) ==
  /\ pc[s] = "relay" /\ Same /\ UNCHANGED << hits, passed, queue >>
  /\ Goto(s, "ok") /\ live' \in {live, live \cup {event[s]}}

\* broadcast(): the peers may have the event although the call timed out.
Broadcast(s) ==
  /\ pc[s] = "relay" /\ Same /\ UNCHANGED << hits, passed, queue >>
  /\ \/ Goto(s, "ok") /\ live' = live \cup {event[s]}
     \/ MayFail /\ Goto(s, "retry") /\ live' \in {live, live \cup {event[s]}}

\* Mutant: the error of the queue write is swallowed.
FailUnnoticed(s) ==
  /\ MayFail /\ pc[s] = "save" /\ Goto(s, "relay") /\ Same
  /\ Settle(s) /\ UNCHANGED << queue, live >>

\* A request to the database throws and has no effect.
Fail(s) ==
  /\ MayFail /\ pc[s] \in Handling \ {"ready", "version", "relay"} /\ Goto(s, "error") /\ Same
  /\ Settle(s) /\ UNCHANGED << queue, live >>

\* The process of the handler stops; its client gets no answer.
Stop(s) ==
  /\ MayFail /\ InFlight(s) /\ Goto(s, "lost") /\ Same
  /\ Settle(s) /\ UNCHANGED << queue, live >>

(***************************************************************************)
(* The queue, one operation after the other, and the hourly job.           *)
(***************************************************************************)
\* Mutant: whatever is under the key is removed.
CurrentByKey(S) == {e \in Stored : \E f \in S : Ref[e] = Ref[f]}

\* processDeletion removes what is still the event the request found.
Current(S) == {e \in S : stored[Ref[e]] = e}

\* Mutant: a document that exists is not replaced.
AfterAbsent(o) ==
  [r \in DOMAIN stored |->
     IF Inserting(o) THEN IF Ref[o.insert] = r /\ stored[r] = None THEN o.insert ELSE stored[r]
     ELSE IF r \in {Ref[e] : e \in Current(o.delete)} THEN None ELSE stored[r]]

After(o) ==
  IF Inserting(o) THEN [stored EXCEPT ![Ref[o.insert]] = o.insert]
  ELSE [r \in DOMAIN stored |-> IF r \in {Ref[e] : e \in Current(o.delete)} THEN None ELSE stored[r]]

Unsettled(s) == InFlight(s) \/ \E i \in DOMAIN queue' : queue'[i].sub = s

Served ==
  /\ queue' = Tail(queue)
  /\ gone' = gone \cup (Stored \ Stored')
  /\ known' = [s \in Sub |-> IF Unsettled(s) THEN known[s] \cap Stored' ELSE {}]
  /\ UNCHANGED << event, pc, hits, passed, blind, due, late, live >>

Apply == queue # << >> /\ stored' = After(Head(queue)) /\ Served

\* processPendingWorkflow: an error that is not the network's uses up a deletion.
Consume ==
  /\ queue # << >> /\ ~ Inserting(Head(queue)) /\ UNCHANGED stored /\ Served
  /\ Head(queue).sub # None  \* bound: what the job removes it would find again

Expire(e) ==
  /\ e \in Expiring \ late /\ late' = late \cup {e}
  /\ UNCHANGED << event, pc, hits, passed, known, blind, stored, queue, due, live, gone >>

\* deleteExpiredEvents reads a page, then queues it.
SweepFinds ==
  /\ due = {} /\ Stored \cap late # {} /\ due' = Stored \cap late
  /\ ~\E i \in DOMAIN queue : queue[i].sub = None  \* bound: one page at a time
  /\ UNCHANGED << event, pc, hits, passed, known, blind, stored, queue, late, live, gone >>

SweepQueues ==
  /\ due # {} /\ due' = {} /\ queue' = Append(queue, [sub |-> None, delete |-> due])
  /\ passed' = Counting(None, Len(queue))
  /\ UNCHANGED << event, pc, hits, known, blind, stored, late, live, gone >>

Step(s) ==
  \/ Ready(s) \/ Search(s) \/ CheckDeleted(s) \/ CheckVersion(s)
  \/ FindKeyed(s) \/ FindPrivate(s) \/ FindForeign(s) \/ Select(s) \/ RemoveHits(s) \/ Save(s) \/ Broadcast(s)

Next ==
  \/ \E s \in Sub : \/ \E e \in Event : Receive(s, e) \/ Refuse(s, e) \/ Block(s, e)
                    \/ Step(s) \/ MissVersion(s) \/ Fail(s) \/ Stop(s)
  \/ Apply \/ Consume \/ SweepFinds \/ SweepQueues \/ \E e \in Event : Expire(e)

\* A handler is not starved by the others, and the leader drains the queue.
Fairness == (\A s \in Sub : WF_vars(Step(s))) /\ WF_vars(Apply \/ Consume)
Spec == Init /\ [][Next]_vars /\ Fairness
================================================================================
