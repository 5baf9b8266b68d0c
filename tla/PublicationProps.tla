--------------------------- MODULE PublicationProps ---------------------------
(***************************************************************************)
(* What clients are promised about the events they publish.                *)
(***************************************************************************)
EXTENDS Publication

\* Every field has its type, and what a handler holds it holds only where it
\* uses it (event-handler.js, saver/mdb/index.js).
TypeOK ==
  /\ event \in [Sub -> Event \cup {None}] /\ pc \in [Sub -> {"none", "lost"} \cup Handling \cup Answers]
  /\ blind \subseteq Sub /\ hits \in [Sub -> SUBSET Event] /\ passed \in [Sub -> Nat] /\ known \in [Sub -> SUBSET Event]
  /\ \A s \in Sub : (hits[s] # {} => pc[s] = "remove") /\ (passed[s] > 0 => s \in Writing)
  /\ stored \in [{Ref[e] : e \in Event} -> Event \cup {None}] /\ \A e \in Stored : stored[Ref[e]] = e
  /\ queue \in Seq(Op) /\ {due, late, live, gone} \subseteq SUBSET Event

Kept(e) == e \in Ephemeral \/ e \in Stored \cup gone \/ Queued(e)

\* An event that was answered with OK or shown to subscribers, and is not
\* ephemeral, is stored, waits in the queue, or was stored and has been
\* removed (event-handler.js:119-121, saver/mdb/index.js:285-301).
AcceptedIsKept ==
  /\ \A s \in Sub : pc[s] \in {"ok", "duplicate"} => Kept(event[s])
  /\ \A e \in live : Kept(e)

\* Nothing that was accepted is missing at any moment.
PublicationInv == TypeOK /\ AcceptedIsKept

\* An event that is stored and was never broadcast belongs to a message that is
\* being handled, or whose sender was told to retry, told of an error, or left
\* without an answer: nobody is told OK on behalf of an event subscribers miss,
\* except by the duplicate of such a message (event-handler.js:83-87, 108-110).
SeenOrTold ==
  \A e \in Stored \ live :
    \E s \in Sub : event[s] = e /\ (InFlight(s) \/ pc[s] \in {"retry", "error", "lost"})

\* Message s asks for the removal of e, and may: with the key of a private
\* broadcast, or as the author of any other event but a deletion.  What only came
\* into the index while its three searches were made is taken without the first
\* two.
MayRemove(s, e) ==
  LET d == event[s] IN
  /\ d \in Deletion /\ e \in Targets[d]
  /\ IF d \in Keyed THEN e \in Private /\ Key[e] = Author[d]
     ELSE Author[e] = Author[d] /\ (e \in Private \cup Deletion => e \notin known[s])

\* An event leaves the index for a reason: another version takes its key, the job
\* that removes it found it expired, or the message whose request is carried out
\* may remove it; of a request that found an older version the newer one that
\* replaced it is safe (saver/mdb/index.js:314-440, pending-workflows.js:290-296).
RemovedForAReason ==
  [][\A e \in Stored \ Stored' :
       LET s == Head(queue).sub IN
       \/ stored'[Ref[e]] \in Event
       \/ s = None /\ e \in late
       \/ s \in Sub /\ MayRemove(s, e)]_vars

\* A message cannot undo what was in the index before it came and has been
\* there since: it does not put an older version over a newer one, unless its read
\* of that one failed, and does not bring back an event whose author asked for its
\* deletion (saver/mdb/index.js:78-99).  A deletion cannot be deleted.
PastIsRespected ==
  [][\A e \in Stored' \ Stored :
       LET s == Head(queue).sub IN
       /\ << stored[Ref[e]], e >> \in Newer /\ s \notin blind => stored[Ref[e]] \notin known[s]
       /\ \A d \in Deletion \cap known[s] : e \in Targets[d] \ Deletion => Author[d] # Author[e]]_vars

\* A message is answered unless its process stops, and what was answered with
\* OK gets into the index.
EventuallyStored ==
  /\ \A s \in Sub : pc[s] = "ready" ~> pc[s] \in Answers \cup {"lost"}
  /\ \A s \in Sub : pc[s] = "ok" ~> event[s] \in Ephemeral \cup Stored \cup gone
================================================================================
