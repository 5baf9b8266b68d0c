---------------------------- MODULE PendingOpsProps ----------------------------
(***************************************************************************)
(* What the processor of pending operations must keep to.                  *)
(***************************************************************************)
EXTENDS PendingOps

Doc == Seq(Op)

TypeOK ==
  /\ sent \in [Serial!Batch -> Seq(Serial!Shape)]
  /\ arrived \in Seq(Serial!Batch)
  /\ docs \in [Index -> [Key -> Doc]]
  /\ queue \subseteq Op /\ started \subseteq queue
  /\ state \in [Index -> SUBSET Op] /\ seen \in [Index -> SUBSET Op]
  /\ pc \in {"off", "fetch", "batch", "simple", "commit", "dequeue", "checks"}
  /\ buffer \subseteq queue
  /\ batch \subseteq queue /\ segment \subseteq queue
  /\ consumed \subseteq segment /\ owners \subseteq Key /\ spare \subseteq queue
  /\ \A i \in Index :
       /\ plan[i].stage \in {"delete", "write", "done"}
       /\ plan[i].ids \subseteq segment /\ plan[i].dels \subseteq Key
       /\ DOMAIN plan[i].puts \subseteq Key
  /\ stops \in 0 .. MaxStops /\ steps \in 0 .. MaxSteps

\* The processor implements the queue that its producers rely on: whatever it
\* is doing when it stops, each operation takes effect once and in turn, and a
\* check leaves after the writes of its batch ("a prune reads the writes
\* represented by its logical batch", queueOps).
ServesQueue == Serial!Spec

\* No update is lost on the way: an operation that left the queue is in the
\* document it names, unless that was replaced or removed after it.
LeftItsMark ==
  \A o \in Op \ queue :
    What(o).kind \in {"replace", "merge"} =>
      LET d == docs[What(o).index][What(o).key]
      IN \/ \E n \in DOMAIN d : d[n] = o
         \/ \E p \in Op : /\ p # o /\ What(p).kind \in {"replace", "remove"}
                          /\ What(p).index = What(o).index
                          /\ What(p).key = What(o).key

\* At no moment is the queue's content out of step with the documents.
QueueInv == TypeOK /\ LeftItsMark

\* Whatever is queued leaves the queue: neither malformed operations, nor
\* checks that are coalesced, skipped or left in a phase, stay for ever.
QueueDrains == (queue # {}) ~> (queue = {})
================================================================================
