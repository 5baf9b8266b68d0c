------------------------------ MODULE SerialQueue ------------------------------
(***************************************************************************)
(* What index pendingOps promises its producers.  An accepted operation    *)
(* stays pending until it takes effect, exactly once; operations on one    *)
(* index take effect one after the other, and one is overtaken only by     *)
(* operations that were accepted before it.  A check (quota enforcement)   *)
(* is done with only after the writes of its batch.                        *)
(*                                                                         *)
(* An operation is named by its place in the order of                      *)
(* models/pending-op/order.js: its batch (createdAt, batchId) and its      *)
(* position in it.                                                         *)
(***************************************************************************)
EXTENDS Integers, Sequences, FiniteSets, Folds

CONSTANTS
  Index,      \* indexes the operations write
  Key,        \* primary keys
  Root,       \* keys of the documents whose kind and tags make them carry counters
  Shapes,     \* the batches that producers queue, as queueOps orders them
  MaxBatch,   \* bound: batches
  Late        \* bound: how many later batches may be accepted before one

\* What an operation does to the document it names:
\*   replace  insertOrReplaceDocument
\*   remove   deleteDocumentIfExists
\*   patch    patchDocumentIfExists
\*   count    mergeNip45Hll, for documents that carry counters
\*   merge    deltaUsage, mergeSketch, mergeHll, mergeHashtagStats
\*   check    pruneCheck, for the owner in key
\*   flow     the workflows of pending-workflows.js
\*   bad      an operation that throws, or of an unknown type
Kind == {"replace", "remove", "patch", "count", "merge", "check", "flow", "bad"}
Simple == {"replace", "remove", "patch", "count", "merge"}
Shape == [index : Index, key : Key, kind : Kind]

VARIABLES
  sent,      \* the batches accepted, << >> before
  arrived,   \* their numbers, in the order in which they were accepted
  pending,   \* operations that have not taken effect
  docs       \* the documents

vars == << sent, arrived, pending, docs >>

Batch == 1 .. MaxBatch
\* A document is the sequence of the operations that made it.
Absent == << >>

\* Order of createdAt, batchId and position; key cannot differ after those.
Before(o, p) == o[1] < p[1] \/ (o[1] = p[1] /\ o[2] < p[2])
Latest(S) == CHOOSE o \in S : \A p \in S : p = o \/ Before(p, o)

OpsOf(b, s) == {<< b, p >> : p \in DOMAIN s}
Op == UNION {OpsOf(b, sent[b]) : b \in Batch}
What(o) == sent[o[1]][o[2]]
Of(S, i) == {o \in S : What(o).kind \in Simple /\ What(o).index = i}

\* The document d after operation o.
Effect(d, o) ==
  CASE What(o).kind = "replace" -> << o >>
    [] What(o).kind = "remove" -> Absent
    [] What(o).kind = "patch" -> IF d = Absent THEN Absent ELSE Append(d, o)
    [] What(o).kind = "count" ->
         IF d = Absent \/ What(o).key \notin Root THEN d ELSE Append(d, o)
    [] What(o).kind = "merge" -> Append(d, o)

\* A document after the operations of S that name it, one after the other.
After(d, i, k, S) ==
  LET effect(o, x) == Effect(x, o)
      same(o) == o
  IN MapThenFoldSet(effect, d, same, Latest, {o \in Of(S, i) : What(o).key = k})

AcceptedBefore(b, c) ==
  \E x, y \in DOMAIN arrived : arrived[x] = b /\ arrived[y] = c /\ x < y
Overtakes(S, o) == \E p \in S : Before(o, p) /\ ~ AcceptedBefore(p[1], o[1])

Init ==
  /\ sent = [b \in Batch |-> << >>]
  /\ arrived = << >>
  /\ pending = {}
  /\ docs = [i \in Index |-> [k \in Key |-> Absent]]

\* createdAt is set before the request that carries the batch.
MaySend(b) ==
  /\ sent[b] = << >>
  /\ \A c \in Batch : c + Late < b => sent[c] # << >>

\* queueOps
Accept ==
  \E b \in Batch, s \in Shapes :
    /\ MaySend(b)
    /\ sent' = [sent EXCEPT ![b] = s]
    /\ arrived' = Append(arrived, b)
    /\ pending' = pending \cup OpsOf(b, s)
    /\ UNCHANGED docs

\* Operations on one index take effect together.
Apply(i) ==
  \E S \in (SUBSET Of(pending, i)) \ {{}} :
    /\ \A o \in Of(pending, i) \ S : ~ Overtakes(S, o)
    /\ docs' = [docs EXCEPT ![i] = [k \in Key |-> After(docs[i][k], i, k, S)]]
    /\ pending' = pending \ S
    /\ UNCHANGED << sent, arrived >>

\* Removals may become visible before the other operations around them.
RemoveEarly(i) ==
  \E K \in (SUBSET Key) \ {{}} :
    /\ \A k \in K : \E o \in Of(pending, i) :
         What(o).kind = "remove" /\ What(o).key = k
    /\ docs' = [docs EXCEPT ![i] = [k \in Key |-> IF k \in K THEN Absent ELSE docs[i][k]]]
    /\ UNCHANGED << sent, arrived, pending >>

\* What writes no document leaves: bad operations, and checks and workflows
\* that are done with.
Leave ==
  \E S \in (SUBSET {o \in pending : What(o).kind \notin Simple}) \ {{}} :
    /\ \A o \in S : What(o).kind = "check" =>
         \A p \in pending \ S : p[1] = o[1] => What(p).kind = "check"
    /\ pending' = pending \ S
    /\ UNCHANGED << sent, arrived, docs >>

Next == Accept \/ Leave \/ \E i \in Index : Apply(i) \/ RemoveEarly(i)

Spec == Init /\ [][Next]_vars
================================================================================
