------------------------------ MODULE MCPendingOps ------------------------------
EXTENDS PendingOpsProps

op(i, kind) == [index |-> i, key |-> "k", kind |-> kind]

\* A save over the limit (its check comes first in the list it queues), a
\* deletion, a change of some fields, a counter, a workflow, a malformed one.
MCShapes == {
  << op("owners", "check"), op("events", "replace"), op("owners", "merge") >>,
  << op("events", "remove"), op("owners", "merge") >>,
  << op("events", "patch") >>,
  << op("events", "count"), op("events", "bad") >>,
  << op("events", "flow") >> }
================================================================================
