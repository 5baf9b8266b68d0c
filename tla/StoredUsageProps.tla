--------------------------- MODULE StoredUsageProps ---------------------------
(***************************************************************************)
(* What the accounting of ordinary owners must keep to.                    *)
(***************************************************************************)
EXTENDS StoredUsage

TypeOK ==
  /\ of \in [Event -> Owner \cup {Gone}]
  /\ owner \in [Owner -> Doc]
  /\ queue \in Seq(Op)
  /\ \A m, n \in DOMAIN queue : queue[m].name = queue[n].name =>
       m = n \/ queue[m].name = NoName
  /\ saved \subseteq Event
  /\ drift \in [Owner -> 0 .. MaxDrift]
  /\ seen \in 0 .. MaxSeen /\ sweeps \in 0 .. MaxSweeps /\ stops \in 0 .. MaxStops
  /\ done \in {"nothing", "charged", "queued", "cleared"}
  /\ mode \in {"relay", "resuming", "reconciling"} /\ listed \subseteq Owner /\ unchecked \subseteq Owner

\* What operation op has already done to the events of owner o, and not yet
\* to its usedBytes.
Uncharged(op, o) ==
  IF op.phase \in {"prepared", "events_applied"} /\ Token(op) \notin owner[o].tokens
    THEN Cardinality({a \in op.acts : a.to = o /\ of[a.event] = o})
         - Cardinality({a \in op.acts : a.from = o /\ of[a.event] # o})
    ELSE 0

\* One workflow at a time: a started one is resumed before anything else.
OneAtATime == \A m, n \in StartedWorkflows : m = n

\* An owner is charged for exactly the bytes it stores, whatever the workflow
\* that removes or passes them on has come to when it stops: nothing is charged
\* twice, forgotten, or left with a former owner.
UsageBalances ==
  \A o \in Owner :
    LET balance(uncharged) == owner[o].used + uncharged = Cardinality(Stored(o)) + drift[o]
    IN /\ StartedWorkflows = {} => balance(0)
       /\ \A n \in StartedWorkflows : balance(Uncharged(queue[n], o))

\* A token outlives its workflow nowhere: keys of checks are used again
\* (deterministicPruneKey) and their steps begin at 0, so a token left behind
\* would make a later charge look applied.
TokensAreOwned ==
  \A o \in Owner : \A t \in owner[o].tokens :
    \E n \in DOMAIN queue :
      /\ Token(queue[n]) = t
      /\ queue[n].phase \in {"events_applied", "accounting_applied"}

\* Charges and the tokens that make them happen once, at every moment.
UsageInv == TypeOK /\ OneAtATime /\ UsageBalances /\ TokensAreOwned

\* An IP's document goes only when it stores nothing, and no accounting that is
\* under way counts on it.
OnlyIdleOwnersGo ==
  [][\A o \in Owner : owner[o].there /\ ~ owner'[o].there =>
       Stored(o) = {} /\ owner[o].tokens = {} /\ owner[o].used = 0 ]_vars

\* A check leaves the queue when its owner is within the limit it was to
\* enforce, is active again, or has gone; a stop never makes it skip its work.
\* Only an error that is not the network's, met before it has begun, uses it up
\* undone (pending-workflows.js:417-421).
ChecksEnforce ==
  [][\A n \in DOMAIN queue :
       LET op == queue[n] IN
       op.kind = "check" /\ (\A m \in DOMAIN queue' : queue'[m].name # op.name) =>
         ~ owner'[op.owner].there \/ ~ StillStale(op) \/ owner'[op.owner].used <= op.limit
         \/ FailCheck(n)]_vars

\* Everything queued is eventually done with, and an author to whom events were
\* passed is brought back under its own limit, unless such an error used up a
\* check of it.
ChecksEnd ==
  /\ (queue # << >>) ~> (queue = << >>)
  /\ \A a \in Rising : (\E e \in Event : of[e] = a) ~> (owner[a].used <= Limit[a] \/ a \in unchecked)
================================================================================
