--------------------------- MODULE ManifestLedgerInv ---------------------------
(***************************************************************************)
(* The inductive invariant behind the theorems of ManifestPoolProofs,      *)
(* for savers whose enqueue has a known outcome and stays within the       *)
(* orphan lease: the one processor works through its queue in order, each  *)
(* reservation goes one way (written and charged, or cancelled), and a     *)
(* scan of the events index stays exact until a counter moves.             *)
(***************************************************************************)
EXTENDS ManifestPoolInv

KeyOf(r) == RefOf[doc[r].event]
Scopes(r) == {Global, AuthorScope(r)}

-------------------------------------------------------------------------------
(***************************************************************************)
(* The queue.                                                              *)
(***************************************************************************)
QueueOrdered ==
  /\ \A o \in OpKey : ahead[o] \subseteq Queued
  /\ \A o, p \in Queued : o = p \/ o \in ahead[p] \/ p \in ahead[o]

Prepared(r) == phase[r] = "queued" /\ state[r] = "prepared"

\* Work on an operation has begun, if only in the document of its reservation.
Begun(o) ==
  \/ o \in Started
  \/ pc[Processor] # "idle" /\ o = cur
  \/ o \in Reservation /\ Prepared(o)

IsFirst(o) ==
  /\ o \in Queued
  /\ Started \subseteq {o}
  /\ Started = {} => ahead[o] \cap Queued = {}

\* An operation that stopped half way is taken up again before any other.
OneAtATime == \A o \in OpKey : Begun(o) => IsFirst(o)

-------------------------------------------------------------------------------
(***************************************************************************)
(* The two ways of a reservation.                                          *)
(***************************************************************************)
Applied(r) == Written(r) \/ state[r] \in {"event_applied", "committed"}

Dropped(r) ==
  \/ state[r] \in {"cancel_required", "cancelled", "rejected"}
  \/ phase[r] = "none" /\ pc[r] \in {"cancel", "done", "crashed"}

Stage(r) ==
  CASE phase[r] = "none" ->
         state[r] \in {"absent", "preparing", "reserved", "cancel_required",
                       "cancelled", "rejected"}
    [] phase[r] = "queued" ->
         state[r] \in {"reserved", "prepared", "cancel_required", "cancelled", "rejected"}
    [] phase[r] = "prepared" ->
         \/ state[r] = "prepared"
         \/ state[r] \in {"event_applied", "committed"} /\ Written(r)
    [] phase[r] = "event_applied" ->
         state[r] \in {"event_applied", "committed"} /\ Written(r)
    [] phase[r] = "accounting_applied" -> state[r] = "committed"
    [] phase[r] = "gone" -> state[r] \in Terminal \cup {"absent"}
    [] OTHER -> FALSE

Placed(r) ==
  /\ Stage(r)
  /\ phase[r] # "none" => pc[r] = "done"
  /\ pc[r] = "enqueue" => state[r] = "reserved"

\* Where the processor stands in the operation it runs.
UpsertAt(l, r) ==
  CASE l = "check"   -> phase[r] = "queued" /\ state[r] \in {"reserved", "prepared"}
    [] l = "phase1"  -> phase[r] = "queued" /\ state[r] = "prepared"
    [] l = "apply"   -> phase[r] = "prepared"
    [] l = "applied" -> phase[r] = "prepared" /\ Written(r)
    [] l = "phase2"  -> phase[r] = "prepared" /\ state[r] # "prepared"
    [] l \in {"finalize", "settling"} -> phase[r] = "event_applied"
    [] l \in {"phase3", "failed"}     -> phase[r] = "event_applied" /\ state[r] = "committed"
    [] l = "cancel"  -> phase[r] = "queued" /\ state[r] \in {"cancel_required", "cancelled", "rejected"}
    [] l = "remove"  -> state[r] \in Terminal
    [] OTHER -> l \notin {"compensate"}

Announced(d) == selected[d] = {} \/ d \in workflowTokens[Global]
Accounted(d) == \A s \in Touched(d) \ todo[Processor] : d \in accountingTokens[s]

DeletionAt(l, d) ==
  CASE l = "select"  -> phase[d] = "queued"
    [] l = "begin"   -> phase[d] = "prepared"
    [] l = "delete"  -> phase[d] = "prepared" /\ Announced(d)
    [] l = "deleted" -> phase[d] = "prepared" /\ Announced(d) /\ selected[d] \cap Stored = {}
    [] l = "rebegin" -> phase[d] = "events_deleted"
    [] l = "account" -> phase[d] = "events_deleted" /\ Accounted(d)
    [] l = "clear"   -> phase[d] = "accounting_applied"
    [] l = "remove"  -> phase[d] = "accounting_applied" /\ d \notin workflowTokens[Global]
    [] OTHER -> TRUE

Upserting == cur \in Reservation => UpsertAt(pc[Processor], cur)
Deleting == cur \in Deletion => DeletionAt(pc[Processor], cur)

-------------------------------------------------------------------------------
(***************************************************************************)
(* Reservations: what they hold and what was recorded of them.             *)
(***************************************************************************)
\* From the check on, the recorded amounts are within the reserved ones.
Covered(r) ==
  phase[r] \in {"prepared", "event_applied", "accounting_applied"}
    \/ state[r] \in {"prepared", "event_applied", "committed"}
  => /\ delta[r] # None
     /\ delta[r].bytes <= doc[r].reserved.bytes
     /\ delta[r].count <= doc[r].reserved.count

\* They are exact until the manifest is written.
Exact(r) ==
  phase[r] \in {"queued", "prepared"} /\ state[r] = "prepared" /\ ~Written(r) =>
    LET e == doc[r].event
        old == event[KeyOf(r)]
    IN /\ old # e /\ ~Wins(old, e)
       /\ delta[r].bytes = Size[e] - (IF old = None THEN 0 ELSE Size[old])
       /\ delta[r].count = (IF old = None THEN 1 ELSE 0)

\* A reservation that may still be written holds its tokens.
Backed(r) ==
  /\ pc[r] \in {"author", "rejectAuthor"} => r \in reservationTokens[Global]
  /\ \/ pc[r] \in {"mark", "enqueue"}
     \/ phase[r] \in {"queued", "prepared"} /\ state[r] \in {"reserved", "prepared"} /\ ~Written(r)
     => \A s \in Scopes(r) : r \in reservationTokens[s]

\* Settlements and copies of the document go the reservation's way.
TokensOneWay(r) ==
  \A s \in Scope :
    /\ <<r, "commit">> \in settlementTokens[s] => Applied(r)
    /\ <<r, "cancel">> \in settlementTokens[s] => Dropped(r)
    /\ \A o \in Outcome : <<r, o>> \in settlementTokens[s] =>
         state[r] # "absent" /\ s \in Scopes(r)

PageOneWay(r) ==
  /\ page[r] \in {"cancel_required", "cancelled", "rejected"} =>
       state[r] \in {"cancel_required", "cancelled", "rejected"}
  /\ page[r] \in {"prepared", "event_applied"} =>
       state[r] \in {"prepared", "event_applied", "committed"}
  /\ page[r] = "committed" => state[r] \in {"event_applied", "committed"}

Flagged(r) == Scopes(r) \subseteq settled[r]

\* A settlement token is cleared after the document says it all: a run that
\* finds neither token has lost to one that is over.
Cleared(r, s) == r \notin reservationTokens[s] /\ <<r, "commit">> \notin settlementTokens[s]

ClearedLast(r) ==
  /\ state[r] = "committed" \/ page[r] = "committed" => Flagged(r)
  /\ Applied(r) => \A s \in Scopes(r) : Cleared(r, s) => Flagged(r)
  /\ page[r] \in Terminal => \A s \in Scope : r \notin reservationTokens[s]

Straight(r) ==
  /\ Placed(r) /\ Covered(r) /\ Exact(r) /\ Backed(r)
  /\ TokensOneWay(r) /\ PageOneWay(r) /\ ClearedLast(r)

-------------------------------------------------------------------------------
(***************************************************************************)
(* Runs of finalize and cancel.                                            *)
(***************************************************************************)
CallOneWay(c) ==
  /\ c.outcome = "commit" =>
       /\ Applied(c.r) /\ c.terminal = "committed"
       /\ c.step \in {"settle", "flag", "state", "clear"} => c.delta = delta[c.r]
  /\ c.outcome = "cancel" =>
       /\ c.terminal \in {"cancelled", "rejected"}
       /\ Dropped(c.r) \/ (c.step \in {"read", "done"} /\ phase[c.r] = "gone")
  /\ c.step = "clear" => Flagged(c.r)

OneWay == \A a \in Actor : call[a].step # "off" => CallOneWay(call[a])

\* The processor starts the run that fits its step, and when it is over so is
\* the reservation, also if another run was faster.
ProcessorCall ==
  LET c == call[Processor] IN
  /\ pc[Processor] = "settling" => c.outcome = "commit"
  /\ pc[Processor] = "cancel" => c.outcome = "cancel"
  /\ c.step = "settle" /\ c.outcome = "commit" =>
       /\ Cleared(cur, c.scope) => state[cur] = "committed"
       /\ \A a \in Actor : call[a].step = "clear" /\ call[a].r = cur => state[cur] = "committed"
       /\ page[cur] = "committed" => state[cur] = "committed"
  /\ c.step \in {"clear", "done", "failed"} => state[cur] \in Terminal

\* The job retires a document when its settlement tokens are cleared.
Retiring ==
  pc[Job] = "terminal" =>
    /\ page[visit] \in Terminal
    /\ \A s \in Scopes(visit) \ todo[Job] : \A o \in Outcome : <<visit, o>> \notin settlementTokens[s]

-------------------------------------------------------------------------------
(***************************************************************************)
(* Deletions.                                                              *)
(***************************************************************************)
DeletionOK(d) ==
  /\ phase[d] # "event_applied"
  /\ d \in workflowTokens[Global] =>
       selected[d] # {} /\ phase[d] \in {"prepared", "events_deleted", "accounting_applied"}
  /\ phase[d] \in {"none", "queued", "prepared"} => \A s \in Scope : d \notin accountingTokens[s]
  /\ phase[d] = "prepared" /\ d \notin workflowTokens[Global] => selected[d] \subseteq Stored
  /\ phase[d] = "events_deleted" => Announced(d) /\ selected[d] \cap Stored = {}

Deletions ==
  /\ \A d \in Deletion : DeletionOK(d)
  /\ \A s \in Author : workflowTokens[s] = {}

-------------------------------------------------------------------------------
(***************************************************************************)
(* The counters and the job's scan.                                        *)
(***************************************************************************)
AtHome == \A x \in Ref : event[x] # None => RefOf[event[x]] = x

TokensFinite == \A s \in Scope : IsFiniteSet(reservationTokens[s])

\* The global counter, reconciled first, is still to be written.
Fresh == pc[Job] = "scan" \/ (pc[Job] = "reconcile" /\ Global \in todo[Job])

\* The scan is written to s if nothing moves the counters any more.
Trusted(s) ==
  /\ s \notin moved
  /\ \/ Fresh /\ Global \notin moved
     \/ pc[Job] = "reconcile" /\ Global \notin todo[Job] /\ s \in todo[Job]

ScanOf(s, x) == InScope(s, {seen[x]} \ {None})
Shown(s) == InScope(s, Stored \cup Owed(s))
ShownOf(s, x) == {e \in Shown(s) : RefOf[e] = x}

\* No reservation can be written under s, and none of s is charged twice.
ScanOfExact(s) ==
  /\ reservationTokens[s] \cap reservationTokens[Global] = {}
  /\ \A x \in Ref : seen[x] # "unread" => ScanOf(s, x) = ShownOf(s, x)
  /\ \A d \in accountingTokens[s] : phase[d] = "events_deleted" => selected[d] = {}

ScanExact ==
  /\ pc[Job] \notin {"scan", "reconcile"} => seen = Unread
  /\ pc[Job] = "reconcile" => \A x \in Ref : seen[x] # "unread"
  /\ pc[Job] = "authors" \/ Fresh => Global \in moved \/ ~Active(Global)
  /\ \A s \in Scope : Trusted(s) => ScanOfExact(s)

\* What LedgerBalances says of one counter.
Balanced(s) ==
  /\ logicalBytes[s] = Bytes(Shown(s)) + HeldBytes(s)
  /\ manifestCount[s] = Cardinality(Shown(s)) + HeldCount(s)

QueueInv == QueueOrdered /\ OneAtATime
WaysInv == /\ \A r \in Reservation : Straight(r)
           /\ Upserting /\ OneWay /\ ProcessorCall /\ Retiring /\ AtHome
DeletionsInv == Deleting /\ Deletions

LedgerInv ==
  /\ QueueInv /\ WaysInv /\ DeletionsInv /\ ScanExact
  /\ TokensFinite /\ AmountsOK /\ LedgerBalances

\* What a reconciliation writes is what the counter showed.
RebuildConfirms ==
  [][\A s \in Scope : JobReconcile(s) => UNCHANGED << logicalBytes, manifestCount >>]_vars

\* What was stored at the start was within the limits.
StartsWithin ==
  \A s \in Scope : Bytes(InScope(s, {Earlier[x] : x \in Ref} \ {None})) <= Emergency[s]
===============================================================================
