--------------------------- MODULE ManifestPoolProps ---------------------------
(***************************************************************************)
(* What the subsidized pool must keep true, whatever the interleaving of   *)
(* savers, processor and job and wherever each of them stops.              *)
(***************************************************************************)
EXTENDS ManifestPool

\* The upsert of r has written its manifest and has not been charged yet.
Written(r) == /\ phase[r] \in {"prepared", "event_applied", "accounting_applied"}
              /\ event[RefOf[doc[r].event]] = doc[r].event

\* Events whose deletion has started and has not been charged to s yet.
Owed(s) == UNION {selected[d] : d \in {x \in Deletion :
             phase[x] \in {"prepared", "events_deleted"} /\ x \notin accountingTokens[s]}}

Held(r) == IF Written(r)
           THEN [bytes |-> doc[r].reserved.bytes - delta[r].bytes,
                 count |-> doc[r].reserved.count - delta[r].count]
           ELSE doc[r].reserved

\* What the reservations of a counter hold together.
HeldBytes(s) == SumFunction([r \in reservationTokens[s] |-> Held(r).bytes])
HeldCount(s) == SumFunction([r \in reservationTokens[s] |-> Held(r).count])

\* Every byte and every manifest a counter shows is a stored event, an event
\* whose deletion is still to be charged, or capacity a reservation holds:
\* nothing is charged twice, lost, or released twice by the token protocol of
\* reserveCounter, settleCounterReservation and applyCounterAccountingOnce.
LedgerBalances ==
  \A s \in Scope :
    LET shown == InScope(s, Stored \cup Owed(s)) IN
    /\ logicalBytes[s] = Bytes(shown) + HeldBytes(s)
    /\ manifestCount[s] = Cardinality(shown) + HeldCount(s)

\* The emergency limit holds for what is stored and for what is counted, also
\* while replacements, cancellations and reconciliations are under way: the
\* admission test of reserveCounter is made against a counter that never shows
\* less than what is stored.
WithinEmergency ==
  \A s \in Scope : /\ Bytes(InScope(s, Stored)) <= logicalBytes[s]
                   /\ logicalBytes[s] <= Emergency[s]

\* A reservation token stays in a counter only while its document is one that
\* recoverManifestReservations still settles: a token without such a document
\* would block applyReconciledCounter on that counter for ever.
ReservationTokensOwned ==
  \A s \in Scope : \A r \in reservationTokens[s] : state[r] \in Live

\* Likewise for the tokens of settlements (cleared by whoever revisits the
\* document) and of deletions (removed when the operation finishes).
OtherTokensOwned ==
  \A s \in Scope :
    /\ \A t \in settlementTokens[s] : state[t[1]] # "absent"
    /\ workflowTokens[s] \subseteq Queued

\* A counter never both commits and cancels a reservation, also when a saver
\* that was told its enqueue failed cancels what the processor is committing
\* (settleCounterReservation, called from the catch block of save).
OneOutcome ==
  \A s \in Scope : \A r \in Reservation :
    ~ {<<r, "commit">>, <<r, "cancel">>} \subseteq settlementTokens[s]

\* A manifest is written only while some reservation for it holds capacity in
\* both counters: addDocuments in processManifestUpsert never runs on a
\* reservation that recovery or the saver has cancelled.
StoredOnlyUnderReservation ==
  [][\A x \in Ref : event'[x] \notin {None, event[x]} =>
       \E r \in reservationTokens[Global] :
         /\ doc[r].event = event'[x]
         /\ r \in reservationTokens[AuthorOf[event'[x]]]]_vars

\* An address never goes back to an older version of its manifest
\* (currentWins), in whatever order duplicate and late saves are processed.
NewestManifestWins ==
  [][\A x \in Ref : event[x] # None /\ event'[x] # None
       => Rank[event[x]] <= Rank[event'[x]]]_vars

-------------------------------------------------------------------------------
(***************************************************************************)
(* Fairness.  An await settles or its process stops; the processor and the *)
(* job run again after they stop (the scheduler restarts them and aborts   *)
(* are bounded); a run of the job pages through every document; and 60     *)
(* seconds pass, so neither a lease nor the hourly reconciliation is put   *)
(* off for ever.                                                           *)
(***************************************************************************)
CallStepOf(a) == CallNext(a) /\ UNCHANGED << event, queueVars, workVars >>

Fairness ==
  /\ \A r \in Reservation : WF_vars(CallStepOf(r) \/ (pc[r] # "idle" /\ Saver(r)) \/ SaverCrash(r))
  /\ WF_vars(CallStepOf(Processor) \/ ProcessorStep)
  /\ WF_vars(CallStepOf(Job) \/ JobStep)
  /\ \A r \in Reservation : SF_vars(JobVisit(r))
  /\ SF_vars(JobCancelOrphan)
  /\ SF_vars(JobSnapshot)

FairSpec == Spec /\ Fairness

\* Counters are rebuilt from the events index again and again
\* (reconcileManifestPoolUsage): no token or stopped run puts it off for ever.
ReconciliationRecurs == []<>(pc[Job] = "reconcile" /\ CanReconcile(Global))

\* Whatever stops on the way, every reservation is settled: its document
\* reaches a terminal state and no counter keeps a token that would block
\* reconciliation.
EventuallySettled ==
  <>[](/\ \A r \in Reservation : state[r] \notin Live
       /\ \A s \in Scope : ~Active(s))

\* What holds of the counters of one author holds of those of two, whose
\* manifests one deletion may remove and whose limits differ from the pool's
\* (a reservation the author's counter refuses after the global one took it).
PoolInv == LedgerBalances /\ WithinEmergency /\ OtherTokensOwned
===============================================================================
