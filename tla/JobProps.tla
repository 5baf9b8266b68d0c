--------------------------------- MODULE JobProps ---------------------------------
(***************************************************************************)
(* What the scheduler promises about one locked job.                       *)
(***************************************************************************)
EXTENDS JobWorker, FiniteSets

Executing == {a \in alive : run[a] = "body"}

\* The job's body never runs twice at once, in whatever order leadership moves,
\* processes die and requests are applied, as long as requests are answered
\* within MaxDelay and an aborted body is left within WindDown (the heartbeats
\* of startJob against the tolerance in maybeTriggerJob).
OneRunner == Cardinality(Executing) <= 1

\* A run that believes in its lease has it: the record says so until the run
\* itself ends it, also against the late end or heartbeat of a former run and
\* against --reset-stalled.
LeaseIsHeld ==
  \A a \in Executing : ~aborted[a] => Running /\ record.lock = a

\* However late its requests are, a run that was superseded never ends the
\* lease of its successor (patchJobIfOwned): the record stops running only for
\* a run that has left its body, or that was reset or put again.
EndIsFenced ==
  [][ Running /\ ~Running' /\ tasks # << >> /\ Head(tasks).kind = "end"
        => run[record.lock] = "ending" ]_vars

\* A process has timers for locked jobs only while it leads (leadershipChanged
\* stops the runtime at once; activateLeader looks again after every await).
RuntimeLeads == \A w \in Worker \cap alive : runtime[w] = "active" => w \in leading

\* "The revision written by the conditional function is the authoritative CAS
\* result" (patchJobByRevision): whoever wins the lease learns that it did, so
\* no running record belongs to a live process that has no run.
WonLeaseIsUsed ==
  Running /\ record.lock \in alive => run[record.lock] \notin {"off", "put", "ensuring"}

\* The lease excludes: one run at a time, which holds the lease it believes in,
\* and no lease without a run.
LeaseInv == TypeOK /\ OneRunner /\ LeaseIsHeld /\ WonLeaseIsUsed

-------------------------------------------------------------------------------
(***************************************************************************)
(* Fairness: requests are applied and answered, promises settle, timers    *)
(* fire and a body ends; some process wins the socket.  The bounded trouble*)
(* (crashes, losses of leadership, requests) needs no fairness.            *)
(***************************************************************************)
Fairness ==
  /\ WF_vars(ApplyTask)
  /\ WF_vars(Tick /\ UNCHANGED workerVars)
  /\ \A a \in Actor : WF_vars(RunStep(a) /\ UNCHANGED workerVars)
  /\ \A w \in Worker : /\ WF_vars(Transition(w))
                       /\ WF_vars(Elect(w))
                       /\ WF_vars(MaybeTrigger(w))

FairSpec == Spec /\ Fairness

\* The job goes on being run, whatever failed or was overtaken while its leader
\* was activated, and after crashes, lost leases and lost answers: no sequence
\* leaves a leader without timers, or a record that nobody takes over.
JobRecurs ==
  \A w \in Worker : <>[](w \in alive \cap leading) => []<>(Executing # {})
===============================================================================
