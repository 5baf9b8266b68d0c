-------------------------------- MODULE JobWorker --------------------------------
(***************************************************************************)
(* The job scheduler of every relay process on top of the lease: only the  *)
(* process that leads (the owner of the Unix socket) runs locked jobs.     *)
(* Gaining and losing leadership are queued as transitions, one at a time; *)
(* an activation waits for the mutations it finds in the task queue and    *)
(* may be overtaken by news of the loss at every await.                    *)
(***************************************************************************)
EXTENDS JobLease

CONSTANTS
  Split,        \* whether a process may win the socket while another still
                \* believes it has it (a leader too busy to answer the probe)
  MaxTerms,     \* bound: how often leadership is gained
  MaxRequests,  \* bound: requests from outside
  MaxFailures   \* bound: activations that fail

ASSUME WorkerAssumption ==
  Split \in BOOLEAN /\ MaxTerms \in Nat /\ MaxRequests \in Nat /\ MaxFailures \in Nat

VARIABLES
  leading,   \* processes that own the socket as far as they know
  chain,     \* per process, transitions that wait for the one under way
  stage,     \* where the transition under way stands
  ahead,     \* tasks its barrier still waits for
  cut,       \* whether its activation was aborted
  runtime,   \* leaderRuntime
  retry,     \* whether activationRetryTimer is set
  terms, requests, failures

workerVars == << leading, chain, stage, ahead, cut, runtime, retry, terms, requests, failures >>
vars == << leaseVars, workerVars >>

Stage == {"idle", "barrier", "ensure", "settling"}

WorkerOK ==
  /\ leading \subseteq Worker
  /\ chain \in [Worker -> Seq(BOOLEAN)]
  /\ stage \in [Worker -> Stage]
  /\ ahead \in [Worker -> Nat]
  /\ cut \in [Worker -> BOOLEAN]
  /\ runtime \in [Worker -> {"none", "active", "stopped"}]
  /\ retry \in [Worker -> BOOLEAN]
  /\ terms \in 0..MaxTerms
  /\ requests \in 0..MaxRequests
  /\ failures \in 0..MaxFailures

TypeOK == LeaseOK /\ WorkerOK

Init ==
  /\ LeaseInit
  /\ leading = {}
  /\ chain = [w \in Worker |-> << >>]
  /\ stage = [w \in Worker |-> "idle"]
  /\ ahead = [w \in Worker |-> 0]
  /\ cut = [w \in Worker |-> FALSE]
  /\ runtime = [w \in Worker |-> "none"]
  /\ retry = [w \in Worker |-> FALSE]
  /\ terms = 0
  /\ requests = 0
  /\ failures = 0

-------------------------------------------------------------------------------
(***************************************************************************)
(* leadershipChanged: what happens at once when the socket is won or lost. *)
(***************************************************************************)
Announce(w, leads) == chain' = [chain EXCEPT ![w] = Append(@, leads)]

Elect(w) ==
  /\ w \in alive \ leading /\ terms < MaxTerms
  /\ leading = {} \/ Split
  /\ leading' = leading \cup {w}
  /\ terms' = terms + 1
  /\ Announce(w, TRUE)
  /\ UNCHANGED << leaseVars, stage, ahead, cut, runtime, retry, requests, failures >>

\* stopRuntime: no timer fires any more, and the run's signal is aborted.
StopRuntime(w) ==
  IF runtime[w] = "active"
  THEN runtime' = [runtime EXCEPT ![w] = "stopped"] /\ Abort(w)
  ELSE UNCHANGED << runtime, aborted, since >>

Depose(w) ==
  /\ w \in alive \cap leading
  /\ leading' = leading \ {w}
  /\ retry' = [retry EXCEPT ![w] = FALSE]
  /\ cut' = [cut EXCEPT ![w] = TRUE]
  /\ StopRuntime(w)
  /\ Announce(w, FALSE)
  /\ UNCHANGED << record, tasks, current, alive, run, beat, resume, pulse,
                  stage, ahead, terms, requests, failures >>

\* The process of any actor stops; at least one worker is left.
Crash(a) ==
  /\ a \in alive /\ Worker \cap (alive \ {a}) # {}
  /\ alive' = alive \ {a}
  /\ leading' = leading \ {a}
  /\ UNCHANGED << record, tasks, current, run, beat, aborted, resume, since, pulse,
                  chain, stage, ahead, cut, runtime, retry, terms, requests, failures >>

-------------------------------------------------------------------------------
(***************************************************************************)
(* activateLeader and deactivateLeader.                                    *)
(***************************************************************************)
\* A transition is taken up; it may be out of date already.
BeginActivation(w) ==
  /\ w \in alive /\ stage[w] = "idle" /\ chain[w] # << >> /\ Head(chain[w])
  /\ chain' = [chain EXCEPT ![w] = Tail(@)]
  /\ IF w \in leading /\ runtime[w] = "none"
     THEN /\ stage' = [stage EXCEPT ![w] = "barrier"]
          /\ ahead' = [ahead EXCEPT ![w] = Len(tasks)]
          /\ cut' = [cut EXCEPT ![w] = FALSE]
     ELSE UNCHANGED << stage, ahead, cut >>
  /\ UNCHANGED << leaseVars, leading, runtime, retry, terms, requests, failures >>

BeginDeactivation(w) ==
  /\ w \in alive /\ stage[w] = "idle" /\ chain[w] # << >> /\ ~Head(chain[w])
  /\ chain' = [chain EXCEPT ![w] = Tail(@)]
  /\ runtime' = [runtime EXCEPT ![w] = "none"]
  /\ IF runtime[w] = "active" THEN Abort(w) ELSE UNCHANGED << aborted, since >>
  /\ stage' = [stage EXCEPT ![w] = IF runtime[w] = "none" THEN "idle" ELSE "settling"]
  /\ UNCHANGED << record, tasks, current, alive, run, beat, resume, pulse,
                  leading, ahead, cut, retry, terms, requests, failures >>

\* Mutant: leadership is not looked at again after the awaits.
StillLeadsUnchecked(w) == TRUE

\* desiredLeadership && !activationController.signal.aborted
StillLeads(w) == w \in leading /\ ~cut[w]

Proceed(w, next) == stage' = [stage EXCEPT ![w] = IF StillLeads(w) THEN next ELSE "idle"]

\* The barrier is passed, or its wait is aborted.
Barrier(w) ==
  /\ w \in alive /\ stage[w] = "barrier"
  /\ ahead[w] = 0 \/ cut[w]
  /\ Proceed(w, "ensure")
  /\ UNCHANGED << leaseVars, leading, chain, ahead, cut, runtime, retry, terms, requests, failures >>

\* Mutant: a failed activation is not tried again.
RetryForgotten(w) == FALSE

RetryNeeded(w) == w \in leading /\ runtime[w] = "none"

\* Waiting or ensuring fails: the activation is tried again later.
ActivationFails(w) ==
  /\ w \in alive /\ stage[w] \in {"barrier", "ensure"} /\ run[w] = "off"
  /\ failures < MaxFailures
  /\ failures' = failures + 1
  /\ stage' = [stage EXCEPT ![w] = "idle"]
  /\ retry' = [retry EXCEPT ![w] = RetryNeeded(w)]
  /\ UNCHANGED << leaseVars, leading, chain, ahead, cut, runtime, terms, requests >>

Retry(w) ==
  /\ w \in alive /\ retry[w]
  /\ retry' = [retry EXCEPT ![w] = FALSE]
  /\ Announce(w, TRUE)
  /\ UNCHANGED << leaseVars, leading, stage, ahead, cut, runtime, terms, requests, failures >>

EnsureRecord(w) ==
  /\ stage[w] = "ensure" /\ Missing(w)
  /\ UNCHANGED workerVars

Activate(w) ==
  /\ w \in alive /\ stage[w] = "ensure" /\ run[w] = "off" /\ record # None
  /\ runtime' = [runtime EXCEPT ![w] = IF StillLeads(w) THEN "active" ELSE @]
  /\ stage' = [stage EXCEPT ![w] = "idle"]
  /\ UNCHANGED << leaseVars, leading, chain, ahead, cut, retry, terms, requests, failures >>

\* settleRuntime: the run under way is awaited.
Settle(w) ==
  /\ w \in alive /\ stage[w] = "settling" /\ run[w] = "off"
  /\ stage' = [stage EXCEPT ![w] = "idle"]
  /\ UNCHANGED << leaseVars, leading, chain, ahead, cut, runtime, retry, terms, requests, failures >>

-------------------------------------------------------------------------------

\* maybeTriggerJob.  Whether the frequency has elapsed or a request is newer
\* than the last end is left open.
Due(w) ==
  \/ ~Running /\ (~Manual \/ record.again)
  \/ ~Manual /\ (Stalled \/ OwnerDied)

MaybeTrigger(w) ==
  /\ runtime[w] = "active" /\ record # None /\ Due(w)
  /\ TryAcquire(w)
  /\ UNCHANGED workerVars

OneLess(n) == IF n > 0 THEN n - 1 ELSE 0

ApplyTask ==
  /\ Apply
  /\ ahead' = [w \in Worker |-> OneLess(ahead[w])]
  /\ UNCHANGED << leading, chain, stage, cut, runtime, retry, terms, requests, failures >>

OutsideRequest ==
  /\ requests < MaxRequests
  /\ requests' = requests + 1
  /\ Request
  /\ UNCHANGED << leading, chain, stage, ahead, cut, runtime, retry, terms, failures >>

Transition(w) ==
  \/ BeginActivation(w) \/ BeginDeactivation(w) \/ Barrier(w) \/ EnsureRecord(w)
  \/ Activate(w) \/ Settle(w) \/ Retry(w)

Next ==
  \/ ApplyTask
  \/ \E a \in Actor : (RunStep(a) /\ UNCHANGED workerVars) \/ Crash(a)
  \/ \E w \in Worker : \/ Elect(w) \/ Depose(w) \/ Transition(w) \/ ActivationFails(w)
                       \/ MaybeTrigger(w)
  \/ \E o \in Operator : Operate(o) /\ UNCHANGED workerVars
  \/ OutsideRequest
  \/ Tick /\ UNCHANGED workerVars

Spec == Init /\ [][Next]_vars
===============================================================================
