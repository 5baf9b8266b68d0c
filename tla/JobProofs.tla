--------------------------------- MODULE JobProofs ---------------------------------
(***************************************************************************)
(* Timers for locked jobs exist only in a process that leads, a late end   *)
(* is fenced, and the lease excludes: one run at a time, as long as a      *)
(* request and its answer, a heartbeat and the end of an aborted body take *)
(* less than the tolerance.                                                *)
(***************************************************************************)
EXTENDS JobProps, SequenceTheorems, FiniteSetTheorems, TLAPS

\* runtime is a function, so that a step on one process leaves the others alone.
LeadInv == runtime \in [Worker -> {"none", "active", "stopped"}] /\ RuntimeLeads

\* At the start no process has timers.
LEMMA LeadInit == Init => LeadInv
BY DEF Init, LeadInv, RuntimeLeads

\* Losing leadership stops the timers in the same step; gaining timers looks at
\* leadership in the same step.
LEMMA LeadStep == LeadInv /\ [Next]_vars => LeadInv'
<1> SUFFICES ASSUME LeadInv, [Next]_vars PROVE LeadInv'
  OBVIOUS
<1>1. ASSUME runtime' = runtime, alive' \subseteq alive,
             \A w \in alive' : w \in leading => w \in leading'
      PROVE  LeadInv'
  BY <1>1 DEF LeadInv, RuntimeLeads
<1>2. ASSUME UNCHANGED workerVars, alive' = alive PROVE LeadInv'
  BY <1>1, <1>2 DEF workerVars
<1>3. CASE ApplyTask \/ OutsideRequest
  BY <1>1, <1>3 DEF ApplyTask, Apply, OutsideRequest, Request
<1>4. ASSUME NEW a \in Actor, RunStep(a), UNCHANGED workerVars PROVE LeadInv'
  BY <1>2, <1>4
    DEF RunStep, AcquireRead, Heartbeat, HeartbeatRead, Leave, End, Put
<1>5. ASSUME NEW a \in Actor, Crash(a) PROVE LeadInv'
  BY <1>1, <1>5 DEF Crash
<1>6. ASSUME NEW w \in Worker, Elect(w) PROVE LeadInv'
  BY <1>1, <1>6 DEF Elect, leaseVars
<1>7. ASSUME NEW w \in Worker, Depose(w) PROVE LeadInv'
  <2>1. CASE runtime[w] = "active"
    BY <1>7, <2>1 DEF Depose, StopRuntime, LeadInv, RuntimeLeads
  <2>2. CASE runtime[w] # "active"
    BY <1>7, <2>2 DEF Depose, StopRuntime, LeadInv, RuntimeLeads
  <2> QED
    BY <2>1, <2>2
<1>8. ASSUME NEW w \in Worker, Transition(w) PROVE LeadInv'
  <2>1. CASE \/ BeginActivation(w) \/ Barrier(w) \/ EnsureRecord(w) \/ Settle(w) \/ Retry(w)
    BY <1>1, <2>1 DEF BeginActivation, Barrier, EnsureRecord, Missing, Settle, Retry, leaseVars,
      workerVars
  <2>2. CASE BeginDeactivation(w)
    BY <2>2 DEF BeginDeactivation, LeadInv, RuntimeLeads
  <2>3. CASE Activate(w)
    BY <2>3 DEF Activate, StillLeads, LeadInv, RuntimeLeads, leaseVars
  <2> QED
    BY <1>8, <2>1, <2>2, <2>3 DEF Transition
<1>9. ASSUME NEW w \in Worker, ActivationFails(w) \/ MaybeTrigger(w) PROVE LeadInv'
  BY <1>1, <1>9 DEF ActivationFails, MaybeTrigger, TryAcquire, leaseVars, workerVars
<1>10. ASSUME NEW o \in Operator, Operate(o), UNCHANGED workerVars PROVE LeadInv'
  BY <1>2, <1>10 DEF Operate, Missing, Trigger, TryAcquire, ResetStalled, OperatorAbort
<1>11. CASE Tick /\ UNCHANGED workerVars
  BY <1>2, <1>11 DEF Tick
<1>12. CASE UNCHANGED vars
  BY <1>2, <1>12 DEF vars, leaseVars
<1> QED
  BY <1>3, <1>4, <1>5, <1>6, <1>7, <1>8, <1>9, <1>10, <1>11, <1>12 DEF Next

\* A process runs locked jobs on timers only while it leads, for any number of
\* processes, terms, crashes and failures, and also while two of them believe
\* to lead.
THEOREM TimersLead == Spec => []RuntimeLeads
<1>1. LeadInv => RuntimeLeads
  BY DEF LeadInv
<1> QED
  BY LeadInit, LeadStep, <1>1, PTL DEF Spec

-------------------------------------------------------------------------------
(***************************************************************************)
(* Requests and runs                                                       *)
(***************************************************************************)
\* Where a run waits for a request of the given kind.
WaitsIn(kind) ==
  CASE kind = "acquire" -> "acquiring"
    [] kind = "end" -> "ending"
    [] kind = "put" -> "ensuring"
    [] OTHER -> "resetting"

\* A request in the queue is one that its actor waits for; one of a run, and
\* one of its heartbeat.
Beats(j) == tasks[j].kind = "heartbeat"
Awaited(j) ==
  IF tasks[j].kind = "request" THEN tasks[j].by = None
  ELSE /\ tasks[j].by \in Actor
       /\ IF Beats(j) THEN beat[tasks[j].by] = "sent"
                      ELSE run[tasks[j].by] = WaitsIn(tasks[j].kind)
TasksAwaited == \A j \in DOMAIN tasks : Awaited(j)
TasksApart ==
  \A i, j \in DOMAIN tasks :
    i # j /\ tasks[i].by = tasks[j].by /\ tasks[i].by # None => (Beats(i) <=> ~Beats(j))

\* Only a run has heartbeats.
BeatsInRun == \A a \in Actor : beat[a] # "none" => run[a] \in {"body", "stopping"}

RequestInv == LeaseOK /\ TasksAwaited /\ TasksApart /\ BeatsInRun

-------------------------------------------------------------------------------
(***************************************************************************)
(* The lease                                                               *)
(***************************************************************************)
\* The bounds: a heartbeat that is slow, or a body slow to stop, is in time.
InTime ==
  /\ MaxDelay + Interval + MaxDelay < Tolerance
  /\ MaxDelay + Interval + WindDown < Tolerance

\* Who is about to take or to reset the lease, and whose revision is up to
\* date, found it free; it is free still.
Free == ~Running \/ Stalled \/ OwnerDied
Takable(a) ==
  a \in current => (run[a] = "acquiring" => Free) /\ (run[a] = "resetting" => Stalled)

\* A revision read back that is one's own: the lease is won, and its age known.
Prompt(a) == run[a] = "acquiring" \/ (run[a] = "acquired" /\ a \in alive) => since[a] <= MaxDelay
Won(a) ==
  run[a] = "acquired" /\ a \in current => Running /\ record.lock = a /\ record.age <= since[a]

\* A body holds the lease, aborted or not, and its heartbeats keep it young.
Young(a) ==
  /\ Running /\ record.lock = a
  /\ aborted[a] => since[a] <= WindDown
  /\ beat[a] = "timer" => pulse[a] <= Interval /\ record.age <= MaxDelay + pulse[a]
  /\ beat[a] = "sent" =>
       pulse[a] <= MaxDelay /\ record.age <= MaxDelay + Interval + pulse[a]
  /\ beat[a] = "answered" => pulse[a] <= MaxDelay /\ record.age <= pulse[a]
  /\ beat[a] = "none" => aborted[a] /\ record.age <= MaxDelay + Interval + since[a]

LeaseOf(a) ==
  /\ run[a] \notin {"put", "ensuring"}
  /\ Takable(a) /\ Prompt(a) /\ Won(a)
  /\ a \in Executing => Young(a)

\* Once there is a record it stays, and nobody puts one.
HeldInv == RequestInv /\ record # None /\ \A a \in Actor : LeaseOf(a)

\* Without requests from outside a lease that was won stays known to its winner.
Owned == Running /\ record.lock \in alive
Using(a) == run[a] \in {"body", "stopping", "ending"} \/ (run[a] = "acquired" /\ a \in current)
Used ==
  /\ \A j \in DOMAIN tasks : tasks[j].kind # "request"
  /\ Owned => Using(record.lock)

-------------------------------------------------------------------------------
(***************************************************************************)
(* The queue of requests                                                   *)
(***************************************************************************)
Kinds == {"acquire", "heartbeat", "end", "put", "reset"}

\* A run's request is answered to a run that waits for it.
LEMMA WaitsQueued ==
  \A k \in {"acquire", "end", "put", "reset"} : WaitsIn(k) \in Queued
BY DEF WaitsIn, Queued

\* What an actor waits for stays in the queue.
LEMMA StaysAwaited ==
  ASSUME RequestInv, tasks' = tasks,
         \A b \in Actor : /\ beat[b] = "sent" => beat'[b] = "sent"
                          /\ run[b] \in Queued => run'[b] = run[b]
  PROVE  TasksAwaited' /\ TasksApart'
<1>1. tasks \in Seq(Task) /\ TasksAwaited /\ TasksApart
  BY DEF RequestInv, LeaseOK
<1>2. TasksApart'
  BY <1>1 DEF TasksApart, Beats
<1>3. ASSUME NEW j \in DOMAIN tasks PROVE Awaited(j)'
  <2>1. Awaited(j) /\ tasks[j] \in Task
    BY <1>1 DEF TasksAwaited
  <2>2. CASE tasks[j].kind = "request"
    BY <2>1, <2>2 DEF Awaited
  <2>3. CASE tasks[j].kind = "heartbeat"
    BY <2>1, <2>3 DEF Awaited, Beats
  <2>4. CASE tasks[j].kind \in {"acquire", "end", "put", "reset"}
    <3>1. tasks[j].by \in Actor /\ run[tasks[j].by] = WaitsIn(tasks[j].kind)
      BY <2>1, <2>4 DEF Awaited, Beats
    <3>2. WaitsIn(tasks[j].kind) \in Queued
      BY <2>4, WaitsQueued
    <3> QED
      BY <2>4, <3>1, <3>2 DEF Awaited, Beats
  <2> QED
    BY <2>1, <2>2, <2>3, <2>4 DEF Task
<1> QED
  BY <1>2, <1>3 DEF TasksAwaited

\* A request that is sent is one its actor begins to wait for.
LEMMA SendKeeps ==
  ASSUME RequestInv, NEW a \in Actor, NEW k \in Kinds, Send(k, a),
         \A b \in Actor : b # a => run'[b] = run[b] /\ beat'[b] = beat[b],
         IF k = "heartbeat"
         THEN beat'[a] = "sent" /\ run'[a] = run[a] /\ beat[a] # "sent"
         ELSE run'[a] = WaitsIn(k) /\ beat'[a] = beat[a] /\ run[a] \notin Queued
  PROVE  tasks' \in Seq(Task) /\ TasksAwaited' /\ TasksApart'
<1> DEFINE t == [kind |-> k, by |-> a]
           n == Len(tasks) + 1
<1>1. tasks \in Seq(Task) /\ TasksAwaited /\ TasksApart /\ None \notin Actor
  BY LeaseAssumption DEF RequestInv, LeaseOK
<1>2. t \in Task /\ t.kind = k /\ t.by = a
  BY DEF Task, Kinds
<1>3. /\ tasks' \in Seq(Task) /\ tasks'[n] = t
      /\ DOMAIN tasks' = 1 .. n /\ n \in Nat
      /\ \A j \in DOMAIN tasks : tasks'[j] = tasks[j]
      /\ DOMAIN tasks = 1 .. n - 1
  <2> HIDE DEF t
  <2>1. tasks' = Append(tasks, t)
    BY DEF Send, t
  <2>2. /\ tasks' \in Seq(Task) /\ Len(tasks') = n
        /\ \A i \in 1 .. Len(tasks) : tasks'[i] = tasks[i]
        /\ tasks'[n] = t
    BY <1>1, <1>2, <2>1, AppendProperties
  <2> QED
    BY <1>1, <2>2
<1>4. \A j \in DOMAIN tasks' : j \in DOMAIN tasks \/ j = n
  BY <1>3
<1>5. ASSUME NEW j \in DOMAIN tasks, tasks[j].by = a
      PROVE  Beats(j) <=> k # "heartbeat"
  <2>1. Awaited(j) /\ tasks[j] \in Task /\ tasks[j].kind # "request"
    BY <1>1, <1>5 DEF TasksAwaited, Awaited
  <2>2. CASE Beats(j)
    BY <1>5, <2>1, <2>2 DEF Awaited
  <2>3. CASE ~ Beats(j)
    <3>1. run[a] = WaitsIn(tasks[j].kind) /\ tasks[j].kind \in {"acquire", "end", "put", "reset"}
      BY <1>5, <2>1, <2>3 DEF Awaited, Task, Beats
    <3>2. run[a] \in Queued
      BY <3>1, WaitsQueued
    <3> QED
      BY <2>3, <3>2
  <2> QED
    BY <2>2, <2>3
<1> HIDE DEF t, n
<1>6. TasksAwaited'
  <2> SUFFICES ASSUME NEW j \in DOMAIN tasks' PROVE Awaited(j)'
    BY DEF TasksAwaited
  <2>1. CASE j = n
    BY <1>1, <1>2, <1>3, <2>1 DEF Awaited, Beats, Kinds
  <2>2. CASE j \in DOMAIN tasks
    <3>1. Awaited(j) /\ tasks'[j] = tasks[j]
      BY <1>1, <1>3, <2>2 DEF TasksAwaited
    <3>2. CASE tasks[j].by # a
      BY <1>1, <3>1, <3>2 DEF Awaited, Beats
    <3>3. CASE tasks[j].by = a
      BY <1>1, <1>5, <2>2, <3>1, <3>3 DEF Awaited, Beats
    <3> QED
      BY <3>2, <3>3
  <2> QED
    BY <1>4, <2>1, <2>2
<1>7. TasksApart'
  <2> SUFFICES ASSUME NEW i \in DOMAIN tasks', NEW j \in DOMAIN tasks', i # j,
                      tasks'[i].by = tasks'[j].by, tasks'[i].by # None
               PROVE  Beats(i)' <=> ~ Beats(j)'
    BY DEF TasksApart
  <2>1. CASE i \in DOMAIN tasks /\ j \in DOMAIN tasks
    BY <1>1, <1>3, <2>1 DEF TasksApart, Beats
  <2>2. CASE i = n /\ j \in DOMAIN tasks
    BY <1>2, <1>3, <1>5, <2>2 DEF Beats
  <2>3. CASE j = n /\ i \in DOMAIN tasks
    BY <1>2, <1>3, <1>5, <2>3 DEF Beats
  <2> QED
    BY <1>4, <2>1, <2>2, <2>3
<1> QED
  BY <1>3, <1>6, <1>7

\* The oldest request is applied and answered to the actor that waits for it.
LEMMA ServeKeeps ==
  ASSUME RequestInv, Apply
  PROVE  tasks' \in Seq(Task) /\ TasksAwaited' /\ TasksApart'
<1> DEFINE h == Head(tasks)
           T == Tail(tasks)
<1>1. /\ tasks \in Seq(Task) /\ TasksAwaited /\ TasksApart /\ None \notin Actor
      /\ tasks # << >> /\ tasks' = T
      /\ run \in [Actor -> RunPc] /\ beat \in [Actor -> {"none", "timer", "sent", "answered"}]
  BY LeaseAssumption DEF RequestInv, LeaseOK, Apply
<1>2. /\ h \in Task /\ h = tasks[1] /\ 1 \in DOMAIN tasks
      /\ T \in Seq(Task) /\ DOMAIN T = 1 .. Len(T)
      /\ \A j \in DOMAIN T : T[j] = tasks[j + 1] /\ j + 1 \in DOMAIN tasks /\ j + 1 # 1
  BY <1>1, HeadTailProperties
<1>3. Awaited(1)
  BY <1>1, <1>2 DEF TasksAwaited
<1>4. /\ \A b \in Actor : b # h.by => run'[b] = run[b] /\ beat'[b] = beat[b]
      /\ h.by \in Actor /\ h.kind = "heartbeat" => run'[h.by] = run[h.by]
      /\ h.by \in Actor /\ h.kind # "heartbeat" => beat'[h.by] = beat[h.by]
  BY <1>1 DEF Apply
<1> HIDE DEF h, T
<1>5. TasksApart'
  <2> SUFFICES ASSUME NEW i \in DOMAIN T, NEW j \in DOMAIN T, i # j,
                      T[i].by = T[j].by, T[i].by # None
               PROVE  T[i].kind = "heartbeat" <=> ~ T[j].kind = "heartbeat"
    BY <1>1 DEF TasksApart, Beats
  <2>1. i \in Nat /\ j \in Nat /\ i + 1 # j + 1
    BY <1>2
  <2> QED
    BY <1>1, <1>2, <2>1 DEF TasksApart, Beats
<1>6. TasksAwaited'
  <2> SUFFICES ASSUME NEW j \in DOMAIN T PROVE Awaited(j)'
    BY <1>1 DEF TasksAwaited
  <2>1. Awaited(j + 1) /\ T[j] = tasks[j + 1] /\ tasks'[j] = tasks[j + 1]
    BY <1>1, <1>2 DEF TasksAwaited
  <2>2. CASE tasks[j + 1].kind = "request"
    BY <2>1, <2>2 DEF Awaited
  <2>3. CASE tasks[j + 1].kind # "request" /\ tasks[j + 1].by # h.by
    BY <1>4, <2>1, <2>3 DEF Awaited, Beats
  <2>4. CASE tasks[j + 1].kind # "request" /\ tasks[j + 1].by = h.by
    <3>1. h.by \in Actor /\ (Beats(j + 1) <=> ~ Beats(1))
      BY <1>1, <1>2, <2>1, <2>4 DEF TasksApart, Awaited
    <3> QED
      BY <1>2, <1>4, <2>1, <2>4, <3>1 DEF Awaited, Beats
  <2> QED
    BY <2>2, <2>3, <2>4
<1> QED
  BY <1>1, <1>2, <1>5, <1>6

-------------------------------------------------------------------------------
(***************************************************************************)
(* The steps, as the lease sees them                                       *)
(***************************************************************************)
\* Leadership moves, processes stop, and runs are told to.
Stops ==
  /\ UNCHANGED << record, tasks, current, run, beat, resume, pulse >>
  /\ alive' \subseteq alive
  /\ \/ UNCHANGED << aborted, since >>
     \/ alive' = alive /\ \E a \in Actor : Abort(a)

LeaseStep ==
  \/ Stops \/ Apply \/ Tick
  \/ Request /\ MaxRequests # 0
  \/ \E a \in Actor : \/ RunStep(a) \/ Missing(a) \/ ResetStalled(a)
                      \/ Free /\ TryAcquire(a)

\* No step of the scheduler is another one; who takes the lease found it free.
LEMMA IsLeaseStep == WorkerOK /\ [Next]_vars => LeaseStep
<1> SUFFICES ASSUME WorkerOK, [Next]_vars PROVE LeaseStep
  OBVIOUS
<1> USE DEF LeaseStep
<1>1. CASE ApplyTask \/ Tick
  BY <1>1 DEF ApplyTask
<1>2. ASSUME NEW a \in Actor, RunStep(a) PROVE LeaseStep
  BY <1>2
<1>3. ASSUME NEW a \in Actor, Crash(a) PROVE LeaseStep
  BY <1>3 DEF Crash, Stops
<1>4. ASSUME NEW w \in Worker, Elect(w) PROVE LeaseStep
  BY <1>4 DEF Elect, Stops, leaseVars
<1>5. ASSUME NEW w \in Worker, Depose(w) PROVE LeaseStep
  <2>1. w \in Actor
    BY DEF Actor
  <2>2. UNCHANGED << aborted, since >> \/ Abort(w)
    BY <1>5 DEF Depose, StopRuntime
  <2> QED
    BY <1>5, <2>1, <2>2 DEF Depose, Stops
<1>6. ASSUME NEW w \in Worker, Transition(w) PROVE LeaseStep
  <2>1. w \in Actor
    BY DEF Actor
  <2>2. CASE BeginActivation(w) \/ Barrier(w) \/ Activate(w) \/ Settle(w) \/ Retry(w)
    BY <2>2 DEF BeginActivation, Barrier, Activate, Settle, Retry, leaseVars, Stops
  <2>3. CASE BeginDeactivation(w)
    <3>1. UNCHANGED << aborted, since >> \/ Abort(w)
      BY <2>3 DEF BeginDeactivation
    <3> QED
      BY <2>1, <2>3, <3>1 DEF BeginDeactivation, Stops
  <2>4. CASE EnsureRecord(w)
    BY <2>1, <2>4 DEF EnsureRecord
  <2> QED
    BY <1>6, <2>2, <2>3, <2>4 DEF Transition
<1>7. ASSUME NEW w \in Worker, ActivationFails(w) PROVE LeaseStep
  BY <1>7 DEF ActivationFails, leaseVars, Stops
<1>8. ASSUME NEW w \in Worker, MaybeTrigger(w) PROVE LeaseStep
  <2>1. w \in Actor
    BY DEF Actor
  <2>2. Free /\ TryAcquire(w)
    BY <1>8 DEF MaybeTrigger, Due, Free
  <2> QED
    BY <2>1, <2>2
<1>9. ASSUME NEW o \in Operator, Operate(o) PROVE LeaseStep
  <2>1. o \in Actor
    BY DEF Actor
  <2>2. Trigger(o) => Free /\ TryAcquire(o)
    BY DEF Trigger, Free
  <2>3. OperatorAbort(o) => Stops
    BY <2>1 DEF OperatorAbort, Stops
  <2> QED
    BY <1>9, <2>1, <2>2, <2>3 DEF Operate
<1>10. CASE OutsideRequest
  <2>1. MaxRequests # 0
    BY <1>10, WorkerAssumption DEF OutsideRequest, WorkerOK
  <2> QED
    BY <1>10, <2>1 DEF OutsideRequest
<1>11. CASE UNCHANGED vars
  BY <1>11 DEF vars, leaseVars, Stops
<1> QED
  BY <1>1, <1>2, <1>3, <1>4, <1>5, <1>6, <1>7, <1>8, <1>9, <1>10, <1>11 DEF Next

-------------------------------------------------------------------------------
(***************************************************************************)
(* Requests are awaited                                                    *)
(***************************************************************************)
\* Time is counted up to the tolerance.
LEMMA CappedType == \A n \in Nat : Capped(n, Tolerance) \in 0 .. Tolerance
BY LeaseAssumption DEF Capped

\* An abort keeps the types and does not touch what is awaited.
LEMMA StopsKeeps == RequestInv /\ Stops => RequestInv'
<1> SUFFICES ASSUME RequestInv, Stops PROVE RequestInv'
  OBVIOUS
<1>1. LeaseOK /\ BeatsInRun
  BY DEF RequestInv
<1>2. TasksAwaited' /\ TasksApart'
  BY StaysAwaited DEF Stops
<1>3. aborted' \in [Actor -> BOOLEAN] /\ since' \in [Actor -> Nat]
  <2>1. CASE UNCHANGED << aborted, since >>
    BY <1>1, <2>1 DEF LeaseOK
  <2>2. ASSUME NEW a \in Actor, Abort(a)
        PROVE  aborted' \in [Actor -> BOOLEAN] /\ since' \in [Actor -> Nat]
    <3>1. aborted \in [Actor -> BOOLEAN] /\ since \in [Actor -> Nat]
      BY <1>1 DEF LeaseOK
    <3>2. [aborted EXCEPT ![a] = TRUE] \in [Actor -> BOOLEAN]
      BY <3>1
    <3>3. [since EXCEPT ![a] = 0] \in [Actor -> Nat]
      BY <3>1
    <3>4. CASE UNCHANGED << aborted, since >>
      BY <3>1, <3>4
    <3>5. CASE /\ aborted' = [aborted EXCEPT ![a] = TRUE]
               /\ since' = [since EXCEPT ![a] = 0] \/ since' = since
      BY <3>1, <3>2, <3>3, <3>5
    <3> QED
      BY <2>2, <3>4, <3>5 DEF Abort
  <2> QED
    BY <2>1, <2>2 DEF Stops
<1>4. LeaseOK'
  BY <1>1, <1>3 DEF LeaseOK, Stops
<1>5. BeatsInRun'
  BY <1>1 DEF BeatsInRun, Stops
<1> QED
  BY <1>2, <1>4, <1>5 DEF RequestInv

\* Time passes.
LEMMA TickKeeps == RequestInv /\ Tick => RequestInv'
<1> SUFFICES ASSUME RequestInv, Tick PROVE RequestInv'
  OBVIOUS
<1>1. LeaseOK /\ BeatsInRun
  BY DEF RequestInv
<1>2. UNCHANGED << tasks, current, alive, run, beat, aborted, resume >>
  BY DEF Tick
<1>3. TasksAwaited' /\ TasksApart'
  BY <1>2, StaysAwaited
<1>4. record' \in Record \cup {None}
  <2>1. CASE record = None
    BY <2>1 DEF Tick
  <2>2. CASE record # None
    <3>1. record \in Record /\ record.age \in 0 .. Tolerance
      BY <1>1, <2>2 DEF LeaseOK, Record
    <3>2. Capped(record.age + 1, Tolerance) \in 0 .. Tolerance
      BY <3>1, CappedType, LeaseAssumption
    <3>3. record' = [record EXCEPT !.age = Capped(record.age + 1, Tolerance)]
      BY <2>2, <3>1 DEF Tick
    <3> QED
      BY <3>1, <3>2, <3>3 DEF Record
  <2> QED
    BY <2>1, <2>2
<1>5. since' \in [Actor -> Nat] /\ pulse' \in [Actor -> Nat]
  <2>1. \A n \in Nat : Capped(n + 1, Tolerance) \in Nat
    BY LeaseAssumption DEF Capped
  <2> QED
    BY <1>1, <2>1 DEF Tick, LeaseOK
<1>6. LeaseOK'
  BY <1>1, <1>2, <1>4, <1>5 DEF LeaseOK
<1>7. BeatsInRun'
  BY <1>1, <1>2 DEF BeatsInRun
<1> QED
  BY <1>3, <1>6, <1>7 DEF RequestInv

\* A request from outside is nobody's.
LEMMA RequestKeeps == RequestInv /\ Request => RequestInv'
<1> SUFFICES ASSUME RequestInv, Request PROVE RequestInv'
  OBVIOUS
<1> DEFINE t == [kind |-> "request", by |-> None]
           n == Len(tasks) + 1
<1>1. LeaseOK /\ BeatsInRun /\ TasksAwaited /\ TasksApart /\ tasks \in Seq(Task) /\ None \notin Actor
  BY LeaseAssumption DEF RequestInv, LeaseOK
<1>2. /\ UNCHANGED << record, current, alive, run, beat, aborted, resume, since, pulse >>
      /\ tasks' = Append(tasks, t)
  BY DEF Request, Send
<1>3. t \in Task /\ t.kind = "request" /\ t.by = None
  BY DEF Task
<1> HIDE DEF t
<1>4. /\ tasks' \in Seq(Task) /\ tasks'[n] = t /\ DOMAIN tasks' = 1 .. n /\ n \in Nat
      /\ \A j \in DOMAIN tasks : tasks'[j] = tasks[j]
      /\ DOMAIN tasks = 1 .. n - 1
  <2>1. /\ tasks' \in Seq(Task) /\ Len(tasks') = n
        /\ \A i \in 1 .. Len(tasks) : tasks'[i] = tasks[i]
        /\ tasks'[n] = t
    BY <1>1, <1>2, <1>3, AppendProperties
  <2> QED
    BY <1>1, <2>1
<1> HIDE DEF n
<1>5. \A j \in DOMAIN tasks' : j \in DOMAIN tasks \/ j = n
  BY <1>4
<1>6. TasksAwaited'
  <2> SUFFICES ASSUME NEW j \in DOMAIN tasks' PROVE Awaited(j)'
    BY DEF TasksAwaited
  <2>1. CASE j = n
    BY <1>3, <1>4, <2>1 DEF Awaited
  <2>2. CASE j \in DOMAIN tasks
    <3>1. Awaited(j) /\ tasks'[j] = tasks[j]
      BY <1>1, <1>4, <2>2 DEF TasksAwaited
    <3> QED
      BY <1>2, <3>1 DEF Awaited, Beats
  <2> QED
    BY <1>5, <2>1, <2>2
<1>7. TasksApart'
  <2> SUFFICES ASSUME NEW i \in DOMAIN tasks', NEW j \in DOMAIN tasks', i # j,
                      tasks'[i].by = tasks'[j].by, tasks'[i].by # None
               PROVE  Beats(i)' <=> ~ Beats(j)'
    BY DEF TasksApart
  <2>1. i # n /\ j # n
    BY <1>3, <1>4
  <2> QED
    BY <1>1, <1>4, <1>5, <2>1 DEF TasksApart, Beats
<1>8. LeaseOK'
  BY <1>1, <1>2, <1>4 DEF LeaseOK
<1>9. BeatsInRun'
  BY <1>1, <1>2 DEF BeatsInRun
<1> QED
  BY <1>6, <1>7, <1>8, <1>9 DEF RequestInv

\* What Meilisearch writes is a record, and whoever knows its revision an actor.
LEMMA EffectType ==
  ASSUME LeaseOK, NEW kind \in Kinds \cup {"request"}, NEW a, Effect(kind, a),
         IF kind = "request" THEN a = None ELSE a \in Actor
  PROVE  record' \in Record \cup {None} /\ current' \subseteq Actor
<1>1. /\ record \in Record \cup {None} /\ current \subseteq Actor
      /\ since \in [Actor -> Nat] /\ pulse \in [Actor -> Nat] /\ resume \in [Actor -> BOOLEAN]
      /\ Tolerance \in 0 .. Tolerance
  BY LeaseAssumption DEF LeaseOK
<1>2. CASE NoWrite(a)
  BY <1>1, <1>2 DEF NoWrite
<1>3. ASSUME NEW doc \in Record, Write(a, doc)
      PROVE  record' \in Record \cup {None} /\ current' \subseteq Actor
  BY <1>3 DEF Write
<1>4. CASE kind = "acquire"
  <2>1. Acquired(a) \in Record
    BY <1>1, <1>4, CappedType DEF Acquired, Record
  <2> QED
    BY <1>2, <1>3, <1>4, <2>1 DEF Effect
<1>5. CASE kind = "heartbeat"
  <2>1. CASE Owns(a)
    <3>1. [record EXCEPT !.age = Capped(pulse[a], Tolerance)] \in Record
      BY <1>1, <1>5, <2>1, CappedType DEF Record, Owns
    <3> QED
      BY <1>3, <1>5, <2>1, <3>1 DEF Effect
  <2> QED
    BY <1>2, <1>5, <2>1 DEF Effect
<1>6. CASE kind = "end"
  <2>1. CASE Owns(a)
    <3>1. [record EXCEPT !.running = FALSE, !.again = resume[a]] \in Record
      BY <1>1, <1>6, <2>1 DEF Record, Owns
    <3> QED
      BY <1>3, <1>6, <2>1, <3>1 DEF Effect
  <2> QED
    BY <1>2, <1>6, <2>1 DEF Effect
<1>7. CASE kind = "put"
  <2>1. Fresh \in Record
    BY <1>1 DEF Fresh, Record
  <2> QED
    BY <1>3, <1>7, <2>1 DEF Effect
<1>8. CASE kind = "reset"
  <2>1. CASE Acquires(a)
    <3>1. [record EXCEPT !.running = FALSE, !.lock = None, !.age = Tolerance] \in Record
      BY <1>1, <2>1 DEF Record, Acquires
    <3> QED
      BY <1>3, <1>8, <2>1, <3>1 DEF Effect
  <2> QED
    BY <1>2, <1>8, <2>1 DEF Effect
<1>9. CASE kind = "request"
  BY <1>1, <1>2, <1>3, <1>9 DEF Effect
<1> QED
  BY <1>4, <1>5, <1>6, <1>7, <1>8, <1>9 DEF Kinds

\* Who has the oldest request, and what it waits for.
LEMMA HeadIsAwaited ==
  ASSUME RequestInv, tasks # << >>
  PROVE  /\ Head(tasks).kind \in Kinds \cup {"request"}
         /\ IF Head(tasks).kind = "request" THEN Head(tasks).by = None
            ELSE Head(tasks).by \in Actor
         /\ Head(tasks).kind = "heartbeat" =>
              /\ beat[Head(tasks).by] = "sent"
              /\ run[Head(tasks).by] \in {"body", "stopping"}
         /\ Head(tasks).kind \in {"acquire", "end", "put", "reset"} =>
              /\ run[Head(tasks).by] = WaitsIn(Head(tasks).kind)
              /\ beat[Head(tasks).by] = "none"
<1>1. /\ tasks \in Seq(Task) /\ Head(tasks) = tasks[1] /\ 1 \in DOMAIN tasks
      /\ Head(tasks) \in Task /\ beat \in [Actor -> {"none", "timer", "sent", "answered"}]
  BY HeadTailProperties DEF RequestInv, LeaseOK
<1>2. Awaited(1)
  BY <1>1 DEF RequestInv, TasksAwaited
<1> DEFINE h == Head(tasks)
<1>3. h = tasks[1] /\ h \in Task
  BY <1>1
<1> HIDE DEF h
<1>4. h.kind \in Kinds \cup {"request"}
  BY <1>3 DEF Task, Kinds
<1>5. IF h.kind = "request" THEN h.by = None ELSE h.by \in Actor
  BY <1>2, <1>3 DEF Awaited
<1>6. CASE h.kind = "heartbeat"
  <2>1. h.by \in Actor /\ beat[h.by] = "sent"
    BY <1>2, <1>3, <1>6 DEF Awaited, Beats
  <2>2. run[h.by] \in {"body", "stopping"}
    BY <2>1 DEF RequestInv, BeatsInRun
  <2> QED
    BY <1>4, <1>5, <1>6, <2>1, <2>2 DEF h
<1>7. CASE h.kind \in {"acquire", "end", "put", "reset"}
  <2>1. h.by \in Actor /\ run[h.by] = WaitsIn(h.kind)
    BY <1>2, <1>3, <1>7 DEF Awaited, Beats
  <2>2. run[h.by] \in Queued
    BY <2>1, <1>7, WaitsQueued
  <2>3. beat[h.by] = "none"
    BY <2>1, <2>2 DEF RequestInv, BeatsInRun, Queued
  <2> QED
    BY <1>4, <1>5, <1>7, <2>1, <2>3 DEF h
<1> QED
  BY <1>4, <1>5, <1>6, <1>7 DEF h, Kinds

\* A request is applied.
LEMMA ApplyKeeps == RequestInv /\ Apply => RequestInv'
<1> SUFFICES ASSUME RequestInv, Apply PROVE RequestInv'
  OBVIOUS
<1> DEFINE kind == Head(tasks).kind
           a == Head(tasks).by
<1>1. /\ LeaseOK /\ BeatsInRun /\ tasks # << >> /\ None \notin Actor
  BY LeaseAssumption DEF RequestInv, Apply
<1>2. tasks' \in Seq(Task) /\ TasksAwaited' /\ TasksApart'
  BY ServeKeeps
<1>3. /\ kind \in Kinds \cup {"request"}
      /\ IF kind = "request" THEN a = None ELSE a \in Actor
      /\ kind = "heartbeat" => run[a] \in {"body", "stopping"}
      /\ kind \in {"acquire", "end", "put", "reset"} => beat[a] = "none"
  BY <1>1, HeadIsAwaited
<1>4. /\ Effect(kind, a)
      /\ run' = IF a = None \/ kind = "heartbeat" THEN run
                ELSE [run EXCEPT ![a] = IF kind = "acquire" THEN "acquired" ELSE "off"]
      /\ beat' = IF kind = "heartbeat" THEN [beat EXCEPT ![a] = "answered"] ELSE beat
      /\ IF a = None \/ kind \in {"heartbeat", "acquire"}
         THEN UNCHANGED << aborted, resume, since, pulse >>
         ELSE Forget(a)
      /\ UNCHANGED alive
  BY DEF Apply
<1> HIDE DEF kind, a
<1>5. record' \in Record \cup {None} /\ current' \subseteq Actor
  BY <1>1, <1>3, <1>4, EffectType
<1>6. run' \in [Actor -> RunPc] /\ beat' \in [Actor -> {"none", "timer", "sent", "answered"}]
  BY <1>1, <1>3, <1>4 DEF LeaseOK, RunPc, Waiting
<1>7. /\ aborted' \in [Actor -> BOOLEAN] /\ resume' \in [Actor -> BOOLEAN]
      /\ since' \in [Actor -> Nat] /\ pulse' \in [Actor -> Nat]
  <2>1. CASE UNCHANGED << aborted, resume, since, pulse >>
    BY <1>1, <2>1 DEF LeaseOK
  <2>2. CASE Forget(a)
    BY <1>1, <2>2 DEF LeaseOK, Forget
  <2> QED
    BY <1>4, <2>1, <2>2
<1>8. LeaseOK'
  BY <1>1, <1>2, <1>4, <1>5, <1>6, <1>7 DEF LeaseOK
<1>9. BeatsInRun'
  <2> SUFFICES ASSUME NEW b \in Actor, beat'[b] # "none" PROVE run'[b] \in {"body", "stopping"}
    BY DEF BeatsInRun
  <2>1. run \in [Actor -> RunPc] /\ beat \in [Actor -> {"none", "timer", "sent", "answered"}]
    BY <1>1 DEF LeaseOK
  <2>2. CASE b # a
    BY <1>1, <1>4, <2>1, <2>2 DEF BeatsInRun
  <2>3. CASE b = a
    BY <1>1, <1>3, <1>4, <2>1, <2>3 DEF BeatsInRun, Kinds
  <2> QED
    BY <2>2, <2>3
<1> QED
  BY <1>2, <1>8, <1>9 DEF RequestInv

\* What the acquisition reads back begins the run or ends it.
LEMMA AcquireReadKeeps ==
  ASSUME RequestInv, NEW a \in Actor, AcquireRead(a) PROVE RequestInv'
<1>1. LeaseOK /\ BeatsInRun
  BY DEF RequestInv
<1>2. /\ UNCHANGED << record, tasks, current, alive >> /\ run[a] = "acquired" /\ beat[a] = "none"
      /\ \E l \in {"off", "body", "stopping"} : run' = [run EXCEPT ![a] = l]
      /\ \/ beat' = beat
         \/ beat' = [beat EXCEPT ![a] = "timer"] /\ run' = [run EXCEPT ![a] = "body"]
  <2>1. run[a] = "acquired" /\ beat[a] = "none"
    BY <1>1 DEF AcquireRead, BeatsInRun
  <2> QED
    BY <2>1 DEF AcquireRead, Goto
<1>3. run \in [Actor -> RunPc] /\ beat \in [Actor -> {"none", "timer", "sent", "answered"}]
  BY <1>1 DEF LeaseOK
<1>4. TasksAwaited' /\ TasksApart'
  <2>1. \A b \in Actor : /\ beat[b] = "sent" => beat'[b] = "sent"
                         /\ run[b] \in Queued => run'[b] = run[b]
    BY <1>2, <1>3 DEF Queued
  <2> QED
    BY <1>2, <2>1, StaysAwaited
<1>5. run' \in [Actor -> RunPc] /\ beat' \in [Actor -> {"none", "timer", "sent", "answered"}]
  BY <1>2, <1>3 DEF RunPc, Waiting
<1>6. /\ aborted' \in [Actor -> BOOLEAN] /\ resume' \in [Actor -> BOOLEAN]
      /\ since' \in [Actor -> Nat] /\ pulse' \in [Actor -> Nat]
  <2>1. /\ aborted \in [Actor -> BOOLEAN] /\ resume \in [Actor -> BOOLEAN]
        /\ since \in [Actor -> Nat] /\ pulse \in [Actor -> Nat]
    BY <1>1 DEF LeaseOK
  <2>2. CASE Forget(a)
    BY <2>1, <2>2 DEF Forget
  <2>3. CASE /\ pulse' = [pulse EXCEPT ![a] = 0] /\ since' = [since EXCEPT ![a] = 0]
             /\ UNCHANGED << aborted, resume >>
    BY <2>1, <2>3
  <2>4. CASE /\ resume' = [resume EXCEPT ![a] = a \in Worker]
             /\ since' = [since EXCEPT ![a] = 0]
             /\ UNCHANGED << beat, aborted, pulse >>
    BY <2>1, <2>4
  <2> QED
    BY <2>2, <2>3, <2>4 DEF AcquireRead
<1>7. LeaseOK'
  BY <1>1, <1>2, <1>5, <1>6 DEF LeaseOK
<1>8. BeatsInRun'
  BY <1>1, <1>2, <1>3 DEF BeatsInRun
<1> QED
  BY <1>4, <1>7, <1>8 DEF RequestInv

\* A heartbeat is sent, once its timer has fired.
LEMMA HeartbeatKeeps ==
  ASSUME RequestInv, NEW a \in Actor, Heartbeat(a) PROVE RequestInv'
<1>1. LeaseOK /\ BeatsInRun
  BY DEF RequestInv
<1>2. /\ UNCHANGED << record, current, alive, run, aborted, resume, since >>
      /\ run[a] = "body" /\ beat[a] = "timer"
  BY DEF Heartbeat
<1>3. run \in [Actor -> RunPc] /\ beat \in [Actor -> {"none", "timer", "sent", "answered"}]
      /\ pulse \in [Actor -> Nat]
  BY <1>1 DEF LeaseOK
<1>4. CASE beat' = [beat EXCEPT ![a] = "none"] /\ UNCHANGED << tasks, pulse >>
  <2>1. TasksAwaited' /\ TasksApart'
    BY <1>2, <1>3, <1>4, StaysAwaited
  <2>2. LeaseOK' /\ BeatsInRun'
    BY <1>1, <1>2, <1>3, <1>4 DEF LeaseOK, BeatsInRun
  <2> QED
    BY <2>1, <2>2 DEF RequestInv
<1>5. CASE /\ Send("heartbeat", a) /\ beat' = [beat EXCEPT ![a] = "sent"]
           /\ pulse' = [pulse EXCEPT ![a] = 0]
  <2>1. \A b \in Actor : b # a => run'[b] = run[b] /\ beat'[b] = beat[b]
    BY <1>2, <1>3, <1>5
  <2>2. beat'[a] = "sent" /\ run'[a] = run[a] /\ beat[a] # "sent"
    BY <1>2, <1>3, <1>5
  <2>3. tasks' \in Seq(Task) /\ TasksAwaited' /\ TasksApart'
    <3>1. "heartbeat" \in Kinds
      BY DEF Kinds
    <3> QED
      BY <1>5, <2>1, <2>2, <3>1, SendKeeps
  <2>4. LeaseOK' /\ BeatsInRun'
    BY <1>1, <1>2, <1>3, <1>5, <2>3 DEF LeaseOK, BeatsInRun
  <2> QED
    BY <2>3, <2>4 DEF RequestInv
<1> QED
  BY <1>4, <1>5 DEF Heartbeat

\* The answer of a heartbeat is looked at.
LEMMA HeartbeatReadKeeps ==
  ASSUME RequestInv, NEW a \in Actor, HeartbeatRead(a) PROVE RequestInv'
<1>1. LeaseOK /\ BeatsInRun
  BY DEF RequestInv
<1>2. /\ UNCHANGED << record, tasks, current, alive, run, resume >> /\ beat[a] = "answered"
      /\ \E l \in {"timer", "none"} : beat' = [beat EXCEPT ![a] = l]
      /\ aborted' = aborted \/ aborted' = [aborted EXCEPT ![a] = TRUE]
      /\ since' = since \/ since' = [since EXCEPT ![a] = 0]
      /\ pulse' = pulse \/ pulse' = [pulse EXCEPT ![a] = 0]
  BY DEF HeartbeatRead
<1>3. /\ beat \in [Actor -> {"none", "timer", "sent", "answered"}] /\ pulse \in [Actor -> Nat]
      /\ aborted \in [Actor -> BOOLEAN] /\ since \in [Actor -> Nat]
  BY <1>1 DEF LeaseOK
<1>4. TasksAwaited' /\ TasksApart'
  BY <1>2, <1>3, StaysAwaited
<1>5. /\ beat' \in [Actor -> {"none", "timer", "sent", "answered"}] /\ pulse' \in [Actor -> Nat]
      /\ aborted' \in [Actor -> BOOLEAN] /\ since' \in [Actor -> Nat]
  <2>1. beat' \in [Actor -> {"none", "timer", "sent", "answered"}]
    BY <1>2, <1>3
  <2>2. pulse' \in [Actor -> Nat]
    BY <1>2, <1>3
  <2>3. aborted' \in [Actor -> BOOLEAN]
    BY <1>2, <1>3
  <2>4. since' \in [Actor -> Nat]
    BY <1>2, <1>3
  <2> QED
    BY <2>1, <2>2, <2>3, <2>4
<1>6. LeaseOK'
  BY <1>1, <1>2, <1>5 DEF LeaseOK
<1>7. BeatsInRun'
  BY <1>1, <1>2, <1>3 DEF BeatsInRun
<1> QED
  BY <1>4, <1>6, <1>7 DEF RequestInv

\* The body is left.
LEMMA LeaveKeeps ==
  ASSUME RequestInv, NEW a \in Actor, Leave(a) PROVE RequestInv'
<1>1. LeaseOK /\ BeatsInRun
  BY DEF RequestInv
<1>2. /\ UNCHANGED << record, tasks, current, alive, aborted, since, pulse >> /\ run[a] = "body"
      /\ run' = [run EXCEPT ![a] = "stopping"]
      /\ beat' = [beat EXCEPT ![a] = IF beat[a] = "timer" THEN "none" ELSE beat[a]]
      /\ \E l \in BOOLEAN : resume' = [resume EXCEPT ![a] = l]
  <2>1. aborted[a] \in BOOLEAN
    BY <1>1 DEF LeaseOK
  <2> QED
    BY <2>1 DEF Leave, Goto
<1>3. /\ run \in [Actor -> RunPc] /\ beat \in [Actor -> {"none", "timer", "sent", "answered"}]
      /\ resume \in [Actor -> BOOLEAN]
  BY <1>1 DEF LeaseOK
<1>4. TasksAwaited' /\ TasksApart'
  <2>1. \A b \in Actor : /\ beat[b] = "sent" => beat'[b] = "sent"
                         /\ run[b] \in Queued => run'[b] = run[b]
    BY <1>2, <1>3 DEF Queued
  <2> QED
    BY <1>2, <2>1, StaysAwaited
<1>5. /\ run' \in [Actor -> RunPc] /\ beat' \in [Actor -> {"none", "timer", "sent", "answered"}]
      /\ resume' \in [Actor -> BOOLEAN]
  BY <1>2, <1>3 DEF RunPc
<1>6. LeaseOK'
  BY <1>1, <1>2, <1>5 DEF LeaseOK
<1>7. BeatsInRun'
  BY <1>1, <1>2, <1>3 DEF BeatsInRun
<1> QED
  BY <1>4, <1>6, <1>7 DEF RequestInv

\* A run sends a request other than a heartbeat and waits for it.
LEMMA AwaitKeeps ==
  ASSUME RequestInv, NEW a \in Actor, NEW k \in Kinds \ {"heartbeat"}, Send(k, a),
         run' = [run EXCEPT ![a] = WaitsIn(k)], run[a] \notin Queued, beat[a] = "none",
         since' = since \/ since' = [since EXCEPT ![a] = 0],
         aborted' = aborted \/ aborted' = [aborted EXCEPT ![a] = FALSE],
         current' = current \/ current' = current \cup {a},
         UNCHANGED << record, alive, beat, resume, pulse >>
  PROVE  RequestInv'
<1>1. LeaseOK /\ BeatsInRun
  BY DEF RequestInv
<1>2. /\ run \in [Actor -> RunPc] /\ beat \in [Actor -> {"none", "timer", "sent", "answered"}]
      /\ aborted \in [Actor -> BOOLEAN] /\ since \in [Actor -> Nat] /\ current \subseteq Actor
  BY <1>1 DEF LeaseOK
<1>3. WaitsIn(k) \in Queued /\ k # "heartbeat" /\ k \in Kinds
  BY WaitsQueued DEF Kinds
<1>4. run' \in [Actor -> RunPc]
  BY <1>2, <1>3 DEF RunPc, Waiting
<1>5. tasks' \in Seq(Task) /\ TasksAwaited' /\ TasksApart'
  <2>1. \A b \in Actor : b # a => run'[b] = run[b] /\ beat'[b] = beat[b]
    BY <1>2
  <2>2. run'[a] = WaitsIn(k) /\ beat'[a] = beat[a]
    BY <1>2
  <2> QED
    BY <1>3, <2>1, <2>2, SendKeeps
<1>6. aborted' \in [Actor -> BOOLEAN] /\ since' \in [Actor -> Nat] /\ current' \subseteq Actor
  <2>1. aborted' \in [Actor -> BOOLEAN]
    BY <1>2
  <2>2. since' \in [Actor -> Nat]
    BY <1>2
  <2>3. current' \subseteq Actor
    BY <1>2
  <2> QED
    BY <2>1, <2>2, <2>3
<1>7. LeaseOK'
  BY <1>1, <1>4, <1>5, <1>6 DEF LeaseOK
<1>8. BeatsInRun'
  BY <1>1, <1>2 DEF BeatsInRun
<1> QED
  BY <1>5, <1>7, <1>8 DEF RequestInv

\* A run that is not under way has no heartbeat.
LEMMA NoBeat ==
  ASSUME RequestInv, NEW a \in Actor, run[a] \notin {"body", "stopping"}
  PROVE  beat[a] = "none"
BY DEF RequestInv, BeatsInRun

\* The other steps send a request, or decide to.
LEMMA SendersKeep ==
  ASSUME RequestInv, NEW a \in Actor,
         End(a) \/ Put(a) \/ Missing(a) \/ ResetStalled(a) \/ TryAcquire(a)
  PROVE  RequestInv'
<1>1. CASE End(a)
  BY <1>1, AwaitKeeps DEF End, Await, Goto, WaitsIn, Kinds, Queued
<1>2. CASE Put(a)
  <2>1. beat[a] = "none"
    BY <1>2, NoBeat DEF Put
  <2> QED
    BY <1>2, <2>1, AwaitKeeps DEF Put, Await, Goto, WaitsIn, Kinds, Queued
<1>3. CASE ResetStalled(a)
  <2>1. beat[a] = "none"
    BY <1>3, NoBeat DEF ResetStalled
  <2> QED
    BY <1>3, <2>1, AwaitKeeps DEF ResetStalled, Await, Goto, WaitsIn, Kinds, Queued
<1>4. CASE TryAcquire(a)
  <2>1. beat[a] = "none"
    BY <1>4, NoBeat DEF TryAcquire
  <2> QED
    BY <1>4, <2>1, AwaitKeeps DEF TryAcquire, Await, Goto, WaitsIn, Kinds, Queued
<1>5. CASE Missing(a)
  <2>1. /\ LeaseOK /\ BeatsInRun /\ run[a] = "off" /\ beat[a] = "none"
        /\ run' = [run EXCEPT ![a] = "put"] /\ since' = [since EXCEPT ![a] = 0]
        /\ UNCHANGED << record, tasks, current, alive, beat, aborted, resume, pulse >>
    BY <1>5, NoBeat DEF RequestInv, Missing, Await, Goto
  <2>2. run \in [Actor -> RunPc] /\ since \in [Actor -> Nat]
    BY <2>1 DEF LeaseOK
  <2>3. \A b \in Actor : /\ beat[b] = "sent" => beat'[b] = "sent"
                         /\ run[b] \in Queued => run'[b] = run[b]
    BY <2>1, <2>2 DEF Queued
  <2>4. TasksAwaited' /\ TasksApart'
    BY <2>1, <2>3, StaysAwaited
  <2>5. run' \in [Actor -> RunPc] /\ since' \in [Actor -> Nat]
    BY <2>1, <2>2 DEF RunPc, Waiting
  <2>6. LeaseOK'
    BY <2>1, <2>5 DEF LeaseOK
  <2>7. BeatsInRun'
    BY <2>1, <2>2 DEF BeatsInRun
  <2> QED
    BY <2>4, <2>6, <2>7 DEF RequestInv
<1> QED
  BY <1>1, <1>2, <1>3, <1>4, <1>5

\* Every step, taken together.
LEMMA RequestStep == RequestInv /\ LeaseStep => RequestInv'
<1> SUFFICES ASSUME RequestInv, LeaseStep PROVE RequestInv'
  OBVIOUS
<1>1. CASE Stops \/ Apply \/ Tick \/ Request
  BY <1>1, StopsKeeps, ApplyKeeps, TickKeeps, RequestKeeps
<1>2. ASSUME NEW a \in Actor, RunStep(a) \/ Missing(a) \/ ResetStalled(a) \/ TryAcquire(a)
      PROVE  RequestInv'
  BY <1>2, AcquireReadKeeps, HeartbeatKeeps, HeartbeatReadKeeps, LeaveKeeps, SendersKeep
    DEF RunStep
<1> QED
  BY <1>1, <1>2 DEF LeaseStep

-------------------------------------------------------------------------------
(***************************************************************************)
(* Types, and the end of a superseded run                                  *)
(***************************************************************************)
\* Every step of leadership, of an activation and of a run keeps the scheduler's
\* types.
LEMMA WorkerStep == TypeOK /\ [Next]_vars => WorkerOK'
<1> SUFFICES ASSUME LeaseOK, WorkerOK, [Next]_vars PROVE WorkerOK'
  BY DEF TypeOK
<1>1. /\ leading \subseteq Worker /\ chain \in [Worker -> Seq(BOOLEAN)]
      /\ stage \in [Worker -> Stage] /\ ahead \in [Worker -> Nat]
      /\ cut \in [Worker -> BOOLEAN] /\ runtime \in [Worker -> {"none", "active", "stopped"}]
      /\ retry \in [Worker -> BOOLEAN] /\ terms \in 0 .. MaxTerms
      /\ requests \in 0 .. MaxRequests /\ failures \in 0 .. MaxFailures
  BY DEF WorkerOK
<1>2. CASE UNCHANGED workerVars
  BY <1>2 DEF WorkerOK, workerVars
<1>3. ASSUME NEW w \in Worker, NEW b \in BOOLEAN, Announce(w, b)
      PROVE  chain' \in [Worker -> Seq(BOOLEAN)]
  <2>1. Append(chain[w], b) \in Seq(BOOLEAN)
    BY <1>1
  <2>2. chain' = [chain EXCEPT ![w] = Append(chain[w], b)]
    BY <1>3 DEF Announce
  <2> QED
    BY <1>1, <2>1, <2>2
<1>4. CASE ApplyTask
  <2>1. \A n \in Nat : OneLess(n) \in Nat
    BY DEF OneLess
  <2>2. ahead' \in [Worker -> Nat]
    BY <1>1, <1>4, <2>1 DEF ApplyTask
  <2> QED
    BY <1>1, <1>4, <2>2 DEF ApplyTask, WorkerOK
<1>5. ASSUME NEW a \in Actor, Crash(a) PROVE WorkerOK'
  BY <1>1, <1>5 DEF Crash, WorkerOK
<1>6. ASSUME NEW w \in Worker, Elect(w) PROVE WorkerOK'
  <2>1. chain' \in [Worker -> Seq(BOOLEAN)]
    BY <1>3, <1>6 DEF Elect
  <2>2. terms' \in 0 .. MaxTerms /\ leading' \subseteq Worker
    BY <1>1, <1>6, WorkerAssumption DEF Elect
  <2> QED
    BY <1>1, <1>6, <2>1, <2>2 DEF Elect, WorkerOK
<1>7. ASSUME NEW w \in Worker, Depose(w) PROVE WorkerOK'
  <2>1. chain' \in [Worker -> Seq(BOOLEAN)]
    BY <1>3, <1>7 DEF Depose
  <2>2. runtime' \in [Worker -> {"none", "active", "stopped"}]
    <3>1. runtime' = runtime \/ runtime' = [runtime EXCEPT ![w] = "stopped"]
      BY <1>7 DEF Depose, StopRuntime
    <3> QED
      BY <1>1, <3>1
  <2>3. /\ retry' \in [Worker -> BOOLEAN] /\ cut' \in [Worker -> BOOLEAN] /\ leading' \subseteq Worker
    BY <1>1, <1>7 DEF Depose
  <2> QED
    BY <1>1, <1>7, <2>1, <2>2, <2>3 DEF Depose, WorkerOK
<1>8. ASSUME NEW w \in Worker, Transition(w) PROVE WorkerOK'
  <2>1. ASSUME chain[w] # << >>, chain' = [chain EXCEPT ![w] = Tail(chain[w])]
        PROVE  chain' \in [Worker -> Seq(BOOLEAN)]
    <3>1. Tail(chain[w]) \in Seq(BOOLEAN)
      BY <1>1, <2>1
    <3> QED
      BY <1>1, <2>1, <3>1
  <2>2. CASE BeginActivation(w)
    <3>1. chain' \in [Worker -> Seq(BOOLEAN)]
      BY <2>1, <2>2 DEF BeginActivation
    <3>2. CASE UNCHANGED << stage, ahead, cut >>
      BY <1>1, <2>2, <3>1, <3>2 DEF BeginActivation, WorkerOK
    <3>3. CASE /\ stage' = [stage EXCEPT ![w] = "barrier"]
               /\ ahead' = [ahead EXCEPT ![w] = Len(tasks)]
               /\ cut' = [cut EXCEPT ![w] = FALSE]
      <4>1. Len(tasks) \in Nat
        BY DEF LeaseOK
      <4>2. stage' \in [Worker -> Stage] /\ ahead' \in [Worker -> Nat] /\ cut' \in [Worker -> BOOLEAN]
        BY <1>1, <3>3, <4>1 DEF Stage
      <4> QED
        BY <1>1, <2>2, <3>1, <4>2 DEF BeginActivation, WorkerOK
    <3> QED
      BY <2>2, <3>2, <3>3 DEF BeginActivation
  <2>3. CASE BeginDeactivation(w)
    <3>1. chain' \in [Worker -> Seq(BOOLEAN)]
      BY <2>1, <2>3 DEF BeginDeactivation
    <3>2. runtime' \in [Worker -> {"none", "active", "stopped"}] /\ stage' \in [Worker -> Stage]
      BY <1>1, <2>3 DEF BeginDeactivation, Stage
    <3> QED
      BY <1>1, <2>3, <3>1, <3>2 DEF BeginDeactivation, WorkerOK
  <2>4. CASE Barrier(w)
    <3>1. stage' \in [Worker -> Stage]
      BY <1>1, <2>4 DEF Barrier, Proceed, Stage
    <3> QED
      BY <1>1, <2>4, <3>1 DEF Barrier, WorkerOK
  <2>5. CASE EnsureRecord(w)
    BY <1>2, <2>5 DEF EnsureRecord
  <2>6. CASE Activate(w)
    <3>1. runtime' \in [Worker -> {"none", "active", "stopped"}] /\ stage' \in [Worker -> Stage]
      BY <1>1, <2>6 DEF Activate, Stage
    <3> QED
      BY <1>1, <2>6, <3>1 DEF Activate, WorkerOK
  <2>7. CASE Settle(w)
    <3>1. stage' \in [Worker -> Stage]
      BY <1>1, <2>7 DEF Settle, Stage
    <3> QED
      BY <1>1, <2>7, <3>1 DEF Settle, WorkerOK
  <2>8. CASE Retry(w)
    <3>1. chain' \in [Worker -> Seq(BOOLEAN)]
      BY <1>3, <2>8 DEF Retry
    <3>2. retry' \in [Worker -> BOOLEAN]
      BY <1>1, <2>8 DEF Retry
    <3> QED
      BY <1>1, <2>8, <3>1, <3>2 DEF Retry, WorkerOK
  <2> QED
    BY <1>8, <2>2, <2>3, <2>4, <2>5, <2>6, <2>7, <2>8 DEF Transition
<1>9. ASSUME NEW w \in Worker, ActivationFails(w) PROVE WorkerOK'
  <2>1. failures' \in 0 .. MaxFailures
    BY <1>1, <1>9, WorkerAssumption DEF ActivationFails
  <2>2. stage' \in [Worker -> Stage] /\ retry' \in [Worker -> BOOLEAN]
    <3>1. RetryNeeded(w) \in BOOLEAN
      BY DEF RetryNeeded
    <3> QED
      BY <1>1, <1>9, <3>1 DEF ActivationFails, Stage
  <2> QED
    BY <1>1, <1>9, <2>1, <2>2 DEF ActivationFails, WorkerOK
<1>10. CASE OutsideRequest
  <2>1. requests' \in 0 .. MaxRequests
    BY <1>1, <1>10, WorkerAssumption DEF OutsideRequest
  <2> QED
    BY <1>1, <1>10, <2>1 DEF OutsideRequest, WorkerOK
<1>11. CASE UNCHANGED vars
  BY <1>2, <1>11 DEF vars
<1> QED
  BY <1>2, <1>4, <1>5, <1>6, <1>7, <1>8, <1>9, <1>10, <1>11 DEF Next, MaybeTrigger

\* The record stops running with the end of its own run, with a reset, or is
\* put again.
LEMMA EndStep ==
  ASSUME RequestInv, LeaseStep, Running, ~Running', tasks # << >>, Head(tasks).kind = "end"
  PROVE  run[record.lock] = "ending"
<1>1. /\ record \in Record /\ None \notin Record /\ record.running
      /\ record.age \in Nat
  BY RecordAssumption DEF RequestInv, LeaseOK, Running, Record
<1>2. record' # record
  BY DEF Running
<1>3. CASE Apply
  <2> DEFINE a == Head(tasks).by
  <2>1. run[a] = "ending" /\ Effect("end", a)
    <3>1. run[a] = WaitsIn("end")
      BY HeadIsAwaited
    <3> QED
      BY <1>3, <3>1 DEF Apply, WaitsIn
  <2> HIDE DEF a
  <2>2. Owns(a)
    BY <1>2, <2>1 DEF Effect, NoWrite
  <2> QED
    BY <2>1, <2>2 DEF Owns
<1>4. CASE Tick
  <2>1. record' = [record EXCEPT !.age = Capped(record.age + 1, Tolerance)]
    BY <1>1, <1>4 DEF Tick
  <2>2. Capped(record.age + 1, Tolerance) \in 0 .. Tolerance
    BY <1>1, CappedType
  <2>3. record' \in Record /\ record'.running
    BY <1>1, <2>1, <2>2 DEF Record
  <2> QED
    BY <1>1, <2>3 DEF Running
<1>5. CASE Stops \/ Request
  BY <1>2, <1>5 DEF Stops, Request
<1>6. ASSUME NEW a \in Actor, RunStep(a) \/ Missing(a) \/ ResetStalled(a) \/ TryAcquire(a)
      PROVE  FALSE
  BY <1>2, <1>6 DEF RunStep, AcquireRead, Heartbeat, HeartbeatRead, Leave, End, Put, Missing,
    ResetStalled, TryAcquire
<1> QED
  BY <1>3, <1>4, <1>5, <1>6 DEF LeaseStep

\* At the start the queue is empty and everyone is off.
LEMMA RequestInit == Init => WorkerOK /\ RequestInv
<1> SUFFICES ASSUME Init PROVE WorkerOK /\ RequestInv
  OBVIOUS
<1>1. WorkerOK
  BY WorkerAssumption DEF Init, WorkerOK, Stage
<1>2. Fresh \in Record /\ Tolerance \in Nat
  BY LeaseAssumption DEF Fresh, Record
<1>3. tasks \in Seq(Task) /\ DOMAIN tasks = {}
  BY DEF Init, LeaseInit
<1>4. LeaseOK
  BY <1>2, <1>3 DEF Init, LeaseInit, LeaseOK, RunPc, Waiting
<1>5. TasksAwaited /\ TasksApart
  BY <1>3 DEF TasksAwaited, TasksApart
<1>6. BeatsInRun
  BY DEF Init, LeaseInit, BeatsInRun
<1> QED
  BY <1>1, <1>4, <1>5, <1>6 DEF RequestInv

\* Nothing leaves its type, and every request in the queue is one its actor
\* still waits for: a run is not left while a request of it is under way.
THEOREM RequestsAwaited == Spec => [](TypeOK /\ RequestInv)
<1>1. WorkerOK /\ RequestInv /\ [Next]_vars => (WorkerOK /\ RequestInv)'
  <2> SUFFICES ASSUME WorkerOK, RequestInv, [Next]_vars PROVE (WorkerOK /\ RequestInv)'
    OBVIOUS
  <2>1. WorkerOK'
    BY WorkerStep DEF RequestInv, TypeOK
  <2>2. LeaseStep
    BY IsLeaseStep
  <2> QED
    BY <2>1, <2>2, RequestStep
<1>2. WorkerOK /\ RequestInv => TypeOK
  BY DEF RequestInv, TypeOK
<1> QED
  BY RequestInit, <1>1, <1>2, PTL DEF Spec

\* However late its requests are, a run that was superseded never ends the
\* lease of its successor: no bound on delays is needed.
THEOREM EndFenced == Spec => EndIsFenced
<1> DEFINE Fenced == Running /\ ~Running' /\ tasks # << >> /\ Head(tasks).kind = "end"
                       => run[record.lock] = "ending"
<1>1. WorkerOK /\ RequestInv /\ [Next]_vars => Fenced
  <2> SUFFICES ASSUME WorkerOK, RequestInv, [Next]_vars, Running, ~Running', tasks # << >>,
                      Head(tasks).kind = "end"
               PROVE  run[record.lock] = "ending"
    OBVIOUS
  <2>1. LeaseStep
    BY IsLeaseStep
  <2> QED
    BY <2>1, EndStep
<1>2. TypeOK /\ RequestInv => WorkerOK /\ RequestInv
  BY DEF TypeOK
<1>3. Spec => [][Fenced]_vars
  <2> HIDE DEF Fenced
  <2> QED
    BY RequestsAwaited, <1>1, <1>2, PTL DEF Spec
<1> QED
  BY <1>3 DEF EndIsFenced

-------------------------------------------------------------------------------
(***************************************************************************)
(* The lease excludes                                                      *)
(***************************************************************************)
\* The types the lease needs.
LEMMA HeldTypes ==
  ASSUME HeldInv
  PROVE  /\ record \in Record /\ record.age \in Nat /\ record.age <= Tolerance
         /\ record.running \in BOOLEAN /\ record.lock \in Actor \cup {None}
         /\ run \in [Actor -> RunPc] /\ beat \in [Actor -> {"none", "timer", "sent", "answered"}]
         /\ aborted \in [Actor -> BOOLEAN]
         /\ since \in [Actor -> Nat] /\ pulse \in [Actor -> Nat]
         /\ current \subseteq Actor /\ alive \subseteq Actor
         /\ MaxDelay \in Nat /\ Interval \in Nat /\ WindDown \in Nat /\ Tolerance \in Nat
<1>1. LeaseOK /\ record # None
  BY DEF HeldInv, RequestInv
<1>2. record \in Record
  BY <1>1 DEF LeaseOK
<1>3. /\ record.age \in 0 .. Tolerance
      /\ record.running \in BOOLEAN /\ record.lock \in Actor \cup {None}
  BY <1>2 DEF Record
<1>4. MaxDelay \in Nat /\ Interval \in Nat /\ WindDown \in Nat /\ Tolerance \in Nat
  BY LeaseAssumption
<1>5. record.age \in Nat /\ record.age <= Tolerance
  BY <1>3, <1>4
<1> QED
  BY <1>1, <1>2, <1>3, <1>4, <1>5 DEF LeaseOK

\* Nobody can take the lease of a body, or reset it.
LEMMA YoungIsNotFree ==
  ASSUME HeldInv, InTime, NEW a \in Executing PROVE Young(a) /\ ~Free
<1>1. a \in Actor /\ a \in alive
  BY HeldTypes DEF Executing
<1>2. Young(a)
  BY <1>1 DEF HeldInv, LeaseOf
<1>3. record.age < Tolerance
  <2>1. beat[a] \in {"none", "timer", "sent", "answered"} /\ pulse[a] \in Nat /\ since[a] \in Nat
    BY <1>1, HeldTypes
  <2> QED
    BY <1>2, <2>1, HeldTypes DEF Young, InTime
<1>4. record.age \in Nat /\ Tolerance \in Nat
  BY HeldTypes
<1> QED
  BY <1>1, <1>2, <1>3, <1>4 DEF Young, Free, Stalled, OwnerDied

\* A step that leaves the record and an actor alone leaves the actor its lease.
LEMMA Elsewhere ==
  ASSUME NEW a \in Actor, LeaseOf(a), record' = record, alive' \subseteq alive,
         a \in current' => a \in current,
         run'[a] = run[a], beat'[a] = beat[a], aborted'[a] = aborted[a],
         since'[a] = since[a], pulse'[a] = pulse[a]
  PROVE  LeaseOf(a)'
<1>1. /\ Free => Free'
      /\ Stalled' = Stalled /\ Running' = Running
  BY DEF Free, Running, Stalled, OwnerDied
<1> QED
  BY <1>1 DEF LeaseOf, Takable, Prompt, Won, Executing, Young

\* A step of one actor that leaves the record alone.
LEMMA OwnStep ==
  ASSUME HeldInv, NEW a \in Actor, record' = record, alive' \subseteq alive,
         \A b \in Actor : b # a =>
           /\ run'[b] = run[b] /\ beat'[b] = beat[b] /\ aborted'[b] = aborted[b]
           /\ since'[b] = since[b] /\ pulse'[b] = pulse[b]
           /\ b \in current' => b \in current,
         LeaseOf(a)'
  PROVE  record' # None /\ \A b \in Actor : LeaseOf(b)'
<1>1. record' # None
  BY DEF HeldInv
<1>2. ASSUME NEW b \in Actor, b # a PROVE LeaseOf(b)'
  BY <1>2, Elsewhere DEF HeldInv
<1> QED
  BY <1>1, <1>2

\* An abort gives a body its time to stop.
LEMMA StopsLease ==
  ASSUME HeldInv, InTime, Stops PROVE record' # None /\ \A b \in Actor : LeaseOf(b)'
<1>1. CASE UNCHANGED << aborted, since >>
  <2>1. ASSUME NEW b \in Actor PROVE LeaseOf(b)'
    BY <1>1, <2>1, Elsewhere DEF HeldInv, Stops
  <2> QED
    BY <2>1 DEF HeldInv, Stops
<1>2. ASSUME NEW a \in Actor, Abort(a), alive' = alive, ~UNCHANGED << aborted, since >>
      PROVE  record' # None /\ \A b \in Actor : LeaseOf(b)'
  <2>1. /\ aborted' = [aborted EXCEPT ![a] = TRUE] /\ ~aborted[a]
        /\ since' = IF run[a] = "body" THEN [since EXCEPT ![a] = 0] ELSE since
        /\ UNCHANGED << record, tasks, current, alive, run, beat, pulse >>
    BY <1>2 DEF Abort, Stops
  <2>2. LeaseOf(a) /\ aborted'[a] /\ (since'[a] = since[a] \/ (run[a] = "body" /\ since'[a] = 0))
    <3>1. LeaseOf(a)
      BY DEF HeldInv
    <3>2. aborted'[a]
      BY <2>1, HeldTypes
    <3>3. since'[a] = since[a] \/ (run[a] = "body" /\ since'[a] = 0)
      BY <2>1, HeldTypes
    <3> QED
      BY <3>1, <3>2, <3>3
  <2>3. a \in Executing' => Young(a)'
    <3>1. ASSUME a \in Executing' PROVE Young(a)'
      <4>1. a \in Executing /\ run[a] = "body"
        BY <2>1, <3>1 DEF Executing
      <4>2. Young(a) /\ since'[a] = 0
        BY <2>1, <4>1, HeldTypes, YoungIsNotFree
      <4> QED
        BY <2>1, <2>2, <4>2, HeldTypes DEF Young, Running
    <3> QED
      BY <3>1
  <2>4. LeaseOf(a)'
    <3>1. Takable(a)' /\ run'[a] \notin {"put", "ensuring"}
      BY <2>1, <2>2 DEF LeaseOf, Takable, Free, Stalled, Running, OwnerDied
    <3>2. Prompt(a)' /\ Won(a)'
      BY <2>1, <2>2 DEF LeaseOf, Prompt, Won, Running
    <3> QED
      BY <2>3, <3>1, <3>2 DEF LeaseOf
  <2>5. \A b \in Actor : b # a => aborted'[b] = aborted[b] /\ since'[b] = since[b]
    BY <2>1, HeldTypes
  <2> QED
    BY <2>1, <2>4, <2>5, OwnStep
<1> QED
  BY <1>1, <1>2 DEF Stops

\* The run begins with the lease it won.
LEMMA AcquireReadLease ==
  ASSUME HeldInv, InTime, NEW a \in Actor, AcquireRead(a)
  PROVE  record' # None /\ \A b \in Actor : LeaseOf(b)'
<1>1. /\ UNCHANGED << record, tasks, current, alive >> /\ run[a] = "acquired" /\ a \in alive
      /\ LeaseOf(a)
  BY DEF AcquireRead, HeldInv
<1>2. LeaseOf(a)'
  <2>1. CASE run' = [run EXCEPT ![a] = "off"] \/ run' = [run EXCEPT ![a] = "stopping"]
    <3>1. run'[a] \in {"off", "stopping", "ending"}
      BY <2>1, HeldTypes
    <3> QED
      BY <3>1 DEF LeaseOf, Takable, Prompt, Won, Executing
  <2>2. CASE /\ a \in current /\ ~aborted[a] /\ Goto(a, "body")
             /\ beat' = [beat EXCEPT ![a] = "timer"]
             /\ pulse' = [pulse EXCEPT ![a] = 0]
             /\ UNCHANGED << aborted, resume >>
    <3>1. /\ run'[a] = "body" /\ beat'[a] = "timer" /\ pulse'[a] = 0 /\ ~aborted'[a]
      BY <2>2, HeldTypes DEF Goto
    <3>2. /\ Running /\ record.lock = a /\ record.age <= since[a] /\ since[a] <= MaxDelay
          /\ since[a] \in Nat
      BY <1>1, <2>2, HeldTypes DEF LeaseOf, Won, Prompt
    <3>3. Young(a)'
      BY <1>1, <3>1, <3>2, HeldTypes DEF Young, Running
    <3> QED
      BY <3>1, <3>3 DEF LeaseOf, Takable, Prompt, Won
  <2> QED
    BY <2>1, <2>2 DEF AcquireRead, Goto
<1>3. \A b \in Actor : b # a =>
           /\ run'[b] = run[b] /\ beat'[b] = beat[b] /\ aborted'[b] = aborted[b]
           /\ since'[b] = since[b] /\ pulse'[b] = pulse[b]
  BY HeldTypes DEF AcquireRead, Goto, Forget
<1> QED
  BY <1>1, <1>2, <1>3, OwnStep

\* The heartbeat is sent within the interval.
LEMMA HeartbeatLease ==
  ASSUME HeldInv, InTime, NEW a \in Actor, Heartbeat(a)
  PROVE  record' # None /\ \A b \in Actor : LeaseOf(b)'
<1>1. /\ UNCHANGED << record, current, alive, run, aborted, resume, since >>
      /\ a \in alive /\ run[a] = "body" /\ beat[a] = "timer"
      /\ \/ aborted[a] /\ beat' = [beat EXCEPT ![a] = "none"] /\ UNCHANGED pulse
         \/ beat' = [beat EXCEPT ![a] = "sent"] /\ pulse' = [pulse EXCEPT ![a] = 0]
  BY DEF Heartbeat
<1>2. Young(a)
  BY <1>1, HeldTypes, YoungIsNotFree DEF Executing
<1>3. Young(a)'
  BY <1>1, <1>2, HeldTypes DEF Young, Running
<1>4. LeaseOf(a)'
  BY <1>1, <1>3 DEF LeaseOf, Takable, Prompt, Won
<1>5. \A b \in Actor : b # a => beat'[b] = beat[b] /\ pulse'[b] = pulse[b]
  BY <1>1, HeldTypes
<1> QED
  BY <1>1, <1>4, <1>5, OwnStep

\* The answer sets the next timer, or aborts the run.
LEMMA HeartbeatReadLease ==
  ASSUME HeldInv, InTime, NEW a \in Actor, HeartbeatRead(a)
  PROVE  record' # None /\ \A b \in Actor : LeaseOf(b)'
<1>1. /\ UNCHANGED << record, tasks, current, alive, run, resume >> /\ beat[a] = "answered"
      /\ a \in alive /\ run[a] \in {"body", "stopping"}
  <2>1. beat[a] = "answered" => run[a] \in {"body", "stopping"}
    BY DEF HeldInv, RequestInv, BeatsInRun
  <2> QED
    BY <2>1 DEF HeartbeatRead
<1>2. LeaseOf(a)'
  <2>1. CASE run[a] = "stopping"
    BY <1>1, <2>1 DEF LeaseOf, Takable, Prompt, Won, Executing
  <2>2. CASE run[a] = "body"
    <3>1. Young(a)
      BY <1>1, <2>2, HeldTypes, YoungIsNotFree DEF Executing
    <3>2. ASSUME beat' = [beat EXCEPT ![a] = "timer"],
                 pulse' = [pulse EXCEPT ![a] = 0],
                 UNCHANGED << aborted, since >>
          PROVE  Young(a)'
      <4>1. beat'[a] = "timer" /\ pulse'[a] = 0
        BY <3>2, HeldTypes
      <4>2. /\ Running /\ record.lock = a /\ record.age <= MaxDelay
            /\ aborted[a] => since[a] <= WindDown
        BY <1>1, <3>1, HeldTypes DEF Young
      <4> QED
        BY <1>1, <3>2, <4>1, <4>2, HeldTypes DEF Young, Running
    <3>3. ASSUME beat' = [beat EXCEPT ![a] = "none"],
                 aborted' = [aborted EXCEPT ![a] = TRUE],
                 since' = IF aborted[a] THEN since ELSE [since EXCEPT ![a] = 0],
                 pulse' = pulse
          PROVE  Young(a)'
      <4>1. /\ beat'[a] = "none" /\ aborted'[a] /\ since'[a] \in Nat
            /\ since'[a] = IF aborted[a] THEN since[a] ELSE 0
        BY <3>3, HeldTypes
      <4>2. /\ Running /\ record.lock = a /\ record.age <= MaxDelay
            /\ aborted[a] => since[a] <= WindDown
        BY <1>1, <3>1, HeldTypes DEF Young
      <4>3. since'[a] <= WindDown /\ record.age <= MaxDelay + Interval + since'[a]
        BY <4>1, <4>2, HeldTypes
      <4> QED
        BY <1>1, <4>1, <4>2, <4>3 DEF Young, Running
    <3>4. Young(a)'
      <4>1. [beat EXCEPT ![a] = IF run[a] = "body" THEN "timer" ELSE "none"]
              = [beat EXCEPT ![a] = "timer"]
        BY <2>2
      <4> QED
        BY <3>2, <3>3, <4>1 DEF HeartbeatRead
    <3> QED
      BY <1>1, <2>2, <3>4 DEF LeaseOf, Takable, Prompt, Won
  <2> QED
    BY <1>1, <2>1, <2>2
<1>3. \A b \in Actor : b # a =>
           /\ beat'[b] = beat[b] /\ aborted'[b] = aborted[b]
           /\ since'[b] = since[b] /\ pulse'[b] = pulse[b]
  <2>1. /\ \E l \in {"timer", "none"} : beat' = [beat EXCEPT ![a] = l]
        /\ aborted' = aborted \/ aborted' = [aborted EXCEPT ![a] = TRUE]
        /\ since' = since \/ since' = [since EXCEPT ![a] = 0]
        /\ pulse' = pulse \/ pulse' = [pulse EXCEPT ![a] = 0]
    BY DEF HeartbeatRead
  <2> QED
    BY <2>1, HeldTypes
<1> QED
  BY <1>1, <1>2, <1>3, OwnStep

\* The body is left, or the run ends.
LEMMA LeavingLease ==
  ASSUME HeldInv, InTime, NEW a \in Actor, Leave(a) \/ End(a)
  PROVE  record' # None /\ \A b \in Actor : LeaseOf(b)'
<1>1. /\ UNCHANGED << record, current, alive, aborted, pulse >>
      /\ run' = [run EXCEPT ![a] = "stopping"] \/ run' = [run EXCEPT ![a] = "ending"]
      /\ since' = since \/ since' = [since EXCEPT ![a] = 0]
      /\ beat' = beat \/ beat' = [beat EXCEPT ![a] = IF beat[a] = "timer" THEN "none" ELSE beat[a]]
  BY DEF Leave, End, Await, Goto
<1>2. LeaseOf(a)'
  <2>1. run'[a] \in {"stopping", "ending"}
    BY <1>1, HeldTypes
  <2> QED
    BY <2>1 DEF LeaseOf, Takable, Prompt, Won, Executing
<1>3. \A b \in Actor : b # a => run'[b] = run[b] /\ beat'[b] = beat[b] /\ since'[b] = since[b]
  BY <1>1, HeldTypes
<1> QED
  BY <1>1, <1>2, <1>3, OwnStep

\* Who finds the lease free, or stalled, asks for it.
LEMMA AskingLease ==
  ASSUME HeldInv, InTime, NEW a \in Actor, ResetStalled(a) \/ (Free /\ TryAcquire(a))
  PROVE  record' # None /\ \A b \in Actor : LeaseOf(b)'
<1>1. /\ UNCHANGED << record, alive, beat, pulse >> /\ current' = current \cup {a}
      /\ since' = [since EXCEPT ![a] = 0]
      /\ \/ run' = [run EXCEPT ![a] = "acquiring"] /\ Free
         \/ run' = [run EXCEPT ![a] = "resetting"] /\ Stalled
      /\ aborted' = aborted \/ aborted' = [aborted EXCEPT ![a] = FALSE]
  BY DEF ResetStalled, TryAcquire, Await, Goto
<1>2. LeaseOf(a)'
  <2>1. since'[a] = 0 /\ ((run'[a] = "acquiring" /\ Free') \/ (run'[a] = "resetting" /\ Stalled'))
    <3>1. since'[a] = 0
      BY <1>1, HeldTypes
    <3>2. Free' = Free /\ Stalled' = Stalled
      BY <1>1 DEF Free, Stalled, Running, OwnerDied
    <3>3. (run'[a] = "acquiring" /\ Free) \/ (run'[a] = "resetting" /\ Stalled)
      BY <1>1, HeldTypes
    <3> QED
      BY <3>1, <3>2, <3>3
  <2> QED
    BY <2>1, HeldTypes DEF LeaseOf, Takable, Prompt, Won, Executing
<1>3. \A b \in Actor : b # a =>
           /\ run'[b] = run[b] /\ aborted'[b] = aborted[b] /\ since'[b] = since[b]
           /\ b \in current' => b \in current
  BY <1>1, HeldTypes
<1> QED
  BY <1>1, <1>2, <1>3, OwnStep

\* A request from outside takes no lease.
LEMMA RequestLease ==
  ASSUME HeldInv, InTime, Request PROVE record' # None /\ \A b \in Actor : LeaseOf(b)'
<1>1. ASSUME NEW b \in Actor PROVE LeaseOf(b)'
  BY <1>1, Elsewhere DEF HeldInv, Request
<1> QED
  BY <1>1 DEF HeldInv, Request

\* What is written in the name of one actor does not reach the others, unless
\* it takes or gives back a lease that a body holds.
LEMMA WrittenFor ==
  ASSUME HeldInv, InTime, NEW a, NEW doc \in Record, Write(a, doc), alive' = alive,
         \A b \in Actor : b # a =>
           /\ run'[b] = run[b] /\ beat'[b] = beat[b] /\ aborted'[b] = aborted[b]
           /\ since'[b] = since[b] /\ pulse'[b] = pulse[b],
         \A b \in Executing : b = a \/ doc = record,
         a \in Actor => LeaseOf(a)'
  PROVE  record' # None /\ \A b \in Actor : LeaseOf(b)'
<1>1. record' = doc /\ record' # None /\ \A b \in Actor : b # a => b \notin current'
  BY RecordAssumption DEF Write
<1>2. ASSUME NEW b \in Actor, b # a PROVE LeaseOf(b)'
  <2>1. LeaseOf(b)
    BY DEF HeldInv
  <2>2. b \in Executing' => Young(b)'
    <3>1. ASSUME b \in Executing' PROVE Young(b)'
      <4>1. b \in Executing
        BY <1>2, <3>1 DEF Executing
      <4>2. Young(b) /\ record' = record
        BY <1>1, <1>2, <4>1, YoungIsNotFree
      <4> QED
        BY <1>2, <4>2 DEF Young, Running
    <3> QED
      BY <3>1
  <2> QED
    BY <1>1, <1>2, <2>1, <2>2 DEF LeaseOf, Takable, Prompt, Won
<1> QED
  BY <1>1, <1>2

\* A write that is refused is refused to one actor.
LEMMA NotWritten ==
  ASSUME HeldInv, NEW a \in Actor, NoWrite(a), alive' = alive,
         \A b \in Actor : b # a =>
           /\ run'[b] = run[b] /\ beat'[b] = beat[b] /\ aborted'[b] = aborted[b]
           /\ since'[b] = since[b] /\ pulse'[b] = pulse[b],
         LeaseOf(a)'
  PROVE  record' # None /\ \A b \in Actor : LeaseOf(b)'
BY OwnStep DEF NoWrite

\* A body holds the lease, so nobody else writes to it.
LEMMA BodyOwns ==
  ASSUME HeldInv, InTime, NEW b \in Executing PROVE record.lock = b /\ Owns(b) /\ ~Free /\ ~Stalled
BY YoungIsNotFree DEF Young, Owns, Running, Free

\* Only who finds the lease free takes it, and knows its age.
LEMMA AcquireLease ==
  ASSUME HeldInv, InTime, NEW a \in Actor, run[a] = "acquiring", Effect("acquire", a),
         run' = [run EXCEPT ![a] = "acquired"],
         UNCHANGED << alive, beat, aborted, resume, since, pulse >>
  PROVE  record' # None /\ \A b \in Actor : LeaseOf(b)'
<1>1. LeaseOf(a) /\ since[a] \in Nat
  BY HeldTypes DEF HeldInv
<1>2. run'[a] = "acquired" /\ \A b \in Actor : b # a => run'[b] = run[b]
  BY HeldTypes
<1>3. CASE Acquires(a)
  <2>1. Write(a, Acquired(a)) /\ Acquired(a) \in Record
    <3>1. Acquired(a) \in Record
      BY <1>1, CappedType DEF Acquired, Record
    <3> QED
      BY <1>3, <3>1 DEF Effect
  <2>2. Executing = {}
    <3>1. Free
      BY <1>1, <1>3 DEF Acquires, LeaseOf, Takable
    <3> QED
      BY <3>1, BodyOwns
  <2>3. LeaseOf(a)'
    <3>1. record' = Acquired(a) /\ record' # None /\ Capped(since[a], Tolerance) <= since[a]
      BY <1>1, <2>1, RecordAssumption, HeldTypes DEF Write, Capped
    <3>2. Running' /\ record'.lock = a /\ record'.age <= since'[a]
      BY <3>1 DEF Acquired, Running
    <3> QED
      BY <1>1, <1>2, <3>2 DEF LeaseOf, Takable, Prompt, Won, Executing
  <2> QED
    BY <1>2, <2>1, <2>2, <2>3, WrittenFor
<1>4. CASE ~Acquires(a)
  <2>1. NoWrite(a)
    BY <1>4 DEF Effect
  <2>2. LeaseOf(a)'
    BY <1>1, <1>2, <2>1 DEF NoWrite, LeaseOf, Takable, Prompt, Won, Executing
  <2> QED
    BY <1>2, <2>1, <2>2, NotWritten
<1> QED
  BY <1>3, <1>4

\* A heartbeat of a body is written: its age is that of the request.
LEMMA BeatLease ==
  ASSUME HeldInv, InTime, NEW a \in Actor, beat[a] = "sent", run[a] \in {"body", "stopping"},
         Effect("heartbeat", a), beat' = [beat EXCEPT ![a] = "answered"],
         UNCHANGED << alive, run, aborted, resume, since, pulse >>
  PROVE  record' # None /\ \A b \in Actor : LeaseOf(b)'
<1>1. /\ beat'[a] = "answered" /\ pulse[a] \in Nat /\ record \in Record
      /\ \A b \in Actor : b # a => beat'[b] = beat[b]
  BY HeldTypes
<1>2. run'[a] = "stopping" => LeaseOf(a)'
  BY DEF LeaseOf, Takable, Prompt, Won, Executing
<1>3. CASE Owns(a)
  <2> DEFINE doc == [record EXCEPT !.age = Capped(pulse[a], Tolerance)]
  <2>1. Write(a, doc)
    BY <1>3 DEF Effect
  <2>2. /\ doc \in Record /\ doc.running = record.running /\ doc.lock = record.lock
        /\ doc.age <= pulse[a]
    <3>1. Capped(pulse[a], Tolerance) \in 0 .. Tolerance /\ Capped(pulse[a], Tolerance) <= pulse[a]
      BY <1>1, CappedType, HeldTypes DEF Capped
    <3> QED
      BY <1>1, <3>1 DEF Record
  <2> HIDE DEF doc
  <2>3. \A b \in Executing : b = a
    BY <1>3, BodyOwns DEF Owns
  <2>4. run[a] = "body" => LeaseOf(a)'
    <3>1. ASSUME run[a] = "body", a \in alive PROVE Young(a)'
      <4>1. Young(a)
        BY <3>1, YoungIsNotFree DEF Executing
      <4>2. record' = doc /\ record' # None
        BY <2>1, <2>2, RecordAssumption DEF Write
      <4> QED
        BY <1>1, <2>2, <4>1, <4>2 DEF Young, Running
    <3> QED
      BY <3>1 DEF LeaseOf, Takable, Prompt, Won, Executing
  <2>5. LeaseOf(a)'
    BY <1>2, <2>4
  <2> QED
    BY <1>1, <2>1, <2>2, <2>3, <2>5, WrittenFor
<1>4. CASE ~Owns(a)
  <2>1. NoWrite(a)
    BY <1>4 DEF Effect
  <2>2. a \notin Executing
    BY <1>4, BodyOwns
  <2>3. LeaseOf(a)'
    BY <2>2 DEF LeaseOf, Takable, Prompt, Won, Executing
  <2> QED
    BY <1>1, <2>1, <2>3, NotWritten
<1> QED
  BY <1>3, <1>4

\* A lease is ended by its own run, or reset when it has stalled.
LEMMA EndLease ==
  ASSUME HeldInv, InTime, NEW a \in Actor, NEW kind \in {"end", "reset"}, run[a] = WaitsIn(kind),
         Effect(kind, a), run' = [run EXCEPT ![a] = "off"], beat' = beat, Forget(a), alive' = alive
  PROVE  record' # None /\ \A b \in Actor : LeaseOf(b)'
<1>1. LeaseOf(a) /\ record \in Record /\ record # None
  BY HeldTypes DEF HeldInv
<1>2. /\ run'[a] = "off"
      /\ \A b \in Actor : b # a =>
           /\ run'[b] = run[b] /\ beat'[b] = beat[b] /\ aborted'[b] = aborted[b]
           /\ since'[b] = since[b] /\ pulse'[b] = pulse[b]
  BY HeldTypes DEF Forget
<1>3. LeaseOf(a)'
  BY <1>2 DEF LeaseOf, Takable, Prompt, Won, Executing
<1>4. CASE NoWrite(a)
  BY <1>2, <1>3, <1>4, NotWritten
<1>5. ASSUME NEW doc \in Record, Write(a, doc), \A b \in Executing : b = a
      PROVE  record' # None /\ \A b \in Actor : LeaseOf(b)'
  BY <1>2, <1>3, <1>5, WrittenFor
<1>6. CASE kind = "end"
  <2>1. CASE Owns(a)
    <3>1. [record EXCEPT !.running = FALSE, !.again = resume[a]] \in Record
      <4>1. resume[a] \in BOOLEAN
        BY DEF HeldInv, RequestInv, LeaseOK
      <4> QED
        BY <1>1, <4>1 DEF Record
    <3>2. \A b \in Executing : b = a
      BY <2>1, BodyOwns DEF Owns
    <3> QED
      BY <1>5, <1>6, <2>1, <3>1, <3>2 DEF Effect
  <2> QED
    BY <1>4, <1>6, <2>1 DEF Effect
<1>7. CASE kind = "reset"
  <2>1. CASE Acquires(a)
    <3>1. [record EXCEPT !.running = FALSE, !.lock = None, !.age = Tolerance] \in Record
      <4>1. Tolerance \in 0 .. Tolerance
        BY LeaseAssumption
      <4> QED
        BY <1>1, <4>1 DEF Record
    <3>2. \A b \in Executing : b = a
      <4>1. Stalled
        BY <1>1, <1>7, <2>1 DEF Acquires, LeaseOf, Takable, WaitsIn
      <4> QED
        BY <4>1, BodyOwns
    <3> QED
      BY <1>5, <1>7, <2>1, <3>1, <3>2 DEF Effect
  <2> QED
    BY <1>4, <1>7, <2>1 DEF Effect
<1> QED
  BY <1>6, <1>7

\* A request that is applied gives the lease to who found it free, and keeps or
\* ends it for its holder only.
LEMMA ApplyLease ==
  ASSUME HeldInv, InTime, Apply PROVE record' # None /\ \A b \in Actor : LeaseOf(b)'
<1> DEFINE kind == Head(tasks).kind
           a == Head(tasks).by
<1>1. RequestInv /\ tasks # << >> /\ None \notin Actor /\ record # None /\ record \in Record
  BY LeaseAssumption, HeldTypes DEF HeldInv, Apply
<1>2. /\ kind \in Kinds \cup {"request"}
      /\ IF kind = "request" THEN a = None ELSE a \in Actor
      /\ kind = "heartbeat" => beat[a] = "sent" /\ run[a] \in {"body", "stopping"}
      /\ kind \in {"acquire", "end", "put", "reset"} => run[a] = WaitsIn(kind)
  BY <1>1, HeadIsAwaited
<1>3. /\ Effect(kind, a)
      /\ run' = IF a = None \/ kind = "heartbeat" THEN run
                ELSE [run EXCEPT ![a] = IF kind = "acquire" THEN "acquired" ELSE "off"]
      /\ beat' = IF kind = "heartbeat" THEN [beat EXCEPT ![a] = "answered"] ELSE beat
      /\ IF a = None \/ kind \in {"heartbeat", "acquire"}
         THEN UNCHANGED << aborted, resume, since, pulse >>
         ELSE Forget(a)
      /\ UNCHANGED alive
  BY DEF Apply
<1> HIDE DEF kind, a
<1>4. CASE kind = "acquire"
  <2>1. a \in Actor /\ run[a] = "acquiring" /\ a # None
    BY <1>1, <1>2, <1>4 DEF WaitsIn
  <2> QED
    BY <1>3, <1>4, <2>1, AcquireLease
<1>5. CASE kind = "heartbeat"
  BY <1>2, <1>3, <1>5, BeatLease
<1>6. CASE kind \in {"end", "reset"}
  <2>1. a \in Actor /\ run[a] = WaitsIn(kind) /\ a # None
    BY <1>1, <1>2, <1>6
  <2>2. run' = [run EXCEPT ![a] = "off"] /\ beat' = beat /\ Forget(a)
    BY <1>3, <1>6, <2>1
  <2> QED
    BY <1>3, <1>6, <2>1, <2>2, EndLease
<1>7. CASE kind = "put"
  <2>1. a \in Actor /\ run[a] = "ensuring"
    BY <1>2, <1>7 DEF WaitsIn
  <2> QED
    BY <2>1 DEF HeldInv, LeaseOf
<1>8. CASE kind = "request"
  <2>1. Write(a, record) /\ a \notin Actor
    BY <1>1, <1>2, <1>3, <1>8 DEF Effect
  <2>2. UNCHANGED << run, beat, aborted, resume, since, pulse, alive >>
    BY <1>2, <1>3, <1>8
  <2> QED
    BY <1>1, <2>1, <2>2, WrittenFor
<1> QED
  BY <1>2, <1>4, <1>5, <1>6, <1>7, <1>8 DEF Kinds

\* Nothing that must happen is overtaken by time.
LEMMA TickLease ==
  ASSUME HeldInv, InTime, Tick PROVE record' # None /\ \A b \in Actor : LeaseOf(b)'
<1> DEFINE Older(n) == IF n + 1 > Tolerance THEN Tolerance ELSE n + 1
<1>1. /\ record' = [record EXCEPT !.age = Older(record.age)]
      /\ UNCHANGED << tasks, current, alive, run, beat, aborted, resume >>
      /\ record # None
  BY DEF HeldInv, Tick, Capped
<1>2. /\ record' \in Record /\ record' # None /\ record'.age = Older(record.age)
      /\ record'.running = record.running /\ record'.lock = record.lock
  <2>1. Older(record.age) \in 0 .. Tolerance
    BY HeldTypes
  <2>2. record' \in Record
    BY <1>1, <2>1, HeldTypes DEF Record
  <2> HIDE DEF Older
  <2> QED
    BY <1>1, <2>2, HeldTypes, RecordAssumption DEF Record
<1>3. /\ Running' <=> Running
      /\ Stalled => Stalled'
      /\ Free => Free'
  <2>1. Running' <=> Running
    BY <1>1, <1>2 DEF Running
  <2>2. record.age >= Tolerance => record'.age >= Tolerance
    BY <1>2, HeldTypes
  <2>3. OwnerDied => OwnerDied'
    BY <1>1, <1>2, <2>1 DEF OwnerDied
  <2> QED
    BY <2>1, <2>2, <2>3 DEF Free, Stalled
<1>4. ASSUME NEW b \in Actor PROVE LeaseOf(b)'
  <2>1. LeaseOf(b) /\ ~Overdue(b)
    BY DEF HeldInv, Tick
  <2>2. /\ since[b] \in Nat /\ pulse[b] \in Nat /\ record.age \in Nat
        /\ beat[b] \in {"none", "timer", "sent", "answered"}
        /\ MaxDelay \in Nat /\ Interval \in Nat /\ WindDown \in Nat /\ Tolerance \in Nat
    BY HeldTypes
  <2>3. /\ run[b] \in Waiting \/ (run[b] = "body" /\ aborted[b]) => since'[b] = Older(since[b])
        /\ beat[b] # "none" => pulse'[b] = Older(pulse[b])
        /\ ~(run[b] \in Waiting \/ (run[b] = "body" /\ aborted[b])) => since'[b] = since[b]
    BY DEF Tick, Capped
  <2>4. Takable(b)' /\ run'[b] \notin {"put", "ensuring"}
    BY <1>1, <1>3, <2>1 DEF LeaseOf, Takable
  <2>5. Prompt(b)'
    <3>1. ASSUME run[b] = "acquiring" \/ (run[b] = "acquired" /\ b \in alive)
          PROVE  since'[b] <= MaxDelay
      <4>1. run[b] \in Waiting /\ ~(since[b] >= MaxDelay)
        BY <2>1, <3>1 DEF Overdue, Waiting, Queued
      <4> QED
        BY <2>2, <2>3, <4>1
    <3> QED
      BY <1>1, <3>1 DEF Prompt
  <2>6. Won(b)'
    <3>1. ASSUME run[b] = "acquired", b \in current
          PROVE  Running' /\ record'.lock = b /\ record'.age <= since'[b]
      <4>1. Running /\ record.lock = b /\ record.age <= since[b] /\ run[b] \in Waiting
        BY <2>1, <3>1 DEF LeaseOf, Won, Waiting
      <4>2. record'.age <= since'[b]
        BY <1>2, <2>2, <2>3, <4>1
      <4> QED
        BY <1>2, <1>3, <4>1, <4>2
    <3> QED
      BY <1>1, <3>1 DEF Won
  <2>7. b \in Executing' => Young(b)'
    <3>1. ASSUME b \in Executing' PROVE Young(b)'
      <4>1. b \in Executing /\ run[b] = "body" /\ b \in alive
        BY <1>1, <3>1 DEF Executing
      <4>2. Young(b)
        BY <4>1, YoungIsNotFree
      <4>3. /\ aborted[b] => ~(since[b] >= WindDown)
            /\ beat[b] = "timer" => ~(pulse[b] >= Interval)
            /\ beat[b] \in {"sent", "answered"} => ~(pulse[b] >= MaxDelay)
        BY <2>1, <4>1 DEF Overdue
      <4>4. Running' /\ record'.lock = b
        BY <1>2, <1>3, <4>2 DEF Young
      <4>5. aborted[b] => since'[b] <= WindDown /\ since'[b] = since[b] + 1
        BY <2>2, <2>3, <4>1, <4>3 DEF InTime
      <4>6. beat[b] = "timer" => pulse'[b] <= Interval /\ record'.age <= MaxDelay + pulse'[b]
        BY <1>2, <2>2, <2>3, <4>2, <4>3 DEF InTime, Young
      <4>7. beat[b] = "sent" =>
              pulse'[b] <= MaxDelay /\ record'.age <= MaxDelay + Interval + pulse'[b]
        BY <1>2, <2>2, <2>3, <4>2, <4>3 DEF InTime, Young
      <4>8. beat[b] = "answered" => pulse'[b] <= MaxDelay /\ record'.age <= pulse'[b]
        BY <1>2, <2>2, <2>3, <4>2, <4>3 DEF InTime, Young
      <4>9. beat[b] = "none" => aborted[b] /\ record'.age <= MaxDelay + Interval + since'[b]
        BY <1>2, <2>2, <4>2, <4>5 DEF Young
      <4> QED
        BY <1>1, <4>4, <4>5, <4>6, <4>7, <4>8, <4>9 DEF Young
    <3> QED
      BY <3>1
  <2> QED
    BY <2>4, <2>5, <2>6, <2>7 DEF LeaseOf
<1> QED
  BY <1>2, <1>4

\* The lease is kept, and only its own run, or a reset of a stalled one, ends it.
LEMMA HeldStep == HeldInv /\ InTime /\ LeaseStep => HeldInv'
<1> SUFFICES ASSUME HeldInv, InTime, LeaseStep PROVE HeldInv'
  OBVIOUS
<1>1. RequestInv'
  BY RequestStep DEF HeldInv
<1>2. CASE Stops \/ Apply \/ Tick \/ Request
  <2>1. record' # None /\ \A b \in Actor : LeaseOf(b)'
    BY <1>2, StopsLease, ApplyLease, TickLease, RequestLease
  <2> QED
    BY <1>1, <2>1 DEF HeldInv
<1>3. ASSUME NEW a \in Actor,
             RunStep(a) \/ Missing(a) \/ ResetStalled(a) \/ (Free /\ TryAcquire(a))
      PROVE  HeldInv'
  <2>1. ~Put(a) /\ ~Missing(a)
    BY DEF HeldInv, LeaseOf, Put, Missing
  <2>2. record' # None /\ \A b \in Actor : LeaseOf(b)'
    BY <1>3, <2>1, AcquireReadLease, HeartbeatLease, HeartbeatReadLease, LeavingLease, AskingLease
      DEF RunStep
  <2> QED
    BY <1>1, <2>2 DEF HeldInv
<1> QED
  BY <1>2, <1>3 DEF LeaseStep

\* A body holds the lease from the start, for there is none.
LEMMA HeldInit == Present /\ Init => HeldInv
<1> SUFFICES ASSUME Present, Init PROVE HeldInv
  OBVIOUS
<1>1. RequestInv
  BY RequestInit
<1>2. record # None
  <2>1. Fresh \in Record
    BY LeaseAssumption DEF Fresh, Record
  <2> QED
    BY <2>1, RecordAssumption DEF Init, LeaseInit
<1>3. \A a \in Actor : LeaseOf(a)
  BY DEF Init, LeaseInit, LeaseOf, Takable, Prompt, Won, Executing
<1> QED
  BY <1>1, <1>2, <1>3 DEF HeldInv

\* At most one process is in the body, and it holds the lease it believes in.
LEMMA HeldExcludes == HeldInv /\ InTime => OneRunner /\ LeaseIsHeld
<1> SUFFICES ASSUME HeldInv, InTime PROVE OneRunner /\ LeaseIsHeld
  OBVIOUS
<1>1. \A a \in Executing : Running /\ record.lock = a
  BY YoungIsNotFree DEF Young
<1>2. OneRunner
  <2>1. CASE Executing = {}
    BY <2>1, FS_EmptySet DEF OneRunner
  <2>2. CASE Executing # {}
    <3>1. Executing = {record.lock}
      BY <1>1, <2>2
    <3> QED
      BY <3>1, FS_Singleton DEF OneRunner
  <2> QED
    BY <2>1, <2>2
<1> QED
  BY <1>1, <1>2 DEF LeaseIsHeld

\* The job's body never runs twice at once and holds the lease it believes in,
\* for any number of processes, operators, terms, crashes and requests from
\* outside, also while two processes believe to lead.
THEOREM LeaseExcludes ==
  ASSUME Present, InTime PROVE Spec => [](OneRunner /\ LeaseIsHeld)
<1>1. Init => WorkerOK /\ HeldInv
  BY RequestInit, HeldInit
<1>2. WorkerOK /\ HeldInv /\ [Next]_vars => (WorkerOK /\ HeldInv)'
  <2> SUFFICES ASSUME WorkerOK, HeldInv, [Next]_vars PROVE (WorkerOK /\ HeldInv)'
    OBVIOUS
  <2>1. TypeOK
    BY DEF HeldInv, RequestInv, TypeOK
  <2> QED
    BY <2>1, WorkerStep, IsLeaseStep, HeldStep
<1>3. HeldInv => OneRunner /\ LeaseIsHeld
  BY HeldExcludes
<1> QED
  BY <1>1, <1>2, <1>3, PTL DEF Spec

-------------------------------------------------------------------------------
(***************************************************************************)
(* A lease that was won is used                                            *)
(***************************************************************************)
\* Actors send no request from outside.
LEMMA NoRequestSent ==
  ASSUME RequestInv, Used, NEW a \in Actor, NEW k \in Kinds, tasks' = tasks \/ Send(k, a)
  PROVE  \A j \in DOMAIN tasks' : tasks'[j].kind # "request"
<1> DEFINE t == [kind |-> k, by |-> a]
<1>1. CASE tasks' = tasks
  BY <1>1 DEF Used
<1>2. CASE Send(k, a)
  <2>1. tasks \in Seq(Task) /\ t \in Task /\ t.kind # "request"
    BY DEF RequestInv, LeaseOK, Task, Kinds
  <2>2. tasks' = Append(tasks, t)
    BY <1>2 DEF Send
  <2> HIDE DEF t
  <2>3. /\ tasks' \in Seq(Task) /\ Len(tasks') = Len(tasks) + 1
        /\ \A i \in 1 .. Len(tasks) : tasks'[i] = tasks[i]
        /\ tasks'[Len(tasks) + 1] = t
    BY <2>1, <2>2, AppendProperties
  <2>4. ASSUME NEW j \in DOMAIN tasks' PROVE j \in 1 .. Len(tasks) \/ j = Len(tasks) + 1
    BY <2>1, <2>3
  <2> QED
    BY <2>1, <2>3, <2>4 DEF Used
<1> QED
  BY <1>1, <1>2

\* A step of one actor that leaves the record alone.
LEMMA OwnUse ==
  ASSUME HeldInv, Used, NEW a \in Actor, record' = record, alive' \subseteq alive,
         current \subseteq current',
         \A b \in Actor : b # a => run'[b] = run[b],
         NEW k \in Kinds, tasks' = tasks \/ Send(k, a),
         Using(a) => Using(a)'
  PROVE  Used'
<1>1. \A j \in DOMAIN tasks' : tasks'[j].kind # "request"
  BY NoRequestSent DEF HeldInv
<1>2. ASSUME Owned' PROVE Using(record.lock)'
  <2>1. Owned /\ Using(record.lock) /\ record.lock \in Actor
    BY <1>2, HeldTypes DEF Used, Owned, Running
  <2>2. CASE record.lock = a
    BY <2>1, <2>2
  <2>3. CASE record.lock # a
    BY <2>1, <2>3 DEF Using
  <2> QED
    BY <2>2, <2>3
<1> QED
  BY <1>1, <1>2 DEF Used, Owned, Using

\* What a run does by itself it does not forget.
LEMMA RunUse ==
  ASSUME HeldInv, Used, NEW a \in Actor,
         RunStep(a) \/ ResetStalled(a) \/ TryAcquire(a)
  PROVE  Used'
<1>1. /\ UNCHANGED << record, alive >> /\ current \subseteq current'
      /\ \A b \in Actor : b # a => run'[b] = run[b]
  BY HeldTypes
    DEF RunStep, AcquireRead, Heartbeat, HeartbeatRead, Leave, End, Put, ResetStalled, TryAcquire,
      Await, Goto
<1>2. Using(a) => Using(a)'
  <2>1. CASE AcquireRead(a)
    <3>1. a \in current => run'[a] \in {"body", "stopping"}
      BY <2>1, HeldTypes DEF AcquireRead, Goto
    <3> QED
      BY <2>1, <3>1 DEF Using, AcquireRead
  <2>2. CASE Heartbeat(a) \/ HeartbeatRead(a)
    BY <2>2 DEF Heartbeat, HeartbeatRead, Using
  <2>3. CASE Leave(a) \/ End(a)
    <3>1. run'[a] \in {"stopping", "ending"}
      BY <2>3, HeldTypes DEF Leave, End, Await, Goto
    <3> QED
      BY <3>1 DEF Using
  <2>4. CASE Put(a) \/ ResetStalled(a) \/ TryAcquire(a)
    BY <2>4 DEF Put, ResetStalled, TryAcquire, Using
  <2> QED
    BY <2>1, <2>2, <2>3, <2>4 DEF RunStep
<1>3. \E k \in Kinds : tasks' = tasks \/ Send(k, a)
  <2>1. {"acquire", "heartbeat", "end", "put", "reset"} = Kinds
    BY DEF Kinds
  <2> QED
    BY <2>1
      DEF RunStep, AcquireRead, Heartbeat, HeartbeatRead, Leave, End, Put, ResetStalled, TryAcquire
<1> QED
  BY <1>1, <1>2, <1>3, OwnUse

\* Who is answered knows whether it won; a refused write is not the holder's.
LEMMA ApplyUse ==
  ASSUME HeldInv, Used, Apply PROVE Used'
<1> DEFINE kind == Head(tasks).kind
           a == Head(tasks).by
<1>1. /\ RequestInv /\ tasks # << >> /\ record # None /\ record \in Record /\ None \notin Actor
      /\ tasks \in Seq(Task)
  BY LeaseAssumption, HeldTypes DEF HeldInv, RequestInv, LeaseOK, Apply
<1>2. \A j \in DOMAIN tasks' : tasks'[j].kind # "request"
  <2>1. tasks' = Tail(tasks)
    BY DEF Apply
  <2>2. \A j \in DOMAIN tasks' : tasks'[j] = tasks[j + 1] /\ j + 1 \in DOMAIN tasks
    BY <1>1, <2>1, HeadTailProperties
  <2> QED
    BY <2>2 DEF Used
<1>3. kind # "request"
  <2>1. Head(tasks) = tasks[1] /\ 1 \in DOMAIN tasks
    BY <1>1
  <2> QED
    BY <2>1 DEF Used
<1>4. /\ kind \in Kinds /\ a \in Actor /\ a # None
      /\ kind = "heartbeat" => run[a] \in {"body", "stopping"}
      /\ kind \in {"acquire", "end", "put", "reset"} => run[a] = WaitsIn(kind)
  BY <1>1, <1>3, HeadIsAwaited
<1>5. /\ Effect(kind, a)
      /\ run' = IF a = None \/ kind = "heartbeat" THEN run
                ELSE [run EXCEPT ![a] = IF kind = "acquire" THEN "acquired" ELSE "off"]
      /\ UNCHANGED alive
  BY DEF Apply
<1> HIDE DEF kind, a
<1>6. \A b \in Actor : b # a => run'[b] = run[b]
  BY <1>4, <1>5, HeldTypes
<1>7. run'[a] = IF kind = "heartbeat" THEN run[a]
                  ELSE IF kind = "acquire" THEN "acquired" ELSE "off"
  BY <1>4, <1>5, HeldTypes
<1>8. ASSUME NEW doc \in Record, Write(a, doc) PROVE record' = doc /\ current' = {a}
  BY <1>4, <1>8 DEF Write
<1>9. ASSUME Owned', NoWrite(a), record.lock # a PROVE Using(record.lock)'
  <2>1. Owned /\ Using(record.lock) /\ record.lock \in Actor /\ record' = record
        /\ current' = current \ {a}
    BY <1>5, <1>9, HeldTypes DEF Used, Owned, Running, NoWrite
  <2> QED
    BY <1>6, <1>9, <2>1 DEF Using
<1>10. ASSUME Owned', NoWrite(a), kind # "heartbeat" PROVE record.lock # a
  <2>1. Using(record.lock)
    BY <1>5, <1>10 DEF Used, Owned, Running, NoWrite
  <2>2. ASSUME record.lock = a PROVE FALSE
    <3>1. kind = "end"
      BY <1>4, <1>10, <2>1, <2>2 DEF Kinds, WaitsIn, Using
    <3>2. Owns(a)
      BY <1>1, <2>2 DEF Owns
    <3>3. record'.running = FALSE
      <4>1. resume[a] \in BOOLEAN
        BY <1>4 DEF HeldInv, RequestInv, LeaseOK
      <4>2. [record EXCEPT !.running = FALSE, !.again = resume[a]] \in Record
        BY <1>1, <4>1 DEF Record
      <4> QED
        BY <1>1, <1>5, <1>8, <3>1, <3>2, <4>2 DEF Effect, Record
    <3> QED
      BY <1>10, <3>3 DEF Owned, Running
  <2> QED
    BY <2>2
<1>11. ASSUME Owned' PROVE Using(record.lock)'
  <2>1. CASE kind = "acquire"
    <3>1. CASE Acquires(a)
      <4>1. Acquired(a) \in Record
        BY <1>4, CappedType, HeldTypes DEF Acquired, Record
      <4>2. record' = Acquired(a) /\ current' = {a}
        BY <1>5, <1>8, <2>1, <3>1, <4>1 DEF Effect
      <4>3. record'.lock = a
        BY <4>2 DEF Acquired
      <4> QED
        BY <1>7, <2>1, <4>2, <4>3 DEF Using
    <3>2. CASE ~Acquires(a)
      BY <1>5, <1>9, <1>10, <1>11, <2>1, <3>2 DEF Effect
    <3> QED
      BY <3>1, <3>2
  <2>2. CASE kind = "heartbeat"
    <3>1. CASE Owns(a)
      <4> DEFINE doc == [record EXCEPT !.age = Capped(pulse[a], Tolerance)]
      <4>1. doc \in Record /\ doc.lock = a
        BY <1>1, <1>4, <3>1, CappedType, HeldTypes DEF Record, Owns
      <4>2. Write(a, doc)
        BY <1>5, <2>2, <3>1 DEF Effect
      <4> HIDE DEF doc
      <4>3. record'.lock = a
        BY <1>8, <4>1, <4>2
      <4> QED
        BY <1>4, <1>7, <2>2, <4>3 DEF Using
    <3>2. CASE ~Owns(a)
      <4>1. NoWrite(a) /\ record.lock # a
        BY <1>1, <1>5, <2>2, <3>2 DEF Effect, Owns
      <4> QED
        BY <1>9, <1>11, <4>1
    <3> QED
      BY <3>1, <3>2
  <2>3. CASE kind = "end"
    <3>1. CASE Owns(a)
      <4>1. resume[a] \in BOOLEAN
        BY <1>4 DEF HeldInv, RequestInv, LeaseOK
      <4>2. [record EXCEPT !.running = FALSE, !.again = resume[a]] \in Record
        BY <1>1, <4>1 DEF Record
      <4>3. record'.running = FALSE
        BY <1>1, <1>5, <1>8, <2>3, <3>1, <4>2 DEF Effect, Record
      <4> QED
        BY <1>11, <4>3 DEF Owned, Running
    <3>2. CASE ~Owns(a)
      BY <1>5, <1>9, <1>10, <1>11, <2>3, <3>2 DEF Effect
    <3> QED
      BY <3>1, <3>2
  <2>4. CASE kind = "reset"
    <3>1. CASE Acquires(a)
      <4>1. Tolerance \in 0 .. Tolerance
        BY LeaseAssumption
      <4>2. [record EXCEPT !.running = FALSE, !.lock = None, !.age = Tolerance] \in Record
        BY <1>1, <4>1 DEF Record
      <4>3. record'.running = FALSE
        BY <1>1, <1>5, <1>8, <2>4, <3>1, <4>2 DEF Effect, Record
      <4> QED
        BY <1>11, <4>3 DEF Owned, Running
    <3>2. CASE ~Acquires(a)
      BY <1>5, <1>9, <1>10, <1>11, <2>4, <3>2 DEF Effect
    <3> QED
      BY <3>1, <3>2
  <2>5. CASE kind = "put"
    BY <1>4, <2>5 DEF WaitsIn, HeldInv, LeaseOf
  <2> QED
    BY <1>4, <2>1, <2>2, <2>3, <2>4, <2>5 DEF Kinds
<1> QED
  BY <1>2, <1>11 DEF Used, Owned, Using

\* A lease that was won stays known to its winner until the winner ends it.
LEMMA UsedStep == HeldInv /\ Used /\ LeaseStep /\ MaxRequests = 0 => Used'
<1> SUFFICES ASSUME HeldInv, Used, LeaseStep, MaxRequests = 0 PROVE Used'
  OBVIOUS
<1>1. CASE Stops \/ Tick
  <2>1. /\ UNCHANGED << tasks, current, run >> /\ alive' \subseteq alive
        /\ Running' => Running /\ record'.lock = record.lock
    <3>1. CASE Stops
      BY <3>1 DEF Stops, Running
    <3>2. CASE Tick
      <4>1. /\ record \in Record /\ record # None
            /\ record' = [record EXCEPT !.age = Capped(record.age + 1, Tolerance)]
        BY <3>2, HeldTypes DEF HeldInv, Tick
      <4>2. record'.lock = record.lock /\ record'.running = record.running
        BY <4>1 DEF Record
      <4> QED
        BY <3>2, <4>1, <4>2 DEF Running, Tick
    <3> QED
      BY <1>1, <3>1, <3>2
  <2> QED
    BY <2>1 DEF Used, Owned, Using
<1>2. CASE Apply
  BY <1>2, ApplyUse
<1>3. ASSUME NEW a \in Actor, RunStep(a) \/ ResetStalled(a) \/ TryAcquire(a) PROVE Used'
  BY <1>3, RunUse
<1>4. ASSUME NEW a \in Actor, Missing(a) PROVE Used'
  BY <1>4 DEF Missing, HeldInv
<1> QED
  BY <1>1, <1>2, <1>3, <1>4 DEF LeaseStep

\* Where nobody requests a run from outside, no running record belongs to a live
\* process that has no run: whoever wins the lease learns that it did.
THEOREM WonIsUsed ==
  ASSUME Present, InTime, MaxRequests = 0 PROVE Spec => []LeaseInv
<1>1. Init => WorkerOK /\ HeldInv /\ Used
  <2> SUFFICES ASSUME Init PROVE WorkerOK /\ HeldInv /\ Used
    OBVIOUS
  <2>1. tasks = << >> /\ ~Running
    BY DEF Init, LeaseInit, Running, Fresh
  <2>2. Used
    BY <2>1 DEF Used, Owned
  <2> QED
    BY <2>2, RequestInit, HeldInit
<1>2. WorkerOK /\ HeldInv /\ Used /\ [Next]_vars => (WorkerOK /\ HeldInv /\ Used)'
  <2> SUFFICES ASSUME WorkerOK, HeldInv, Used, [Next]_vars PROVE (WorkerOK /\ HeldInv /\ Used)'
    OBVIOUS
  <2>1. TypeOK
    BY DEF HeldInv, RequestInv, TypeOK
  <2> QED
    BY <2>1, WorkerStep, IsLeaseStep, HeldStep, UsedStep
<1>3. WorkerOK /\ HeldInv /\ Used => LeaseInv
  <2> SUFFICES ASSUME WorkerOK, HeldInv, Used PROVE LeaseInv
    OBVIOUS
  <2>1. TypeOK
    BY DEF HeldInv, RequestInv, TypeOK
  <2>2. WonLeaseIsUsed
    BY DEF Used, Owned, Using, WonLeaseIsUsed
  <2> QED
    BY <2>1, <2>2, HeldExcludes DEF LeaseInv
<1> QED
  BY <1>1, <1>2, <1>3, PTL DEF Spec
===============================================================================
