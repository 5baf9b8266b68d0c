-------------------------------- MODULE JobLease --------------------------------
(***************************************************************************)
(* The lease of one locked job (index jobs): how a run acquires it, keeps  *)
(* it by heartbeats and gives it back, with every request to Meilisearch   *)
(* on its way through the task queue.  Worker processes and manual         *)
(* triggers compete for it.                                                *)
(*                                                                         *)
(* Time is counted in ticks of a minute: an age is capped where the code   *)
(* stops telling values apart.  The revision of the record is only ever    *)
(* compared with one the caller read or wrote, so `current' keeps who      *)
(* would find it equal.  A run needs no name of its own: an actor has one  *)
(* run at a time, and the next begins after the last request of the former *)
(* was answered.                                                           *)
(***************************************************************************)
EXTENDS Integers, Sequences

CONSTANTS
  Worker,      \* relay processes that may lead
  Operator,    \* callers of triggerManualJob
  None,
  Manual,      \* job.manual
  Interval,    \* HEARTBEAT_INTERVAL
  Tolerance,   \* heartbeatTolerance
  MaxDelay,    \* bound: a request is applied and answered within this time
  WindDown,    \* bound: an aborted run leaves its body within this time
  Present      \* whether the record exists at the start

Actor == Worker \cup Operator

ASSUME LeaseAssumption ==
  /\ Worker \cap Operator = {} /\ None \notin Actor
  /\ Manual \in BOOLEAN /\ Present \in BOOLEAN
  /\ Interval \in Nat \ {0} /\ Tolerance \in Nat \ {0}
  /\ MaxDelay \in Nat /\ WindDown \in Nat

VARIABLES
  record,    \* the job's document, or None
  tasks,     \* mutations Meilisearch accepted and has not applied, in order
  current,   \* who read or wrote the record's present revision
  alive,     \* actors whose process runs
  run,       \* per actor, where startJob stands
  beat,      \* its heartbeat: a timer, a request, its answer, or none
  aborted,   \* whether its AbortController has fired
  resume,    \* the continuationRequested its end is going to write
  since,     \* ticks since its request was sent, or since its body was aborted
  pulse      \* ticks since its heartbeat timer was set or its heartbeat sent

leaseVars == << record, tasks, current, alive, run, beat, aborted, resume, since, pulse >>

Record == [running : BOOLEAN, lock : Actor \cup {None}, again : BOOLEAN, age : 0..Tolerance]
ASSUME RecordAssumption == None \notin Record
Task == [kind : {"acquire", "heartbeat", "end", "put", "reset", "request"}, by : Actor \cup {None}]
Queued == {"ensuring", "acquiring", "ending", "resetting"}
Waiting == {"put", "acquired"} \cup Queued
RunPc == {"off", "body", "stopping"} \cup Waiting

LeaseOK ==
  /\ record \in Record \cup {None}
  /\ tasks \in Seq(Task)
  /\ current \subseteq Actor
  /\ alive \subseteq Actor
  /\ run \in [Actor -> RunPc]
  /\ beat \in [Actor -> {"none", "timer", "sent", "answered"}]
  /\ aborted \in [Actor -> BOOLEAN]
  /\ resume \in [Actor -> BOOLEAN]
  /\ since \in [Actor -> Nat]
  /\ pulse \in [Actor -> Nat]

Fresh == [running |-> FALSE, lock |-> None, again |-> FALSE, age |-> Tolerance]

LeaseInit ==
  /\ record = IF Present THEN Fresh ELSE None
  /\ tasks = << >>
  /\ current = {}
  /\ alive = Actor
  /\ run = [a \in Actor |-> "off"]
  /\ beat = [a \in Actor |-> "none"]
  /\ aborted = [a \in Actor |-> FALSE]
  /\ resume = [a \in Actor |-> FALSE]
  /\ since = [a \in Actor |-> 0]
  /\ pulse = [a \in Actor |-> 0]

-------------------------------------------------------------------------------
Capped(n, most) == IF n > most THEN most ELSE n
Send(kind, a) == tasks' = Append(tasks, [kind |-> kind, by |-> a])
Goto(a, l) == run' = [run EXCEPT ![a] = l]
Await(a, l) == Goto(a, l) /\ since' = [since EXCEPT ![a] = 0]

Running == record # None /\ record.running
Stalled == Running /\ record.age >= Tolerance
OwnerDied == Running /\ record.lock \in Worker \ alive

-------------------------------------------------------------------------------
(***************************************************************************)
(* What Meilisearch does with the oldest task.                             *)
(***************************************************************************)
\* Mutant: the lease is taken whatever its revision.
AcquiresAnyway(a) == record # None

\* doc.revision == context.expectedRevision
Acquires(a) == record # None /\ a \in current

\* Mutant: the end of a run is not fenced.
OwnsAny(a) == record # None

\* doc.lockKey == context.lockKey
Owns(a) == record # None /\ record.lock = a

\* A write of its own: everyone else's revision is outdated.
Write(a, doc) == record' = doc /\ current' = {a} \cap Actor

NoWrite(a) == record' = record /\ current' = current \ {a}

Acquired(a) == [running |-> TRUE, lock |-> a, again |-> FALSE, age |-> Capped(since[a], Tolerance)]

Effect(kind, a) ==
  CASE kind = "acquire" -> IF Acquires(a) THEN Write(a, Acquired(a)) ELSE NoWrite(a)
    [] kind = "heartbeat" ->
         IF Owns(a) THEN Write(a, [record EXCEPT !.age = Capped(pulse[a], Tolerance)])
         ELSE NoWrite(a)
    [] kind = "end" ->
         IF Owns(a) THEN Write(a, [record EXCEPT !.running = FALSE, !.again = resume[a]])
         ELSE NoWrite(a)
    [] kind = "put" -> Write(a, Fresh)
    [] kind = "reset" ->
         IF Acquires(a)
         THEN Write(a, [record EXCEPT !.running = FALSE, !.lock = None, !.age = Tolerance])
         ELSE NoWrite(a)
    [] OTHER -> IF record = None THEN NoWrite(a) ELSE Write(a, record)

\* The controller, the timers and the plans of a run go out of scope with it.
Forget(a) ==
  /\ aborted' = [aborted EXCEPT ![a] = FALSE]
  /\ resume' = [resume EXCEPT ![a] = FALSE]
  /\ since' = [since EXCEPT ![a] = 0]
  /\ pulse' = [pulse EXCEPT ![a] = 0]

\* An acquisition and a heartbeat still have to read the record back; the other
\* calls return.
Apply ==
  LET kind == Head(tasks).kind
      a == Head(tasks).by
  IN /\ tasks # << >>
     /\ tasks' = Tail(tasks)
     /\ Effect(kind, a)
     /\ run' = IF a = None \/ kind = "heartbeat" THEN run
               ELSE [run EXCEPT ![a] = IF kind = "acquire" THEN "acquired" ELSE "off"]
     /\ beat' = IF kind = "heartbeat" THEN [beat EXCEPT ![a] = "answered"] ELSE beat
     /\ IF a = None \/ kind \in {"heartbeat", "acquire"}
        THEN UNCHANGED << aborted, resume, since, pulse >>
        ELSE Forget(a)
     /\ UNCHANGED alive

-------------------------------------------------------------------------------
(***************************************************************************)
(* startJob.                                                               *)
(***************************************************************************)
\* The record is read, found due, and the acquisition is sent.
TryAcquire(a) ==
  /\ a \in alive /\ run[a] = "off" /\ record # None
  /\ Send("acquire", a)
  /\ current' = current \cup {a}
  /\ Await(a, "acquiring")
  /\ aborted' = [aborted EXCEPT ![a] = FALSE]
  /\ UNCHANGED << record, alive, beat, resume, pulse >>

\* Only if the revision read back is the one it wrote does the run begin.
AcquireRead(a) ==
  /\ a \in alive /\ run[a] = "acquired"
  /\ \/ /\ a \notin current
        /\ Goto(a, "off")
        /\ Forget(a)
        /\ beat' = beat
     \/ /\ a \in current /\ ~aborted[a]
        /\ Goto(a, "body")
        /\ beat' = [beat EXCEPT ![a] = "timer"]
        /\ pulse' = [pulse EXCEPT ![a] = 0]
        /\ since' = [since EXCEPT ![a] = 0]
        /\ UNCHANGED << aborted, resume >>
     \/ /\ a \in current /\ aborted[a]
        /\ Goto(a, "stopping")
        /\ resume' = [resume EXCEPT ![a] = a \in Worker]
        /\ since' = [since EXCEPT ![a] = 0]
        /\ UNCHANGED << beat, aborted, pulse >>
  /\ UNCHANGED << record, tasks, current, alive >>

Heartbeat(a) ==
  /\ a \in alive /\ run[a] = "body" /\ beat[a] = "timer" /\ pulse[a] >= Interval
  /\ IF aborted[a]
     THEN beat' = [beat EXCEPT ![a] = "none"] /\ UNCHANGED << tasks, pulse >>
     ELSE /\ Send("heartbeat", a)
          /\ beat' = [beat EXCEPT ![a] = "sent"]
          /\ pulse' = [pulse EXCEPT ![a] = 0]
  /\ UNCHANGED << record, current, alive, run, aborted, resume, since >>

\* A lost lock aborts the run; an answer to a run that is stopping sets no timer.
HeartbeatRead(a) ==
  /\ a \in alive /\ beat[a] = "answered"
  /\ \/ /\ a \in current
        /\ beat' = [beat EXCEPT ![a] = IF run[a] = "body" THEN "timer" ELSE "none"]
        /\ pulse' = [pulse EXCEPT ![a] = 0]
        /\ UNCHANGED << aborted, since >>
     \/ /\ a \notin current
        /\ beat' = [beat EXCEPT ![a] = "none"]
        /\ aborted' = [aborted EXCEPT ![a] = TRUE]
        /\ since' = IF aborted[a] THEN since ELSE [since EXCEPT ![a] = 0]
        /\ pulse' = pulse
  /\ UNCHANGED << record, tasks, current, alive, run, resume >>

\* The source signal of a run fires.
Abort(a) ==
  IF run[a] \in {"acquiring", "acquired", "body"} /\ ~aborted[a]
  THEN /\ aborted' = [aborted EXCEPT ![a] = TRUE]
       /\ since' = IF run[a] = "body" THEN [since EXCEPT ![a] = 0] ELSE since
  ELSE UNCHANGED << aborted, since >>

\* The body returns, gives up its work on the signal, or fails; the heartbeat
\* timer is cleared.
Leave(a) ==
  /\ a \in alive /\ run[a] = "body"
  /\ Goto(a, "stopping")
  /\ \E failed \in BOOLEAN :
       resume' = [resume EXCEPT ![a] = aborted[a] /\ ~failed /\ a \in Worker]
  /\ beat' = [beat EXCEPT ![a] = IF @ = "timer" THEN "none" ELSE @]
  /\ UNCHANGED << record, tasks, current, alive, aborted, since, pulse >>

End(a) ==
  /\ a \in alive /\ run[a] = "stopping" /\ beat[a] = "none"
  /\ Send("end", a)
  /\ Await(a, "ending")
  /\ UNCHANGED << record, current, alive, beat, aborted, resume, pulse >>

-------------------------------------------------------------------------------
(***************************************************************************)
(* maybeEnsureRecordForJob: a record that is missing when it is looked for *)
(* is put a little later.                                                  *)
(***************************************************************************)
Missing(a) ==
  /\ a \in alive /\ run[a] = "off" /\ record = None
  /\ Await(a, "put")
  /\ UNCHANGED << record, tasks, current, alive, beat, aborted, resume, pulse >>

Put(a) ==
  /\ a \in alive /\ run[a] = "put"
  /\ Send("put", a)
  /\ Goto(a, "ensuring")
  /\ UNCHANGED << record, current, alive, beat, aborted, resume, since, pulse >>

-------------------------------------------------------------------------------
(***************************************************************************)
(* triggerManualJob, and the command-line tool that resets stalled jobs.   *)
(***************************************************************************)
\* A healthy run is left alone.
Trigger(o) == ~(Running /\ ~Stalled) /\ TryAcquire(o)

ResetStalled(o) ==
  /\ o \in alive /\ run[o] = "off" /\ Stalled
  /\ Send("reset", o)
  /\ current' = current \cup {o}
  /\ Await(o, "resetting")
  /\ UNCHANGED << record, alive, beat, aborted, resume, pulse >>

OperatorAbort(o) ==
  /\ o \in alive /\ ~aborted[o] /\ run[o] \in {"acquiring", "acquired", "body"}
  /\ Abort(o)
  /\ UNCHANGED << record, tasks, current, alive, run, beat, resume, pulse >>

Operate(o) == Missing(o) \/ Trigger(o) \/ ResetStalled(o) \/ OperatorAbort(o)

-------------------------------------------------------------------------------
\* requestCapacityPruning: patchJobByKey from outside any run.
Request ==
  /\ record # None
  /\ Send("request", None)
  /\ UNCHANGED << record, current, alive, run, beat, aborted, resume, since, pulse >>

\* What has to happen before time goes on: a request that has taken MaxDelay is
\* applied and answered, a timer fires, an aborted body is left.
Overdue(a) ==
  \/ run[a] \in Queued /\ since[a] >= MaxDelay
  \/ beat[a] = "sent" /\ pulse[a] >= MaxDelay
  \/ /\ a \in alive
     /\ \/ run[a] \in {"put", "acquired"} /\ since[a] >= MaxDelay
        \/ beat[a] = "answered" /\ pulse[a] >= MaxDelay
        \/ run[a] = "body" /\ beat[a] = "timer" /\ pulse[a] >= Interval
        \/ run[a] = "body" /\ aborted[a] /\ since[a] >= WindDown
        \/ run[a] = "stopping" /\ beat[a] = "none"

Tick ==
  /\ \A a \in Actor : ~Overdue(a)
  /\ record' = IF record = None THEN None
               ELSE [record EXCEPT !.age = Capped(@ + 1, Tolerance)]
  /\ since' = [a \in Actor |->
       IF run[a] \in Waiting \/ (run[a] = "body" /\ aborted[a])
       THEN Capped(since[a] + 1, Tolerance) ELSE since[a]]
  /\ pulse' = [a \in Actor |->
       IF beat[a] # "none" THEN Capped(pulse[a] + 1, Tolerance) ELSE pulse[a]]
  /\ UNCHANGED << tasks, current, alive, run, beat, aborted, resume >>

RunStep(a) ==
  \/ AcquireRead(a) \/ Heartbeat(a) \/ HeartbeatRead(a) \/ Leave(a) \/ End(a) \/ Put(a)
===============================================================================
