------------------------------ MODULE IpcDelivery ------------------------------
(***************************************************************************)
(* The broadcasts of one process of the relay and its connection to the    *)
(* server of the socket (cross-process-broadcaster.js).  Who serves it is  *)
(* in IpcElection: here somebody does, or nobody.                          *)
(*                                                                         *)
(* A step is one callback of the process.  A socket whose other end is     *)
(* gone has its "close" event at any time later; one that was destroyed    *)
(* has it in the same turn of the event loop: callbacks of writes and      *)
(* promises come before, timers and what other sockets bring do not.       *)
(***************************************************************************)
EXTENDS Integers, Sequences, FiniteSets, SequencesExt

CONSTANTS
  Item,      \* broadcasts
  Waiter,    \* calls of waitUntilReady
  Socket,    \* sockets, used again when they are closed
  MaxQueue   \* maxQueue

ASSUME DeliveryAssumption ==
  MaxQueue \in Nat /\ Item \cap Waiter = {} /\ 1 \in Socket /\ Socket \subseteq Nat \ {0}

VARIABLES
  life,        \* "up"; "closing" and "closed": shuttingDown
  serving,     \* somebody serves the socket
  sock,        \* the sockets of the process
  connection, connecting, connectionReady,
  timer,       \* reconnectTimer is set
  flushTimer,  \* flushTimer is set
  pending,     \* pendingBroadcasts
  flight,      \* items by item.socket, in the order they were written
  answer,      \* what broadcast() and waitUntilReady() resolved to
  late,        \* items whose expiresAt has passed
  local,       \* how often deliverLocal was called for an item
  hasty        \* a call of the process came in the turn in which its socket broke

connVars == << sock, connection, connecting, connectionReady, timer >>
itemVars == << pending, flight, answer, late, local >>
vars == << life, serving, connVars, flushTimer, itemVars, hasty >>

None == 0
\* "greeted": READY_MESSAGE has come; "gone": the other end is, unnoticed;
\* "destroyed": by us, its "close" event is to come.
SockState == {"none", "dialing", "open", "greeted", "gone", "destroyed"}
Usable == {"open", "greeted", "gone"}

Settled(x) == answer[x] \in {"true", "false"}
HasConnection == connection # None /\ sock[connection] \in Usable
IsReady == connectionReady /\ HasConnection

Init ==
  /\ life = "up" /\ serving \in BOOLEAN
  /\ sock = [s \in Socket |-> IF s = 1 THEN "dialing" ELSE "none"]
  /\ connection = None /\ connecting = TRUE /\ connectionReady = FALSE
  /\ timer = FALSE /\ flushTimer = FALSE
  /\ pending = << >> /\ flight = [s \in Socket |-> << >>]
  /\ answer = [x \in Item \cup Waiter |-> "new"]
  /\ late = {} /\ local = [i \in Item |-> 0] /\ hasty = FALSE

\* Another turn of the event loop
NextTurn == \A s \in Socket : sock[s] # "destroyed"

Settle(X, value) ==
  [x \in Item \cup Waiter |-> IF x \in X /\ ~ Settled(x) THEN value ELSE answer[x]]

-------------------------------------------------------------------------------
(***************************************************************************)
(* The connection.                                                         *)
(***************************************************************************)
\* The socket that is used next
Fresh == CHOOSE s \in Socket : sock[s] = "none"

\* ensureConnectionAttempt, connectToServer: one way or the other a socket is
\* dialed, as long as there is one in Socket (the bound on sockets).
Attempt ==
  IF life # "up" \/ HasConnection \/ connecting THEN UNCHANGED << sock, connecting >>
  ELSE /\ \E s \in Socket : sock[s] = "none"
       /\ sock' = [sock EXCEPT ![Fresh] = "dialing"] /\ connecting' = TRUE

\* The "connect" event
Connect(s) ==
  /\ sock[s] = "dialing" /\ serving /\ NextTurn
  /\ connecting' = FALSE
  /\ IF life = "up"
       THEN /\ sock' = [sock EXCEPT ![s] = "open"]
            /\ connection' = s /\ connectionReady' = FALSE
       ELSE /\ sock' = [sock EXCEPT ![s] = "destroyed"]
            /\ UNCHANGED << connection, connectionReady >>
  /\ UNCHANGED << life, serving, timer, flushTimer, itemVars >>

\* Mutant: no other attempt.
RefusedForGood(s) ==
  /\ sock[s] = "dialing" /\ ~ serving /\ NextTurn
  /\ sock' = [sock EXCEPT ![s] = "none"]
  /\ connecting' = FALSE
  /\ UNCHANGED << life, serving, connection, connectionReady, timer, flushTimer, itemVars >>
\* Its "error" and "close" events, when nobody serves.  What recoverStaleSocket
\* comes to is another attempt, which ReconnectTimer stands for.
Refused(s) ==
  /\ sock[s] = "dialing" /\ ~ serving /\ NextTurn
  /\ sock' = [sock EXCEPT ![s] = "none"]
  /\ connecting' = FALSE
  /\ timer' = (timer \/ life = "up")
  /\ UNCHANGED << life, serving, connection, connectionReady, flushTimer, itemVars >>

\* READY_MESSAGE: waiters are answered, what is pending is flushed in a while.
\* Mutant: nobody is told.
ReadyUnheard(s) ==
  /\ sock[s] = "open" /\ NextTurn
  /\ sock' = [sock EXCEPT ![s] = "greeted"]
  /\ connectionReady' = TRUE
  /\ flushTimer' = (flushTimer \/ pending # << >>)
  /\ UNCHANGED << life, serving, connection, connecting, timer, itemVars >>
ReadyLine(s) ==
  /\ sock[s] = "open" /\ NextTurn
  /\ sock' = [sock EXCEPT ![s] = "greeted"]
  /\ connectionReady' = TRUE
  /\ answer' = Settle({w \in Waiter : answer[w] = "waiting"}, "true")
  /\ flushTimer' = (flushTimer \/ pending # << >>)
  /\ UNCHANGED << life, serving, connection, connecting, timer, pending, flight, late, local >>

\* Whoever serves goes, or comes.
ServerGoes ==
  /\ serving
  /\ serving' = FALSE
  /\ sock' = [s \in Socket |-> IF sock[s] \in Usable THEN "gone" ELSE sock[s]]
  /\ UNCHANGED << life, connection, connecting, connectionReady, timer, flushTimer, itemVars >>

ServerComes ==
  /\ ~ serving
  /\ serving' = TRUE
  /\ UNCHANGED << life, connVars, flushTimer, itemVars >>

-------------------------------------------------------------------------------
(***************************************************************************)
(* The broadcasts.                                                         *)
(***************************************************************************)
\* requeueBroadcast: in front of the others, unless its time is up or the queue
\* is full.
Requeued(queue, i) ==
  IF Settled(i) \/ i \in late \/ Len(queue) >= MaxQueue THEN queue ELSE << i >> \o queue

\* requeueInFlight: one after the other, so the last comes out first.
\* Mutant: they stay with their socket as well.
RequeueTwice(items, s) ==
  /\ pending' = FoldLeft(Requeued, pending, items)
  /\ answer' = Settle(ToSet(items) \ ToSet(pending'), "false")
  /\ UNCHANGED flight
Requeue(items, s) ==
  /\ pending' = FoldLeft(Requeued, pending, items)
  /\ answer' = Settle(ToSet(items) \ ToSet(pending'), "false")
  /\ flight' = [flight EXCEPT ![s] = << >>]

\* The "close" event (an "error" event before it does the same).  Callbacks of
\* writes that have not come yet find nothing to do.
CloseEvent(s) ==
  /\ sock[s] \in {"gone", "destroyed"}
  /\ Requeue(flight[s], s)
  /\ sock' = [sock EXCEPT ![s] = "none"]
  /\ connecting' = FALSE
  /\ IF connection = s THEN connection' = None /\ connectionReady' = FALSE
                       ELSE UNCHANGED << connection, connectionReady >>
  /\ timer' = (timer \/ life = "up")
  /\ UNCHANGED << life, serving, flushTimer, late, local >>

\* writeItem
Written(items) == flight' = [flight EXCEPT ![connection] = @ \o items]

Broadcast(i) ==
  /\ life = "up" /\ answer[i] = "new"
  /\ \/ /\ IsReady
        /\ Written(<< i >>) /\ answer' = [answer EXCEPT ![i] = "waiting"]
        /\ UNCHANGED << pending, sock, connecting >>
     \/ /\ ~ IsReady /\ Len(pending) >= MaxQueue
        /\ answer' = [answer EXCEPT ![i] = "false"]
        /\ UNCHANGED << pending, flight, sock, connecting >>
     \/ /\ ~ IsReady /\ Len(pending) < MaxQueue
        /\ pending' = Append(pending, i) /\ answer' = [answer EXCEPT ![i] = "waiting"]
        /\ Attempt
        /\ UNCHANGED flight
  /\ UNCHANGED << life, serving, connection, connectionReady, timer, flushTimer, late, local >>
  /\ hasty' = (hasty \/ ~ NextTurn)

\* The callback of write, without an error: even of an item that was given up.
WriteDone(s) ==
  /\ flight[s] # << >> /\ sock[s] \in Usable
  /\ LET i == Head(flight[s]) IN
       /\ local' = [local EXCEPT ![i] = @ + 1]
       /\ answer' = Settle({i}, "true")
  /\ flight' = [flight EXCEPT ![s] = Tail(@)]
  /\ UNCHANGED << life, serving, connVars, flushTimer, pending, late >>

\* The callback of write with an error
WriteFails(s) ==
  LET i == Head(flight[s]) IN
  /\ flight[s] # << >> /\ sock[s] \in {"gone", "destroyed"}
  /\ flight' = [flight EXCEPT ![s] = Tail(@)]
  /\ pending' = Requeued(pending, i)
  /\ IF Settled(i) THEN UNCHANGED << answer, connVars >>
     ELSE /\ answer' = IF pending' = pending THEN Settle({i}, "false") ELSE answer
          /\ sock' = [sock EXCEPT ![s] = "destroyed"]
          /\ IF connection = s THEN connection' = None /\ connectionReady' = FALSE
                               ELSE UNCHANGED << connection, connectionReady >>
          /\ timer' = (timer \/ (life = "up" /\ pending' # pending))
          /\ UNCHANGED connecting
  /\ UNCHANGED << life, serving, flushTimer, late, local >>

InTime(queue, i) == IF i \in late THEN queue ELSE Append(queue, i)
\* flushQueue
FlushTimer ==
  /\ flushTimer /\ NextTurn
  /\ flushTimer' = FALSE
  /\ IF IsReady
       THEN /\ answer' = Settle(ToSet(pending) \cap late, "false")
            /\ Written(FoldLeft(InTime, << >>, pending))
            /\ pending' = << >>
       ELSE UNCHANGED << pending, answer, flight >>
  /\ UNCHANGED << life, serving, connVars, late, local >>

Expire(i) ==
  /\ answer[i] = "waiting" /\ i \notin late
  /\ late' = late \cup {i}
  /\ UNCHANGED << life, serving, connVars, flushTimer, pending, flight, answer, local >>

\* Its own timer: an item in flight is given up, too.
Timeout(i) ==
  /\ answer[i] = "waiting" /\ i \in late /\ NextTurn
  /\ pending' = RemoveFirst(pending, i)
  /\ answer' = Settle({i}, "false")
  /\ UNCHANGED << life, serving, connVars, flushTimer, flight, late, local >>

-------------------------------------------------------------------------------
\* waitUntilReady
WaitUntilReady(w) ==
  /\ answer[w] = "new"
  /\ \/ IsReady /\ answer' = [answer EXCEPT ![w] = "true"] /\ UNCHANGED << sock, connecting >>
     \/ ~ IsReady /\ life = "up" /\ answer' = [answer EXCEPT ![w] = "waiting"] /\ Attempt
     \/ ~ IsReady /\ life # "up" /\ answer' = [answer EXCEPT ![w] = "false"]
        /\ UNCHANGED << sock, connecting >>
  /\ UNCHANGED << life, serving, connection, connectionReady, timer, flushTimer,
                  pending, flight, late, local >>
  /\ hasty' = (hasty \/ ~ NextTurn)

GiveUp(w) ==
  /\ answer[w] = "waiting" /\ NextTurn
  /\ answer' = [answer EXCEPT ![w] = "false"]
  /\ UNCHANGED << life, serving, connVars, flushTimer, pending, flight, late, local >>

ReconnectTimer ==
  /\ timer /\ NextTurn
  /\ timer' = FALSE
  /\ Attempt
  /\ UNCHANGED << life, serving, connection, connectionReady, flushTimer, itemVars >>

\* close(), up to the end of the leadership handlers
Close ==
  /\ life = "up"
  /\ life' = "closing"
  /\ UNCHANGED << serving, connVars, flushTimer, itemVars >>

\* close(): everything is answered; callbacks of writes still come.
Closed ==
  /\ life = "closing"
  /\ life' = "closed"
  /\ timer' = FALSE /\ flushTimer' = FALSE
  /\ answer' = Settle({x \in Item \cup Waiter : answer[x] = "waiting"}, "false")
  /\ pending' = << >>
  /\ sock' = IF HasConnection THEN [sock EXCEPT ![connection] = "destroyed"] ELSE sock
  /\ connection' = None /\ connectionReady' = FALSE /\ connecting' = FALSE
  /\ UNCHANGED << serving, flight, late, local >>

-------------------------------------------------------------------------------
Event(s) ==
  /\ \/ Connect(s) \/ Refused(s) \/ ReadyLine(s) \/ CloseEvent(s) \/ WriteDone(s) \/ WriteFails(s)
  /\ UNCHANGED hasty
Timer ==
  /\ \/ FlushTimer \/ ReconnectTimer
  /\ UNCHANGED hasty
Clock(x) ==
  /\ \/ x \in Item /\ (Expire(x) \/ Timeout(x))
     \/ x \in Waiter /\ GiveUp(x)
  /\ UNCHANGED hasty

Next ==
  \/ (ServerGoes \/ ServerComes \/ Close \/ Closed) /\ UNCHANGED hasty
  \/ Timer
  \/ \E s \in Socket : Event(s)
  \/ \E x \in Item \cup Waiter : Clock(x)
  \/ \E i \in Item : Broadcast(i)
  \/ \E w \in Waiter : WaitUntilReady(w)

\* Events are handled and timers fire; nobody has to serve, broadcast or close.
Spec ==
  /\ Init /\ [][Next]_vars
  /\ \A s \in Socket : WF_vars(Event(s))
  /\ WF_vars(FlushTimer /\ UNCHANGED hasty) /\ WF_vars(ReconnectTimer /\ UNCHANGED hasty)
  /\ WF_vars(Closed /\ UNCHANGED hasty)
  /\ \A x \in Item \cup Waiter : WF_vars(Clock(x))
================================================================================
