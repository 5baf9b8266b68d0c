--------------------------- MODULE IpcDeliveryProps ---------------------------
(***************************************************************************)
(* What a process may rely on when it broadcasts.                          *)
(***************************************************************************)
EXTENDS IpcDelivery

TypeOK ==
  /\ life \in {"up", "closing", "closed"} /\ serving \in BOOLEAN
  /\ sock \in [Socket -> SockState]
  /\ connection \in Socket \cup {None}
  /\ connecting \in BOOLEAN /\ connectionReady \in BOOLEAN
  /\ timer \in BOOLEAN /\ flushTimer \in BOOLEAN
  /\ pending \in Seq(Item) /\ Len(pending) <= MaxQueue
  /\ flight \in [Socket -> Seq(Item)]
  /\ answer \in [Item \cup Waiter -> {"new", "waiting", "true", "false"}]
  /\ late \subseteq Item /\ local \in [Item -> Nat] /\ hasty \in BOOLEAN

In(seq, i) == {n \in DOMAIN seq : seq[n] = i}
Places(i) == ({None} \X In(pending, i)) \cup UNION {{s} \X In(flight[s], i) : s \in Socket}

\* However often connections break, a broadcast that is waited for is in one
\* place only: retried by nobody else, and not forgotten until it times out.
InOnePlace == \A i \in Item : answer[i] = "waiting" => Cardinality(Places(i)) = 1

\* The process's own clients get a broadcast once at most, and have got it when
\* it was reported as sent; one that was reported as failed may still come.
LocalOnce ==
  \A i \in Item : local[i] <= 1 /\ (answer[i] = "true" => local[i] = 1)

\* With a connection that is ready nobody waits for one, and what is pending
\* is about to be written.
NobodyForgotten ==
  ~ hasty /\ IsReady /\ sock[connection] = "greeted" =>
             /\ \A w \in Waiter : answer[w] # "waiting"
             /\ (pending = << >> \/ flushTimer)

\* A process has one connection at a time, so each message of the others
\* reaches it once (unless it was hasty: see README).
OneConnection ==
  ~ hasty => Cardinality({s \in Socket : sock[s] \in {"dialing", "open", "greeted"}}) <= 1

\* A process that is out of touch is dialing or going to.
NeverStranded ==
  life = "up" /\ ~ HasConnection =>
    \/ timer
    \/ \E s \in Socket : sock[s] \in {"dialing", "destroyed"}

\* What becomes of a broadcast, and of the connection it needs.
DeliveryInv == TypeOK /\ InOnePlace /\ LocalOnce
ConnectionInv == NobodyForgotten /\ OneConnection /\ NeverStranded

\* When somebody serves the socket for good, the process finds it.
FindsServer == <>[]serving => []<>(IsReady \/ life # "up")
================================================================================
