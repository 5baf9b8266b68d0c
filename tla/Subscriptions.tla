----------------------------- MODULE Subscriptions -----------------------------
(***************************************************************************)
(* One relay process's subscriptions: ReqHandler, CloseHandler,            *)
(* sendToClientsWithAMatchingFilter, authenticate and                      *)
(* disconnectWhenInactive.                                                 *)
(*                                                                         *)
(* The process has one thread.  A handler that waits for the database (the *)
(* history of a REQ) is resumed as an action of its own between other      *)
(* handlers; the sends of a history page do not let anything else in.      *)
(* Live events are different: the lines of one IPC chunk start one         *)
(* delivery each, and `await sendEvent' hands over to the next of them.    *)
(* ready is the queue of those deliveries; no other handler runs until it  *)
(* is empty.                                                               *)
(*                                                                         *)
(* Connections and subscription ids are numbers, in the order in which     *)
(* wss.clients and Object.entries enumerate them.                          *)
(***************************************************************************)
EXTENDS Integers, Sequences, FiniteSets, FiniteSetsExt

CONSTANTS
  Conn,          \* connections, all open at first
  SubId,         \* subscription ids a client may use
  Event,         \* events that are broadcast
  Stored,        \* those of them that a history read may find
  Pubkey,        \* identities that may authenticate
  None,          \* no pubkey
  Asks,          \* the filter lists a REQ may carry
  Chunks,        \* the sequences of events an IPC chunk may carry
  MaxTime,       \* bound: the clock
  MaxReqs,       \* bound: accepted REQs
  MaxChunks      \* bound: chunks

\* A filter asks for ids, or for everything when it has none; until is the
\* time it lapses, MaxTime + 1 when it does not.
Filter == [ids : SUBSET Event, until : 1 .. MaxTime + 1]

ASSUME ConnAssumption == Conn \subseteq Nat \ {0} /\ SubId \subseteq Nat \ {0}
ASSUME EventAssumption == Stored \subseteq Event /\ IsFiniteSet(Event)
ASSUME AskAssumption ==
  /\ MaxTime \in Nat
  /\ Asks \subseteq Seq(Filter) \ {<< >>}
  /\ Chunks \subseteq Seq(Event) \ {<< >>}
ASSUME NoneAssumption == None \notin Pubkey

VARIABLES
  open,     \* connections whose readyState is OPEN
  user,     \* ws.nostr.pubkey
  idle,     \* ws.nostr.inactivityTimeout, and whether a message came since
  sub,      \* ws.nostr.subscriptions: the request an id stands for, 0 if none
  reqs,     \* the subscription objects, in the order they were made
  ready,    \* the deliveries waiting for their turn
  arrived,  \* events that were broadcast
  now,      \* the clock
  wire      \* what the messages sent so far tell the client about an id

vars == << open, user, idle, sub, reqs, ready, arrived, now, wire >>

-------------------------------------------------------------------------------
(***************************************************************************)
(* Subscription objects.  Positions in ask name the filter objects: the    *)
(* handler and the deliveries share them, and left is their `ids'.         *)
(***************************************************************************)
Request(c, s, ask) ==
  [ conn |-> c, id |-> s, ask |-> ask,
    left |-> [k \in DOMAIN ask |-> ask[k].ids],
    live |-> DOMAIN ask,           \* .filters
    pc |-> "reading", count |-> 0,
    sent |-> {},                   \* events its history read has yielded
    timer |-> 0 ]                  \* when .cleanupTimeout fires, 0 if unset

Lapsed(r, k) == r.ask[k].until <= now
Unlapsed(r, K) == {k \in K : ~Lapsed(r, k)}

\* doesMatchASubscriptionFilter: `filter.ids?.length && ...', so that a filter
\* without ids matches everything.  Events are older than any until.
Matches(r, k, e) == r.left[k] = {} \/ e \in r.left[k]

\* Mutant: an until of the next tick is missed.
NextExpirationLater(r, K) ==
  LET untils == {r.ask[k].until : k \in Unlapsed(r, K)} \ {now + 1, MaxTime + 1}
  IN  IF untils = {} THEN 0 ELSE Min(untils)

\* scheduleSubscriptionCleanup: the earliest until that is in the future.
NextExpiration(r, K) ==
  LET untils == {r.ask[k].until : k \in Unlapsed(r, K)} \ {MaxTime + 1}
  IN  IF untils = {} THEN 0 ELSE Min(untils)

\* isCurrent: object identity, not only presence.
Current(i) == sub[reqs[i].conn][reqs[i].id] = i

\* clearTimeout(ws.nostr.subscriptions[id]?.cleanupTimeout)
Cleared(R, i) == IF i = 0 THEN R ELSE [R EXCEPT ![i].timer = 0]

NoSubs(S, c) == \A s \in SubId : S[c][s] = 0

\* disconnectWhenInactive: a pending timeout is left alone.
Armed(I, c) == IF I[c] = "off" THEN [I EXCEPT ![c] = "quiet"] ELSE I
\* Mutant: a path that forgets to call disconnectWhenInactive.
NotArmed(I, S, c) == I
ArmedIfNone(I, S, c) == IF NoSubs(S, c) THEN Armed(I, c) ELSE I

\* lastActiveAtMs = Date.now()
Touched(c) == IF idle[c] = "quiet" THEN [idle EXCEPT ![c] = "active"] ELSE idle

-------------------------------------------------------------------------------
(***************************************************************************)
(* The client's view of an id: nothing asked, asked, caught up (EOSE) or   *)
(* over (CLOSED, or its own CLOSE).  Any other message is stray.           *)
(***************************************************************************)
After(w, m) ==
  CASE m = "EVENT"  /\ w \in {"asked", "live"} -> w
    [] m = "EOSE"   /\ w = "asked"             -> "live"
    [] m = "CLOSED" /\ w \in {"asked", "live"} -> "over"
    [] OTHER                                   -> "stray"

\* ws.send on a connection that is no longer open has no effect.
Sent(W, c, s, m) ==
  IF c \in open THEN [W EXCEPT ![c][s] = After(@, m)] ELSE W

\* The client's own message; what was stray stays known.
Says(c, s, w) ==
  [wire EXCEPT ![c][s] = IF @ = "stray" THEN @ ELSE w]

-------------------------------------------------------------------------------
(***************************************************************************)
(* Client messages                                                         *)
(***************************************************************************)
Idle == ready = << >>

\* ReqHandler.run up to the history read.
Ask(c, s, ask) ==
  LET i == Len(reqs) + 1
  IN  /\ Idle /\ c \in open /\ i <= MaxReqs
      /\ reqs' = Append(Cleared(reqs, sub[c][s]), Request(c, s, ask))
      /\ sub' = [sub EXCEPT ![c][s] = i]
      /\ idle' = Touched(c)
      /\ wire' = Says(c, s, "asked")
      /\ UNCHANGED << open, user, ready, arrived, now >>

\* deleteSubscription
Delete(c, s, I) ==
  /\ reqs' = Cleared(reqs, sub[c][s])
  /\ sub' = [sub EXCEPT ![c][s] = 0]
  /\ idle' = ArmedIfNone(I, sub', c)

\* Mutant: CLOSED without retiring an earlier request of the id.
RefuseOnly(c, s) ==
  /\ Idle /\ c \in open
  /\ wire' = Sent(Says(c, s, "asked"), c, s, "CLOSED")
  /\ idle' = Touched(c)
  /\ UNCHANGED << open, user, sub, reqs, ready, arrived, now >>

\* A REQ that is refused (rate limits, filters that are too many, too broad or
\* invalid): its CLOSED also ends an earlier request of that id.
Refuse(c, s) ==
  /\ Idle /\ c \in open
  /\ Delete(c, s, Touched(c))
  /\ wire' = Sent(Says(c, s, "asked"), c, s, "CLOSED")
  /\ UNCHANGED << open, user, ready, arrived, now >>

\* CloseHandler.run
Close(c, s) ==
  /\ Idle /\ c \in open
  /\ Delete(c, s, Touched(c))
  /\ wire' = Says(c, s, "over")
  /\ UNCHANGED << open, user, ready, arrived, now >>

\* authenticate: another identity drops the subscriptions of the former one.
Authenticate(c, p) ==
  /\ Idle /\ c \in open
  /\ sub' = IF user[c] \notin {None, p}
              THEN [sub EXCEPT ![c] = [s \in SubId |-> 0]]
              ELSE sub
  /\ user' = [user EXCEPT ![c] = p]
  /\ idle' = Touched(c)
  /\ UNCHANGED << open, reqs, ready, arrived, now, wire >>

AuthenticationFails(c) ==
  /\ Idle /\ c \in open
  /\ user' = [user EXCEPT ![c] = None]
  /\ idle' = Touched(c)
  /\ UNCHANGED << open, sub, reqs, ready, arrived, now, wire >>

-------------------------------------------------------------------------------
(***************************************************************************)
(* The history of a REQ                                                    *)
(***************************************************************************)
Reading(i) == Idle /\ reqs[i].pc = "reading"

\* sendFilteredEvents: the generator yields an event; a request that is no
\* longer current stops reading.
Yield(i, e) ==
  LET r == reqs[i]
  IN  /\ Reading(i)
      /\ e \in Stored \ r.sent
      /\ \E k \in DOMAIN r.ask : r.ask[k].ids = {} \/ e \in r.ask[k].ids
      /\ IF Current(i)
           THEN /\ reqs' = [reqs EXCEPT ![i].sent = @ \cup {e}, ![i].count = @ + 1]
                /\ wire' = Sent(wire, r.conn, r.id, "EVENT")
           ELSE /\ reqs' = [reqs EXCEPT ![i].pc = "done"]
                /\ UNCHANGED wire
      /\ UNCHANGED << open, user, idle, sub, ready, arrived, now >>

\* allRequestedEventsWereFound: as many events as there are ids in the filters,
\* counted in the filter objects as they are now.
AllFound(r) ==
  /\ r.count > 0
  /\ Cardinality({p \in (DOMAIN r.ask) \X Event : p[2] \in r.left[p[1]]}) = r.count

\* EOSE, then the end of a request that cannot match any more; the others keep
\* the filters they came with, without those that have lapsed.
Finish(i) ==
  LET r == reqs[i]
      K == Unlapsed(r, DOMAIN r.ask)
  IN  /\ Reading(i)
      /\ IF ~Current(i)
           THEN /\ reqs' = [reqs EXCEPT ![i].pc = "done"]
                /\ UNCHANGED << idle, sub, wire >>
           ELSE IF K = {} \/ AllFound(r)
             THEN /\ sub' = [sub EXCEPT ![r.conn][r.id] = 0]
                  /\ reqs' = [Cleared(reqs, i) EXCEPT ![i].pc = "done"]
                  /\ idle' = ArmedIfNone(idle, sub', r.conn)
                  /\ wire' = Sent(Sent(wire, r.conn, r.id, "EOSE"), r.conn, r.id, "CLOSED")
             ELSE /\ reqs' = [reqs EXCEPT ![i].pc = "done", ![i].live = K,
                                          ![i].timer = NextExpiration(r, K)]
                  /\ wire' = Sent(wire, r.conn, r.id, "EOSE")
                  /\ UNCHANGED << idle, sub >>
      /\ UNCHANGED << open, user, ready, arrived, now >>

ReadFails(i) ==
  LET r == reqs[i]
  IN  /\ Reading(i)
      /\ IF Current(i)
           THEN /\ sub' = [sub EXCEPT ![r.conn][r.id] = 0]
                /\ idle' = ArmedIfNone(idle, sub', r.conn)
                /\ wire' = Sent(wire, r.conn, r.id, "CLOSED")
           ELSE UNCHANGED << idle, sub, wire >>
      /\ reqs' = [reqs EXCEPT ![i].pc = "done",
                              ![i].timer = IF Current(i) THEN 0 ELSE @]
      /\ UNCHANGED << open, user, ready, arrived, now >>

-------------------------------------------------------------------------------
(***************************************************************************)
(* Live events: sendToClientsWithAMatchingFilter.  A delivery rests after  *)
(* each send.  conn, id and filters are where it stands, rest the other    *)
(* entries of that connection as they were when it came to it.             *)
(***************************************************************************)
NoRest == [s \in SubId |-> 0]
Begun(e) == [event |-> e, conn |-> 0, id |-> 0, filters |-> {}, rest |-> NoRest]

\* What the loops have still to visit.
Ahead(d, S) ==
  { << d.conn, s, d.rest[s] >> : s \in {t \in SubId : t > d.id} }
    \cup UNION { { << c, s, S[c][s] >> : s \in SubId } : c \in {b \in open : b > d.conn} }

Hits(d, R, S) ==
  { p \in Ahead(d, S) :
      p[3] # 0 /\ \E k \in R[p[3]].live : Matches(R[p[3]], k, d.event) }

First(H) ==
  CHOOSE p \in H : \A q \in H : p[1] < q[1] \/ (p[1] = q[1] /\ p[2] <= q[2])

\* The next send, after which the delivery queues up behind the others.
Advance(d, R, S, W) ==
  LET H == Hits(d, R, S)
      p == First(H)
  IN  IF H = {}
        THEN ready' = Tail(ready) /\ wire' = W
        ELSE /\ ready' = Append(Tail(ready),
                  [ event |-> d.event, conn |-> p[1], id |-> p[2],
                    filters |-> R[p[3]].live,
                    rest |-> IF p[1] = d.conn THEN d.rest ELSE S[p[1]] ])
             /\ wire' = Sent(W, p[1], p[2], "EVENT")

\* The first pass over the clients.
Start ==
  LET d == Head(ready)
  IN  /\ ready # << >> /\ d.conn = 0
      /\ Advance(d, reqs, sub, wire)
      /\ UNCHANGED << open, user, idle, sub, reqs, arrived, now >>

\* The filters that stay after a send: not lapsed, and with ids left to wait
\* for.  The ids go from the filter objects themselves.
Stays(r, k, e) ==
  /\ ~(r.ask[k].until < now)
  /\ ~(e \in r.left[k] /\ r.left[k] = {e})
Without(r, K, e) ==
  [k \in DOMAIN r.ask |-> IF k \in K /\ ~(r.ask[k].until < now)
                            THEN r.left[k] \ {e} ELSE r.left[k]]

\* After a send: the captured filters are filtered and put back, the entry is
\* dropped when none is left (its timer is not), and the loops go on.
Resume ==
  LET d == Head(ready)
      i == sub[d.conn][d.id]
      r == reqs[i]
      K == {k \in d.filters : Stays(r, k, d.event)}
      R == [reqs EXCEPT ![i].live = K, ![i].left = Without(r, d.filters, d.event)]
  IN  /\ ready # << >> /\ d.conn # 0 /\ i # 0
      /\ reqs' = R
      /\ sub' = IF K = {} THEN [sub EXCEPT ![d.conn][d.id] = 0] ELSE sub
      /\ idle' = IF K = {} THEN ArmedIfNone(idle, sub', d.conn) ELSE idle
      /\ Advance(d, R, sub', IF K = {} THEN Sent(wire, d.conn, d.id, "CLOSED") ELSE wire)
      /\ UNCHANGED << open, user, arrived, now >>

\* Another delivery has ended the subscription: the assignment to its filters
\* throws, and the delivery ends without the clients it has not come to.
Throw ==
  LET d == Head(ready)
  IN  /\ ready # << >> /\ d.conn # 0 /\ sub[d.conn][d.id] = 0
      /\ ready' = Tail(ready)
      /\ UNCHANGED << open, user, idle, sub, reqs, arrived, now, wire >>

\* A chunk of the broadcast socket: one delivery per line.  A stored event is
\* broadcast once, by the relay that stored it.
Arrive(chunk) ==
  /\ Idle /\ Len(arrived) < MaxChunks
  /\ \A j \in DOMAIN arrived : \A a \in DOMAIN arrived[j] : \A b \in DOMAIN chunk :
       arrived[j][a] = chunk[b] => chunk[b] \notin Stored
  /\ arrived' = Append(arrived, chunk)
  /\ ready' = [j \in DOMAIN chunk |-> Begun(chunk[j])]
  /\ UNCHANGED << open, user, idle, sub, reqs, now, wire >>

-------------------------------------------------------------------------------
(***************************************************************************)
(* Timers and connections                                                  *)
(***************************************************************************)
\* cleanupSubscription: the timer knows the id, not the request it was set for.
Expire(i) ==
  LET c == reqs[i].conn
      s == reqs[i].id
      j == sub[c][s]
      K == Unlapsed(reqs[j], reqs[j].live)
      fired == [reqs EXCEPT ![i].timer = 0]
  IN  /\ Idle /\ reqs[i].timer \in 1 .. now
      /\ IF j = 0 \/ c \notin open
           THEN reqs' = fired /\ UNCHANGED << idle, sub, wire >>
           ELSE IF K = {}
             THEN /\ reqs' = Cleared(fired, j)
                  /\ sub' = [sub EXCEPT ![c][s] = 0]
                  /\ idle' = ArmedIfNone(idle, sub', c)
                  /\ wire' = Sent(wire, c, s, "CLOSED")
             ELSE /\ reqs' = [fired EXCEPT ![j].live = K,
                                           ![j].timer = NextExpiration(reqs[j], K)]
                  /\ UNCHANGED << idle, sub, wire >>
      /\ UNCHANGED << open, user, ready, arrived, now >>

\* The timeout of disconnectWhenInactive.
IdleFires(c) ==
  /\ Idle /\ c \in open /\ idle[c] # "off"
  /\ IF ~NoSubs(sub, c)
       THEN idle' = [idle EXCEPT ![c] = "off"] /\ UNCHANGED open
       ELSE IF idle[c] = "active"
         THEN idle' = [idle EXCEPT ![c] = "quiet"] /\ UNCHANGED open
         ELSE open' = open \ {c} /\ UNCHANGED idle
  /\ UNCHANGED << user, sub, reqs, ready, arrived, now, wire >>

\* The connection goes away.
Disconnect(c) ==
  /\ Idle /\ c \in open
  /\ open' = open \ {c}
  /\ UNCHANGED << user, idle, sub, reqs, ready, arrived, now, wire >>

Tick ==
  /\ now < MaxTime
  /\ now' = now + 1
  /\ UNCHANGED << open, user, idle, sub, reqs, ready, arrived, wire >>

-------------------------------------------------------------------------------
\* handleConnection: no subscriptions, and the inactivity timeout is set.
Init ==
  /\ open = Conn
  /\ user = [c \in Conn |-> None]
  /\ idle = [c \in Conn |-> "quiet"]
  /\ sub = [c \in Conn |-> [s \in SubId |-> 0]]
  /\ reqs = << >>
  /\ ready = << >>
  /\ arrived = << >>
  /\ now = 0
  /\ wire = [c \in Conn |-> [s \in SubId |-> "none"]]

Requests == DOMAIN reqs

Next ==
  \/ \E c \in Conn, s \in SubId, a \in Asks : Ask(c, s, a)
  \/ \E c \in Conn, s \in SubId : Refuse(c, s) \/ Close(c, s)
  \/ \E c \in Conn, p \in Pubkey : Authenticate(c, p)
  \/ \E c \in Conn : AuthenticationFails(c) \/ IdleFires(c) \/ Disconnect(c)
  \/ \E i \in Requests, e \in Event : Yield(i, e)
  \/ \E i \in Requests : Finish(i) \/ ReadFails(i) \/ Expire(i)
  \/ \E chunk \in Chunks : Arrive(chunk)
  \/ Start \/ Resume \/ Throw \/ Tick

Spec == Init /\ [][Next]_vars

\* A history read ends, microtasks run and timers fire.
Fairness ==
  /\ \A i \in 1 .. MaxReqs : WF_vars(i \in Requests /\ (Finish(i) \/ ReadFails(i)))
                          /\ WF_vars(i \in Requests /\ Expire(i))
  /\ WF_vars(Start \/ Resume \/ Throw)

FairSpec == Spec /\ Fairness
===============================================================================
