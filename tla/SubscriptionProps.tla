-------------------------- MODULE SubscriptionProps --------------------------
(***************************************************************************)
(* What a client may rely on about its subscriptions.                      *)
(***************************************************************************)
EXTENDS Subscriptions

RequestType(r) ==
  /\ r.conn \in Conn /\ r.id \in SubId
  /\ r.ask \in Asks
  /\ r.left \in [DOMAIN r.ask -> SUBSET Event]
  /\ \A k \in DOMAIN r.ask : r.left[k] \subseteq r.ask[k].ids
  /\ r.live \subseteq DOMAIN r.ask
  /\ r.pc \in {"reading", "done"}
  /\ r.sent \subseteq Stored /\ r.count \in 0 .. Cardinality(Stored)
  /\ r.timer \in 0 .. MaxTime

\* Every variable keeps its shape; an entry of ws.nostr.subscriptions is a
\* request made on that connection under that id.
TypeOK ==
  /\ open \subseteq Conn
  /\ user \in [Conn -> Pubkey \cup {None}]
  /\ idle \in [Conn -> {"off", "quiet", "active"}]
  /\ \A i \in Requests : RequestType(reqs[i])
  /\ \A c \in Conn, s \in SubId :
       sub[c][s] # 0 => sub[c][s] \in Requests /\ reqs[sub[c][s]].conn = c
                                                /\ reqs[sub[c][s]].id = s
  /\ now \in 0 .. MaxTime
  /\ wire \in [Conn -> [SubId -> {"none", "asked", "live", "over", "stray"}]]

\* "Late results or errors from an older request cannot send EOSE/CLOSED or
\* remove its replacement" (REQ-LIFECYCLE.md): the client gets no event of a
\* request that is over, no second EOSE and no second CLOSED, also from
\* deliveries that were under way when another one ended the subscription.
NothingStray == \A c \in Conn, s \in SubId : wire[c][s] # "stray"

\* The relay keeps a subscription exactly as long as the client may think that
\* it is served: every path that drops one (refusal, read failure, expiry, the
\* last filter of a delivery) tells the client, and none tells it too early.
\* A change of identity drops them without a word; the runs that check this
\* have one identity.
ClientAgrees ==
  \A c \in open, s \in SubId : wire[c][s] \in {"asked", "live"} <=> sub[c][s] # 0

\* The relay's view of each subscription and its client's are the same.
SubscriptionInv == TypeOK /\ NothingStray /\ ClientAgrees

\* A connection without subscriptions has its inactivity timeout, whichever
\* path dropped the last of them ("will reset timeout on close",
\* web-socket-request-limiter.js), so that an abandoned one is cast off.
IdleIsTimed == \A c \in open : NoSubs(sub, c) => idle[c] # "off"

Served(i) == i \in Requests /\ Current(i) /\ reqs[i].conn \in open

\* A subscription whose filters have all lapsed is ended while its client is
\* connected, through the cleanup timer and its successors or at EOSE.
LapsedEnds ==
  \A i \in 1 .. MaxReqs :
    (Served(i) /\ Unlapsed(reqs[i], DOMAIN reqs[i].ask) = {}) ~> ~Served(i)
==============================================================================
