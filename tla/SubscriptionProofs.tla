-------------------------- MODULE SubscriptionProofs --------------------------
(***************************************************************************)
(* The relay and its clients agree on the subscriptions, for any number of *)
(* connections, ids, events, filters and requests, and however the         *)
(* deliveries of a chunk interleave.                                       *)
(***************************************************************************)
EXTENDS SubscriptionProps, SequenceTheorems, FiniteSetTheorems,
        WellFoundedInduction, TLAPS

\* The requests the model makes: the fields have their types, and count counts
\* what was sent.
Fields ==
  [ conn : Conn, id : SubId, ask : Asks,
    left : UNION {[DOMAIN ask -> SUBSET Event] : ask \in Asks},
    live : SUBSET Nat, pc : {"reading", "done"}, count : Nat,
    sent : SUBSET Stored, timer : 0 .. MaxTime ]
Req == {r \in Fields : RequestType(r) /\ r.count = Cardinality(r.sent)}

Places == [event : Event, conn : Conn \cup {0}, id : SubId \cup {0},
           filters : SUBSET Nat, rest : [SubId -> Nat]]

Wires == {"none", "asked", "live", "over", "stray"}

Shape ==
  /\ open \subseteq Conn
  /\ user \in [Conn -> Pubkey \cup {None}]
  /\ idle \in [Conn -> {"off", "quiet", "active"}]
  /\ sub \in [Conn -> [SubId -> Nat]]
  /\ reqs \in Seq(Req)
  /\ ready \in Seq(Places)
  /\ now \in 0 .. MaxTime
  /\ wire \in [Conn -> [SubId -> Wires]]

\* An entry is a request of its connection and id.
Links ==
  \A c \in Conn, s \in SubId :
    sub[c][s] # 0 => /\ sub[c][s] \in Requests
                     /\ reqs[sub[c][s]].conn = c /\ reqs[sub[c][s]].id = s

\* The client knows of every entry, and waits for its EOSE while it is read.
Known ==
  \A c \in open, s \in SubId :
    sub[c][s] # 0 =>
      /\ wire[c][s] \in {"asked", "live"}
      /\ reqs[sub[c][s]].pc = "reading" => wire[c][s] = "asked"

\* Where a delivery stands.  Its captured filters are positions of the entry it
\* will write them back to; of the entries it took along, those that another
\* delivery has ended since have no filters left, so that nothing of them is sent.
Fits(d, R, S) ==
  /\ d.conn = 0 => d.rest = NoRest
  /\ d.conn # 0 =>
       /\ d.conn \in open /\ d.id \in SubId
       /\ S[d.conn][d.id] # 0 => d.filters \subseteq DOMAIN R[S[d.conn][d.id]].ask
       /\ \A s \in SubId :
            d.rest[s] # 0 => /\ d.rest[s] \in DOMAIN R
                             /\ R[d.rest[s]].conn = d.conn /\ R[d.rest[s]].id = s
                             /\ S[d.conn][s] = d.rest[s] \/ R[d.rest[s]].live = {}
Fit == \A j \in DOMAIN ready : Fits(ready[j], reqs, sub)

ServedInv == Shape /\ Links /\ NothingStray /\ Known /\ Fit

\* The converse of Known, and the timeouts: true while nobody changes identity.
Told == \A c \in open, s \in SubId :
          wire[c][s] \in {"asked", "live"} => sub[c][s] # 0
Agreed == Told /\ IdleIsTimed

-------------------------------------------------------------------------------
(***************************************************************************)
(* Operators                                                               *)
(***************************************************************************)
\* A set of numbers that is not empty has a least one.
LEMMA Least ==
  ASSUME NEW T, T \subseteq Nat, T # {}
  PROVE  \E x \in T : \A y \in T : x <= y
<1> DEFINE R == OpToRel(<, Nat)
<1>1. IsWellFoundedOn(R, Nat)
  BY NatLessThanWellFounded
<1>2. PICK x \in T : \A y \in T : ~ (<<y, x>> \in R)
  <2> HIDE DEF R
  <2> QED BY <1>1, WFMin
<1>3. \A y \in T : ~ (y < x)
  BY <1>2 DEF OpToRel
<1> QED
  BY <1>3

\* What the loops come to first is one of what they still have to visit.
LEMMA FirstIn ==
  ASSUME NEW H, H \subseteq Nat \X Nat \X Nat, H # {}
  PROVE  First(H) \in H
<1>1. PICK p \in H : \A q \in H : p[1] <= q[1]
  <2> DEFINE T == {q[1] : q \in H}
  <2>1. T \subseteq Nat /\ T # {}
    OBVIOUS
  <2>2. PICK x \in T : \A y \in T : x <= y
    <3> HIDE DEF T
    <3> QED BY <2>1, Least
  <2> QED
    BY <2>2
<1>2. PICK r \in H : r[1] = p[1] /\ \A q \in H : q[1] = p[1] => r[2] <= q[2]
  <2> DEFINE G == {q \in H : q[1] = p[1]}
             T == {q[2] : q \in G}
  <2>1. T \subseteq Nat /\ T # {}
    OBVIOUS
  <2>2. PICK x \in T : \A y \in T : x <= y
    <3> HIDE DEF T
    <3> QED BY <2>1, Least
  <2>3. PICK r \in G : x = r[2]
    OBVIOUS
  <2>4. \A q \in G : r[2] <= q[2]
    BY <2>2, <2>3
  <2> QED
    BY <2>3, <2>4
<1>3. \A q \in H : r[1] < q[1] \/ (r[1] = q[1] /\ r[2] <= q[2])
  <2> TAKE q \in H
  <2>1. r[1] \in Nat /\ q[1] \in Nat /\ r[1] <= q[1]
    BY <1>1, <1>2
  <2>2. r[1] = q[1] => r[2] <= q[2]
    BY <1>2
  <2> QED
    BY <2>1, <2>2
<1> QED
  BY <1>3 DEF First

\* The filters of a request.
LEMMA Filters ==
  ASSUME NEW r \in Req
  PROVE  /\ r.ask \in Seq(Filter) /\ DOMAIN r.ask \subseteq Nat
         /\ \A k \in DOMAIN r.ask : r.ask[k].until \in 1 .. MaxTime + 1
         /\ RequestType(r) /\ r \in Fields /\ r.count = Cardinality(r.sent)
<1>1. RequestType(r) /\ r \in Fields /\ r.count = Cardinality(r.sent)
  BY DEF Req
<1>2. r.ask \in Seq(Filter)
  BY <1>1, AskAssumption DEF RequestType
<1>3. \A k \in DOMAIN r.ask : r.ask[k] \in Filter
  BY <1>2
<1>4. \A k \in DOMAIN r.ask : r.ask[k].until \in 1 .. MaxTime + 1
  BY <1>3 DEF Filter
<1> QED
  BY <1>1, <1>2, <1>4

\* A cleanup timer is set for a time of the clock.
LEMMA TimerType ==
  ASSUME now \in 0 .. MaxTime, NEW r \in Req, NEW K \in SUBSET DOMAIN r.ask
  PROVE  NextExpiration(r, K) \in 0 .. MaxTime
<1> DEFINE U == {r.ask[k].until : k \in Unlapsed(r, K)} \ {MaxTime + 1}
<1>1. U \subseteq 1 .. MaxTime
  BY Filters, AskAssumption DEF Unlapsed
<1>2. ASSUME U # {} PROVE Min(U) \in U
  <2>1. U \subseteq Nat
    BY <1>1, AskAssumption
  <2>2. \E x \in U : \A y \in U : x <= y
    <3> HIDE DEF U
    <3> QED BY <1>2, <2>1, Least
  <2> QED
    BY <2>2 DEF Min
<1>3. NextExpiration(r, K) = IF U = {} THEN 0 ELSE Min(U)
  BY DEF NextExpiration
<1>4. MaxTime \in Nat
  BY AskAssumption
<1> HIDE DEF U
<1>5. CASE U = {}
  BY <1>3, <1>4, <1>5
<1>6. CASE U # {}
  <2>1. Min(U) \in 1 .. MaxTime
    BY <1>1, <1>2, <1>6
  <2>2. NextExpiration(r, K) = Min(U)
    BY <1>3, <1>6
  <2> QED
    BY <2>1, <2>2, <1>4
<1> QED
  BY <1>5, <1>6

\* What the handlers change of a request leaves it one.
LEMMA Changed ==
  ASSUME NEW r \in Req
  PROVE  /\ \A t \in 0 .. MaxTime : [r EXCEPT !.timer = t] \in Req
         /\ [r EXCEPT !.pc = "done"] \in Req
         /\ \A K \in SUBSET DOMAIN r.ask : [r EXCEPT !.live = K] \in Req
<1>1. RequestType(r) /\ r \in Fields /\ r.count = Cardinality(r.sent) /\ DOMAIN r.ask \subseteq Nat
  BY Filters
<1>2. ASSUME NEW t \in 0 .. MaxTime PROVE [r EXCEPT !.timer = t] \in Req
  <2>1. [r EXCEPT !.timer = t] \in Fields
    BY <1>1 DEF Fields
  <2> QED
    BY <1>1, <2>1 DEF Fields, Req, RequestType
<1>3. [r EXCEPT !.pc = "done"] \in Req
  <2>1. [r EXCEPT !.pc = "done"] \in Fields
    BY <1>1 DEF Fields
  <2> QED
    BY <1>1, <2>1 DEF Fields, Req, RequestType
<1>4. ASSUME NEW K \in SUBSET DOMAIN r.ask PROVE [r EXCEPT !.live = K] \in Req
  <2>1. [r EXCEPT !.live = K] \in Fields
    BY <1>1 DEF Fields
  <2> QED
    BY <1>1, <2>1 DEF Fields, Req, RequestType
<1> QED
  BY <1>2, <1>3, <1>4

\* The same requests, later on.
Follows(R, Q) ==
  /\ Q \in Seq(Req) /\ DOMAIN Q = DOMAIN R
  /\ \A j \in DOMAIN R :
       /\ Q[j].conn = R[j].conn /\ Q[j].id = R[j].id /\ Q[j].ask = R[j].ask
       /\ Q[j].pc \in {R[j].pc, "done"}

\* One of them changed in other respects.
LEMMA Edited ==
  ASSUME NEW R \in Seq(Req), NEW i \in DOMAIN R, NEW q \in Req,
         q.conn = R[i].conn, q.id = R[i].id, q.ask = R[i].ask,
         q.pc \in {R[i].pc, "done"}
  PROVE  /\ Follows(R, [R EXCEPT ![i] = q])
         /\ [R EXCEPT ![i] = q][i] = q
<1>1. i \in 1 .. Len(R)
  OBVIOUS
<1>2. [R EXCEPT ![i] = q] \in Seq(Req)
  BY <1>1, ExceptSeq
<1> QED
  BY <1>2 DEF Follows

\* clearTimeout changes no more than a timer.
LEMMA ClearedFollows ==
  ASSUME NEW R \in Seq(Req), NEW i \in {0} \cup DOMAIN R
  PROVE  /\ Follows(R, Cleared(R, i))
         /\ \A j \in DOMAIN R : Cleared(R, i)[j].live = R[j].live
<1>1. CASE i = 0
  BY <1>1 DEF Cleared, Follows
<1>2. CASE i # 0
  <2> DEFINE q == [R[i] EXCEPT !.timer = 0]
  <2>1. Cleared(R, i) = [R EXCEPT ![i] = q]
    BY <1>2 DEF Cleared
  <2>2. R[i] \in Req
    BY <1>2
  <2>5. 0 \in 0 .. MaxTime
    BY AskAssumption
  <2>3. q \in Req
    BY <2>2, <2>5, Changed
  <2>4. q.conn = R[i].conn /\ q.id = R[i].id /\ q.ask = R[i].ask /\ q.pc = R[i].pc
        /\ q.live = R[i].live
    BY <2>2 DEF Req, Fields
  <2> HIDE DEF q
  <2>6. i \in DOMAIN R
    BY <1>2
  <2>7. Follows(R, Cleared(R, i))
    BY <2>1, <2>3, <2>4, <2>6, Edited
  <2>8. \A j \in DOMAIN R : Cleared(R, i)[j] = IF j = i THEN q ELSE R[j]
    BY <2>1
  <2> QED
    BY <2>4, <2>7, <2>8
<1> QED
  BY <1>1, <1>2

-------------------------------------------------------------------------------
(***************************************************************************)
(* Kinds of steps                                                          *)
(***************************************************************************)
Idles == [Conn -> {"off", "quiet", "active"}]

\* disconnectWhenInactive sets the timeout of a connection without entries, and
\* stops none.
LEMMA Arms ==
  ASSUME NEW I \in Idles, NEW S, NEW c \in Conn
  PROVE  /\ ArmedIfNone(I, S, c) \in Idles
         /\ NoSubs(S, c) => ArmedIfNone(I, S, c)[c] # "off"
         /\ \A b \in Conn : I[b] # "off" => ArmedIfNone(I, S, c)[b] # "off"
BY DEF Idles, ArmedIfNone, Armed

\* A message of the client stops no timeout either.
LEMMA Touches ==
  ASSUME idle \in Idles, NEW c \in Conn
  PROVE  /\ Touched(c) \in Idles
         /\ \A b \in Conn : idle[b] # "off" => Touched(c)[b] # "off"
BY DEF Idles, Touched

\* What a message sent does to the client's view.
LEMMA Sends ==
  ASSUME NEW W \in [Conn -> [SubId -> Wires]], NEW c \in Conn, NEW s \in SubId, NEW m
  PROVE  /\ c \notin open => Sent(W, c, s, m) = W
         /\ c \in open => Sent(W, c, s, m) = [W EXCEPT ![c][s] = After(W[c][s], m)]
BY DEF Sent

\* Entries may go, nothing is sent.
LEMMA Shrinks ==
  ASSUME ServedInv, wire' = wire, open' \subseteq open, Follows(reqs, reqs'),
         \A c \in Conn, s \in SubId : sub'[c][s] \in {0, sub[c][s]}
  PROVE  Links' /\ NothingStray' /\ Known'
<1>1. Links /\ NothingStray /\ Known /\ open \subseteq Conn
  BY DEF ServedInv, Shape
<1>2. Links'
  BY <1>1 DEF Links, Follows, Requests
<1>3. NothingStray'
  BY <1>1 DEF NothingStray
<1>4. Known'
  <2> SUFFICES ASSUME NEW c \in open', NEW s \in SubId, sub'[c][s] # 0
               PROVE  /\ wire'[c][s] \in {"asked", "live"}
                      /\ reqs'[sub'[c][s]].pc = "reading" => wire'[c][s] = "asked"
    BY DEF Known
  <2>1. c \in open /\ c \in Conn /\ sub'[c][s] = sub[c][s] /\ sub[c][s] # 0
    BY <1>1
  <2>2. sub[c][s] \in DOMAIN reqs
    BY <1>1, <2>1 DEF Links, Requests
  <2>3. reqs'[sub[c][s]].pc = "reading" => reqs[sub[c][s]].pc = "reading"
    BY <2>2 DEF Follows
  <2> QED
    BY <1>1, <2>1, <2>3 DEF Known
<1> QED
  BY <1>2, <1>3, <1>4

\* An entry goes, and its client knows.
Drops(c, s) ==
  /\ sub' = [sub EXCEPT ![c][s] = 0]
  /\ open' = open /\ Follows(reqs, reqs')
  /\ c \in open => wire' = [wire EXCEPT ![c][s] = "over"]
  /\ c \notin open => wire' = wire

LEMMA DropsKeep ==
  ASSUME ServedInv, NEW c \in Conn, NEW s \in SubId, Drops(c, s)
  PROVE  /\ Links' /\ NothingStray' /\ Known'
         /\ wire' \in [Conn -> [SubId -> Wires]] /\ sub' \in [Conn -> [SubId -> Nat]]
         /\ Told => Told'
<1>1. /\ Links /\ NothingStray /\ Known /\ open \subseteq Conn
      /\ sub \in [Conn -> [SubId -> Nat]] /\ wire \in [Conn -> [SubId -> Wires]]
  BY DEF ServedInv, Shape
<1>2. \A b \in Conn, t \in SubId :
        sub'[b][t] = IF b = c /\ t = s THEN 0 ELSE sub[b][t]
  BY <1>1 DEF Drops
<1>3. \A b \in open, t \in SubId :
        wire'[b][t] = IF b = c /\ t = s THEN "over" ELSE wire[b][t]
  BY <1>1 DEF Drops
<1>4. \A b \in Conn, t \in SubId : wire'[b][t] \in {"over", wire[b][t]}
  BY <1>1 DEF Drops
<1>5. Links'
  <2> SUFFICES ASSUME NEW b \in Conn, NEW t \in SubId, sub'[b][t] # 0
               PROVE  /\ sub'[b][t] \in DOMAIN reqs'
                      /\ reqs'[sub'[b][t]].conn = b /\ reqs'[sub'[b][t]].id = t
    BY DEF Links, Requests
  <2>1. sub'[b][t] = sub[b][t] /\ sub[b][t] # 0
    BY <1>2
  <2>2. sub[b][t] \in DOMAIN reqs /\ reqs[sub[b][t]].conn = b /\ reqs[sub[b][t]].id = t
    BY <1>1, <2>1 DEF Links, Requests
  <2>3. Follows(reqs, reqs')
    BY DEF Drops
  <2> QED
    BY <2>1, <2>2, <2>3 DEF Follows
<1>6. NothingStray'
  BY <1>1, <1>4 DEF NothingStray
<1>7. Known'
  <2> SUFFICES ASSUME NEW b \in open, NEW t \in SubId, sub'[b][t] # 0
               PROVE  /\ wire'[b][t] \in {"asked", "live"}
                      /\ reqs'[sub'[b][t]].pc = "reading" => wire'[b][t] = "asked"
    BY DEF Known, Drops
  <2>1. b \in Conn /\ sub'[b][t] = sub[b][t] /\ sub[b][t] # 0 /\ wire'[b][t] = wire[b][t]
    BY <1>1, <1>2, <1>3
  <2>2. sub[b][t] \in DOMAIN reqs
    BY <1>1, <2>1 DEF Links, Requests
  <2>3. reqs'[sub[b][t]].pc = "reading" => reqs[sub[b][t]].pc = "reading"
    BY <2>2 DEF Follows, Drops
  <2> QED
    BY <1>1, <2>1, <2>3 DEF Known
<1>8. ASSUME Told PROVE Told'
  BY <1>1, <1>2, <1>3, <1>8 DEF Told, Drops
<1>9. wire' \in [Conn -> [SubId -> Wires]]
  <2>1. "over" \in Wires
    BY DEF Wires
  <2>2. wire[c] \in [SubId -> Wires]
    BY <1>1
  <2>3. [wire[c] EXCEPT ![s] = "over"] \in [SubId -> Wires]
    BY <2>1, <2>2
  <2>4. [wire EXCEPT ![c][s] = "over"] \in [Conn -> [SubId -> Wires]]
    BY <1>1, <2>3
  <2> QED
    BY <1>1, <2>4 DEF Drops
<1>10. sub' \in [Conn -> [SubId -> Nat]]
  BY <1>1 DEF Drops
<1> QED
  BY <1>5, <1>6, <1>7, <1>8, <1>9, <1>10

\* The timeouts after an entry went: every such path asks disconnectWhenInactive.
LEMMA DropsArm ==
  ASSUME Shape, NEW c \in Conn, NEW s \in SubId, NEW I \in Idles,
         \A b \in Conn : idle[b] # "off" => I[b] # "off",
         sub' = [sub EXCEPT ![c][s] = 0],
         idle' = ArmedIfNone(I, sub', c),
         open' = open
  PROVE  idle' \in Idles /\ (IdleIsTimed => IdleIsTimed')
<1>1. /\ idle' \in Idles
      /\ NoSubs(sub', c) => idle'[c] # "off"
      /\ \A b \in Conn : I[b] # "off" => idle'[b] # "off"
  BY Arms
<1>2. ASSUME IdleIsTimed, NEW b \in open, NoSubs(sub', b) PROVE idle'[b] # "off"
  <2>1. CASE b = c
    BY <1>1, <1>2, <2>1
  <2>2. CASE b # c
    <3>1. b \in Conn /\ sub'[b] = sub[b]
      BY <2>2 DEF Shape
    <3>2. NoSubs(sub, b)
      BY <1>2, <3>1 DEF NoSubs
    <3> QED
      BY <1>1, <1>2, <3>1, <3>2 DEF IdleIsTimed
  <2> QED
    BY <2>1, <2>2
<1> QED
  BY <1>1, <1>2 DEF IdleIsTimed

\* Entries stay, and so do the timeouts.
LEMMA Stay ==
  ASSUME Shape, sub' = sub, open' \subseteq open, wire' = wire,
         \A b \in Conn : idle[b] # "off" => idle'[b] # "off"
  PROVE  Agreed => Agreed'
<1>1. open \subseteq Conn
  BY DEF Shape
<1>2. ASSUME Told PROVE Told'
  BY <1>1, <1>2 DEF Told
<1>3. ASSUME IdleIsTimed PROVE IdleIsTimed'
  BY <1>1, <1>3 DEF IdleIsTimed, NoSubs
<1> QED
  BY <1>2, <1>3 DEF Agreed

\* Between chunks no delivery is under way.
LEMMA NoneFits ==
  ASSUME ready' = << >>
  PROVE  ready' \in Seq(Places) /\ Fit'
<1>1. DOMAIN ready' = {}
  OBVIOUS
<1> QED
  BY <1>1 DEF Fit

-------------------------------------------------------------------------------
(***************************************************************************)
(* Client messages                                                         *)
(***************************************************************************)
\* An entry is 0 or a request.
LEMMA Entry ==
  ASSUME ServedInv, NEW c \in Conn, NEW s \in SubId
  PROVE  sub[c][s] \in {0} \cup DOMAIN reqs
BY DEF ServedInv, Links, Requests

\* deleteSubscription, between chunks, with what tells the client.
LEMMA DeleteKeeps ==
  ASSUME ServedInv, Idle, NEW c \in Conn, NEW s \in SubId, c \in open,
         Delete(c, s, Touched(c)), wire' = [wire EXCEPT ![c][s] = "over"],
         UNCHANGED << open, user, ready, arrived, now >>
  PROVE  ServedInv' /\ (Agreed => Agreed')
<1>1. Shape /\ reqs \in Seq(Req) /\ ready' = << >>
  BY DEF ServedInv, Shape, Idle
<1>2. Follows(reqs, reqs')
  BY <1>1, Entry, ClearedFollows DEF Delete
<1>3. Drops(c, s)
  BY <1>2 DEF Drops, Delete
<1>4. /\ Links' /\ NothingStray' /\ Known'
      /\ wire' \in [Conn -> [SubId -> Wires]] /\ sub' \in [Conn -> [SubId -> Nat]]
      /\ Told => Told'
  BY <1>3, DropsKeep
<1>5. idle' \in Idles /\ (IdleIsTimed => IdleIsTimed')
  <2>1. Touched(c) \in Idles /\ \A b \in Conn : idle[b] # "off" => Touched(c)[b] # "off"
    BY <1>1, Touches DEF Shape, Idles
  <2> QED
    BY <1>1, <2>1, DropsArm DEF Delete
<1>6. ready' \in Seq(Places) /\ Fit'
  BY <1>1, NoneFits
<1>7. Shape'
  BY <1>1, <1>2, <1>4, <1>5, <1>6 DEF Shape, Follows, Idles
<1> QED
  BY <1>4, <1>5, <1>6, <1>7 DEF ServedInv, Agreed

\* A REQ that is refused tells the client and retires the former request.
LEMMA RefuseKeeps ==
  ASSUME ServedInv, NEW c \in Conn, NEW s \in SubId, Refuse(c, s)
  PROVE  ServedInv' /\ (Agreed => Agreed')
<1>1. wire \in [Conn -> [SubId -> Wires]] /\ wire[c][s] # "stray" /\ c \in open
  BY DEF ServedInv, Shape, NothingStray, Refuse
<1>2. Says(c, s, "asked") = [wire EXCEPT ![c][s] = "asked"]
  BY <1>1 DEF Says
<1>3. [wire EXCEPT ![c][s] = "asked"] \in [Conn -> [SubId -> Wires]]
  BY <1>1 DEF Wires
<1>4. Sent(Says(c, s, "asked"), c, s, "CLOSED") = [wire EXCEPT ![c][s] = "over"]
  <2> DEFINE V == [wire EXCEPT ![c][s] = "asked"]
  <2>1. After("asked", "CLOSED") = "over"
    BY DEF After
  <2>2. V[c][s] = "asked" /\ [V EXCEPT ![c][s] = "over"] = [wire EXCEPT ![c][s] = "over"]
    BY <1>1
  <2>3. V \in [Conn -> [SubId -> Wires]]
    BY <1>3
  <2> HIDE DEF V
  <2>4. Sent(V, c, s, "CLOSED") = [V EXCEPT ![c][s] = After(V[c][s], "CLOSED")]
    BY <1>1, <2>3, Sends
  <2>5. Says(c, s, "asked") = V
    BY <1>2 DEF V
  <2> QED
    BY <2>1, <2>2, <2>4, <2>5
<1>5. /\ Idle /\ Delete(c, s, Touched(c)) /\ wire' = [wire EXCEPT ![c][s] = "over"]
      /\ UNCHANGED << open, user, ready, arrived, now >>
  BY <1>4 DEF Refuse
<1> QED
  BY <1>1, <1>5, DeleteKeeps

\* A client that closes its subscription knows.
LEMMA CloseKeeps ==
  ASSUME ServedInv, NEW c \in Conn, NEW s \in SubId, Close(c, s)
  PROVE  ServedInv' /\ (Agreed => Agreed')
<1>1. wire \in [Conn -> [SubId -> Wires]] /\ wire[c][s] # "stray" /\ c \in open
  BY DEF ServedInv, Shape, NothingStray, Close
<1>2. Says(c, s, "over") = [wire EXCEPT ![c][s] = "over"]
  BY <1>1 DEF Says
<1>3. /\ Idle /\ Delete(c, s, Touched(c)) /\ wire' = [wire EXCEPT ![c][s] = "over"]
      /\ UNCHANGED << open, user, ready, arrived, now >>
  BY <1>2 DEF Close
<1> QED
  BY <1>1, <1>3, DeleteKeeps

\* A new request.
LEMMA Requested ==
  ASSUME NEW c \in Conn, NEW s \in SubId, NEW ask \in Asks
  PROVE  /\ Request(c, s, ask) \in Req
         /\ Request(c, s, ask).conn = c /\ Request(c, s, ask).id = s
<1> DEFINE r == Request(c, s, ask)
<1>1. ask \in Seq(Filter) /\ DOMAIN ask \subseteq Nat /\ MaxTime \in Nat
  BY AskAssumption
<1>2. \A k \in DOMAIN ask : ask[k].ids \in SUBSET Event
  <2>1. \A k \in DOMAIN ask : ask[k] \in Filter
    BY <1>1
  <2> QED
    BY <2>1 DEF Filter
<1>3. r.left \in [DOMAIN ask -> SUBSET Event]
  BY <1>2 DEF Request
<1>4. Cardinality({}) = 0
  BY FS_EmptySet
<1>5. Cardinality(Stored) \in Nat
  BY EventAssumption, FS_Subset, FS_CardinalityType
<1>6. r \in Fields
  BY <1>1, <1>3 DEF Fields, Request
<1>7. RequestType(r)
  BY <1>1, <1>3, <1>5 DEF RequestType, Request
<1>8. r.count = Cardinality(r.sent)
  BY <1>4 DEF Request
<1> QED
  BY <1>6, <1>7, <1>8 DEF Req, Request

\* An accepted REQ: the id is its own from now on, and the client waits for it.
LEMMA AskKeeps ==
  ASSUME ServedInv, NEW c \in Conn, NEW s \in SubId, NEW ask \in Asks, Ask(c, s, ask)
  PROVE  ServedInv' /\ (Agreed => Agreed')
<1> DEFINE C == Cleared(reqs, sub[c][s])
           r == Request(c, s, ask)
           i == Len(reqs) + 1
<1>1. /\ Shape /\ Links /\ NothingStray /\ Known
      /\ open \subseteq Conn /\ idle \in Idles
      /\ sub \in [Conn -> [SubId -> Nat]] /\ wire \in [Conn -> [SubId -> Wires]]
      /\ reqs \in Seq(Req)
  BY DEF ServedInv, Shape, Idles
<1>2. r \in Req /\ r.conn = c /\ r.id = s
  BY Requested
<1>3. Follows(reqs, C)
  BY <1>1, Entry, ClearedFollows
<1>4. /\ reqs' = Append(C, r) /\ sub' = [sub EXCEPT ![c][s] = i] /\ idle' = Touched(c)
      /\ open' = open /\ user' = user /\ now' = now /\ ready' = << >>
      /\ c \in open /\ wire' = [wire EXCEPT ![c][s] = "asked"]
  BY <1>1 DEF Ask, Idle, Says, NothingStray
<1> HIDE DEF r, C
<1>5. /\ reqs' \in Seq(Req) /\ DOMAIN reqs' = 1 .. i /\ i \in Nat \ {0}
      /\ reqs'[i] = r /\ DOMAIN reqs = 1 .. Len(reqs)
      /\ \A j \in DOMAIN reqs : reqs'[j] = C[j]
  <2>1. C \in Seq(Req) /\ DOMAIN C = DOMAIN reqs
    BY <1>3 DEF Follows
  <2>2. Len(C) = Len(reqs) /\ DOMAIN reqs = 1 .. Len(reqs) /\ Len(reqs) \in Nat
    BY <1>1, <2>1
  <2>3. /\ Append(C, r) \in Seq(Req) /\ Len(Append(C, r)) = i
        /\ \A j \in 1 .. Len(C) : Append(C, r)[j] = C[j]
        /\ Append(C, r)[i] = r
    BY <1>2, <2>1, <2>2, AppendProperties
  <2> HIDE DEF i
  <2>4. DOMAIN Append(C, r) = 1 .. i
    BY <2>3
  <2> QED
    BY <1>4, <2>2, <2>3, <2>4 DEF i
<1>6. \A j \in DOMAIN reqs : /\ reqs'[j].conn = reqs[j].conn /\ reqs'[j].id = reqs[j].id
                             /\ reqs'[j].pc \in {reqs[j].pc, "done"}
                             /\ j \in DOMAIN reqs'
  BY <1>3, <1>5 DEF Follows
<1>7. \A b \in Conn, t \in SubId :
        /\ sub'[b][t] = IF b = c /\ t = s THEN i ELSE sub[b][t]
        /\ wire'[b][t] = IF b = c /\ t = s THEN "asked" ELSE wire[b][t]
  BY <1>1, <1>4
<1> HIDE DEF i
<1>8. Links'
  <2> SUFFICES ASSUME NEW b \in Conn, NEW t \in SubId, sub'[b][t] # 0
               PROVE  /\ sub'[b][t] \in DOMAIN reqs'
                      /\ reqs'[sub'[b][t]].conn = b /\ reqs'[sub'[b][t]].id = t
    BY DEF Links, Requests
  <2>1. CASE b = c /\ t = s
    BY <1>2, <1>5, <1>7, <2>1
  <2>2. CASE ~ (b = c /\ t = s)
    <3>1. sub'[b][t] = sub[b][t]
      BY <1>7, <2>2
    <3>2. sub[b][t] \in DOMAIN reqs /\ reqs[sub[b][t]].conn = b /\ reqs[sub[b][t]].id = t
      BY <1>1, <3>1 DEF Links, Requests
    <3> QED
      BY <1>6, <3>1, <3>2
  <2> QED
    BY <2>1, <2>2
<1>9. NothingStray'
  <2> SUFFICES ASSUME NEW b \in Conn, NEW t \in SubId PROVE wire'[b][t] # "stray"
    BY DEF NothingStray
  <2>1. wire[b][t] # "stray"
    BY <1>1 DEF NothingStray
  <2> QED
    BY <1>7, <2>1
<1>10. Known'
  <2> SUFFICES ASSUME NEW b \in open, NEW t \in SubId, sub'[b][t] # 0
               PROVE  /\ wire'[b][t] \in {"asked", "live"}
                      /\ reqs'[sub'[b][t]].pc = "reading" => wire'[b][t] = "asked"
    BY <1>4 DEF Known
  <2>1. b \in Conn
    BY <1>1
  <2>2. CASE b = c /\ t = s
    BY <1>7, <2>1, <2>2
  <2>3. CASE ~ (b = c /\ t = s)
    <3>1. sub'[b][t] = sub[b][t] /\ wire'[b][t] = wire[b][t]
      BY <1>7, <2>1, <2>3
    <3>2. sub[b][t] \in DOMAIN reqs
      BY <1>1, <2>1, <3>1 DEF Links, Requests
    <3>3. /\ wire[b][t] \in {"asked", "live"}
          /\ reqs[sub[b][t]].pc = "reading" => wire[b][t] = "asked"
      BY <1>1, <3>1 DEF Known
    <3> QED
      BY <1>6, <3>1, <3>2, <3>3
  <2> QED
    BY <2>2, <2>3
<1>11. ready' \in Seq(Places) /\ Fit'
  BY <1>4, NoneFits
<1>12. idle' \in Idles /\ \A b \in Conn : idle[b] # "off" => idle'[b] # "off"
  BY <1>1, <1>4, Touches
<1>13. Shape'
  <2>1. wire' \in [Conn -> [SubId -> Wires]]
    BY <1>1, <1>4 DEF Wires
  <2>2. sub' \in [Conn -> [SubId -> Nat]]
    BY <1>1, <1>4, <1>5
  <2> QED
    BY <1>1, <1>4, <1>5, <1>11, <1>12, <2>1, <2>2 DEF Shape, Idles
<1>14. ASSUME Agreed PROVE Agreed'
  <2>1. Told'
    BY <1>1, <1>4, <1>5, <1>7, <1>14 DEF Told, Agreed
  <2>2. IdleIsTimed'
    <3> SUFFICES ASSUME NEW b \in open, \A t \in SubId : sub'[b][t] = 0
                 PROVE  idle'[b] # "off"
      BY <1>4 DEF IdleIsTimed, NoSubs
    <3>1. b \in Conn /\ b # c
      BY <1>1, <1>5, <1>7
    <3>2. NoSubs(sub, b)
      BY <1>7, <3>1 DEF NoSubs
    <3> QED
      BY <1>12, <1>14, <3>1, <3>2 DEF Agreed, IdleIsTimed
  <2> QED
    BY <2>1, <2>2 DEF Agreed
<1> QED
  BY <1>8, <1>9, <1>10, <1>11, <1>13, <1>14 DEF ServedInv

\* Steps that touch neither requests nor what the clients were told.
LEMMA QuietKeeps ==
  ASSUME ServedInv, UNCHANGED << sub, reqs, wire >>, open' \subseteq open,
         user' \in [Conn -> Pubkey \cup {None}], idle' \in Idles,
         now' \in 0 .. MaxTime, ready' \in Seq(Places), Fit'
  PROVE  ServedInv' /\ (Told => Told')
<1>1. Shape /\ open \subseteq Conn
  BY DEF ServedInv, Shape
<1>2. Follows(reqs, reqs')
  BY <1>1 DEF Shape, Follows
<1>3. Links' /\ NothingStray' /\ Known'
  BY <1>2, Shrinks
<1>4. Shape'
  BY <1>1 DEF Shape, Idles
<1>5. Told => Told'
  BY <1>1 DEF Told
<1> QED
  BY <1>3, <1>4, <1>5 DEF ServedInv

\* A connection keeps the identity it has, if it has one.
KeepsIdentity == \A c \in Conn : user[c] # None => user'[c] \in {None, user[c]}

\* authenticate: what a change of identity drops, no later message is about.
LEMMA AuthenticateKeeps ==
  ASSUME ServedInv, NEW c \in Conn, NEW p \in Pubkey, Authenticate(c, p)
  PROVE  ServedInv' /\ (KeepsIdentity /\ Agreed => Agreed')
<1>1. /\ Shape /\ idle \in Idles /\ ready' = << >>
      /\ sub \in [Conn -> [SubId -> Nat]] /\ reqs \in Seq(Req)
      /\ user \in [Conn -> Pubkey \cup {None}]
  BY DEF ServedInv, Shape, Idles, Authenticate, Idle
<1>2. /\ sub' \in [Conn -> [SubId -> Nat]]
      /\ \A b \in Conn, t \in SubId : sub'[b][t] \in {0, sub[b][t]}
  <2>1. CASE user[c] \notin {None, p}
    <3>1. sub' = [sub EXCEPT ![c] = [s \in SubId |-> 0]]
      BY <2>1 DEF Authenticate
    <3> QED
      BY <1>1, <3>1
  <2>2. CASE user[c] \in {None, p}
    <3>1. sub' = sub
      BY <2>2 DEF Authenticate
    <3> QED
      BY <1>1, <3>1
  <2> QED
    BY <2>1, <2>2
<1>3. Follows(reqs, reqs')
  BY <1>1 DEF Follows, Authenticate
<1>4. Links' /\ NothingStray' /\ Known'
  BY <1>2, <1>3, Shrinks DEF Authenticate
<1>5. ready' \in Seq(Places) /\ Fit'
  BY <1>1, NoneFits
<1>6. idle' \in Idles /\ \A b \in Conn : idle[b] # "off" => idle'[b] # "off"
  BY <1>1, Touches DEF Authenticate
<1>7. Shape'
  BY <1>1, <1>2, <1>5, <1>6 DEF Shape, Idles, Authenticate
<1>8. ASSUME KeepsIdentity, Agreed PROVE Agreed'
  <2>1. user'[c] = p /\ p # None
    BY <1>1, NoneAssumption DEF Authenticate
  <2>2. user[c] \in {None, p}
    BY <1>8, <2>1 DEF KeepsIdentity
  <2>3. sub' = sub
    BY <2>2 DEF Authenticate
  <2> QED
    BY <1>1, <1>6, <1>8, <2>3, Stay DEF Authenticate
<1> QED
  BY <1>4, <1>5, <1>7, <1>8 DEF ServedInv

\* A failed authentication forgets the identity only.
LEMMA AuthenticationFailsKeeps ==
  ASSUME ServedInv, NEW c \in Conn, AuthenticationFails(c)
  PROVE  ServedInv' /\ (Agreed => Agreed')
<1>1. /\ Shape /\ idle \in Idles /\ user \in [Conn -> Pubkey \cup {None}]
      /\ now \in 0 .. MaxTime
  BY DEF ServedInv, Shape, Idles
<1>2. idle' \in Idles /\ \A b \in Conn : idle[b] # "off" => idle'[b] # "off"
  BY <1>1, Touches DEF AuthenticationFails
<1>3. ready' \in Seq(Places) /\ Fit'
  BY NoneFits DEF AuthenticationFails, Idle
<1>4. ServedInv'
  BY <1>1, <1>2, <1>3, QuietKeeps DEF AuthenticationFails
<1>5. Agreed => Agreed'
  BY <1>1, <1>2, Stay DEF AuthenticationFails
<1> QED
  BY <1>4, <1>5

\* The inactivity timeout stops only where there are entries.
LEMMA IdleFiresKeeps ==
  ASSUME ServedInv, NEW c \in Conn, IdleFires(c)
  PROVE  ServedInv' /\ (Agreed => Agreed')
<1>1. /\ Shape /\ idle \in Idles /\ user \in [Conn -> Pubkey \cup {None}]
      /\ now \in 0 .. MaxTime /\ open \subseteq Conn
  BY DEF ServedInv, Shape, Idles
<1>2. idle' \in Idles /\ open' \subseteq open
  BY <1>1 DEF IdleFires, Idles
<1>3. ready' \in Seq(Places) /\ Fit'
  BY NoneFits DEF IdleFires, Idle
<1>4. ServedInv' /\ (Told => Told')
  BY <1>1, <1>2, <1>3, QuietKeeps DEF IdleFires
<1>5. ASSUME IdleIsTimed, NEW b \in open', NoSubs(sub', b) PROVE idle'[b] # "off"
  <2>1. b \in open /\ b \in Conn /\ sub' = sub
    BY <1>1, <1>2 DEF IdleFires
  <2>2. NoSubs(sub, b) /\ idle[b] # "off"
    BY <1>5, <2>1 DEF IdleIsTimed
  <2> QED
    BY <1>1, <2>1, <2>2 DEF IdleFires, Idles
<1> QED
  BY <1>4, <1>5 DEF Agreed, IdleIsTimed

\* A connection that is gone is told nothing.
LEMMA DisconnectKeeps ==
  ASSUME ServedInv, NEW c \in Conn, Disconnect(c)
  PROVE  ServedInv' /\ (Agreed => Agreed')
<1>1. /\ Shape /\ idle \in Idles /\ user \in [Conn -> Pubkey \cup {None}]
      /\ now \in 0 .. MaxTime
  BY DEF ServedInv, Shape, Idles
<1>2. /\ UNCHANGED << user, idle, sub, reqs, now, wire >> /\ open' \subseteq open
      /\ ready' = << >>
  BY DEF Disconnect, Idle
<1>3. ready' \in Seq(Places) /\ Fit'
  BY <1>2, NoneFits
<1> QED
  BY <1>1, <1>2, <1>3, QuietKeeps, Stay

\* Time passes.
LEMMA TickKeeps ==
  ASSUME ServedInv, Tick
  PROVE  ServedInv' /\ (Agreed => Agreed')
<1>1. /\ Shape /\ idle \in Idles /\ user \in [Conn -> Pubkey \cup {None}]
      /\ now \in 0 .. MaxTime /\ ready \in Seq(Places) /\ Fit /\ MaxTime \in Nat
  BY AskAssumption DEF ServedInv, Shape, Idles
<1>2. UNCHANGED << open, user, idle, sub, reqs, ready, wire >> /\ now' \in 0 .. MaxTime
  BY <1>1 DEF Tick
<1>3. Fit'
  BY <1>1, <1>2 DEF Fit, Fits, Requests
<1> QED
  BY <1>1, <1>2, <1>3, QuietKeeps, Stay

\* The deliveries of a chunk start at the first connection.
LEMMA ArriveKeeps ==
  ASSUME ServedInv, NEW chunk \in Chunks, Arrive(chunk)
  PROVE  ServedInv' /\ (Agreed => Agreed')
<1>1. /\ Shape /\ idle \in Idles /\ user \in [Conn -> Pubkey \cup {None}]
      /\ now \in 0 .. MaxTime
  BY DEF ServedInv, Shape, Idles
<1>2. /\ UNCHANGED << open, user, idle, sub, reqs, now, wire >>
      /\ ready' = [j \in DOMAIN chunk |-> Begun(chunk[j])]
  BY DEF Arrive
<1>3. chunk \in Seq(Event)
  BY AskAssumption
<1>4. \A j \in DOMAIN chunk : Begun(chunk[j]) \in Places
  <2>1. NoRest \in [SubId -> Nat]
    BY DEF NoRest
  <2>2. \A j \in DOMAIN chunk : chunk[j] \in Event
    BY <1>3
  <2> QED
    BY <2>1, <2>2 DEF Begun, Places
<1>5. ready' \in Seq(Places)
  <2>1. Len(chunk) \in Nat /\ DOMAIN chunk = 1 .. Len(chunk)
    BY <1>3
  <2>2. ready' \in [1 .. Len(chunk) -> Places]
    BY <1>2, <1>4, <2>1
  <2> QED
    BY <2>1, <2>2, SeqDef
<1>6. Fit'
  BY <1>2 DEF Fit, Fits, Begun
<1> QED
  BY <1>1, <1>2, <1>5, <1>6, QuietKeeps, Stay

-------------------------------------------------------------------------------
(***************************************************************************)
(* The history, and the cleanup timers                                     *)
(***************************************************************************)
LEMMA FollowsTwice ==
  ASSUME NEW R, NEW Q, NEW P, Follows(R, Q), Follows(Q, P)
  PROVE  Follows(R, P)
BY DEF Follows

\* A request is one of a connection and an id.
LEMMA Whose ==
  ASSUME ServedInv, NEW i \in DOMAIN reqs
  PROVE  reqs[i] \in Req /\ reqs[i].conn \in Conn /\ reqs[i].id \in SubId
<1>1. reqs[i] \in Req
  BY DEF ServedInv, Shape
<1> QED
  BY <1>1, Filters DEF RequestType

\* A step that changes requests between chunks, and neither an entry nor what a
\* client knows.
LEMMA EditKeeps ==
  ASSUME ServedInv, Idle, Follows(reqs, reqs'),
         UNCHANGED << open, user, idle, sub, ready, now, wire >>
  PROVE  ServedInv' /\ (Agreed => Agreed')
<1>1. Shape /\ ready' = << >>
  BY DEF ServedInv, Idle
<1>2. ready' \in Seq(Places) /\ Fit'
  BY <1>1, NoneFits
<1>3. \A c \in Conn, s \in SubId : sub'[c][s] \in {0, sub[c][s]}
  OBVIOUS
<1>4. Links' /\ NothingStray' /\ Known'
  BY <1>3, Shrinks
<1>5. Shape'
  BY <1>1, <1>2 DEF Shape, Follows
<1>6. Agreed => Agreed'
  BY <1>1, Stay
<1> QED
  BY <1>2, <1>4, <1>5, <1>6 DEF ServedInv

\* A step that ends an entry between chunks, and says so.
LEMMA EndKeeps ==
  ASSUME ServedInv, Idle, NEW c \in Conn, NEW s \in SubId, Drops(c, s),
         idle' = ArmedIfNone(idle, sub', c), UNCHANGED << user, ready, now >>
  PROVE  ServedInv' /\ (Agreed => Agreed')
<1>1. Shape /\ idle \in Idles /\ ready' = << >>
  BY DEF ServedInv, Shape, Idles, Idle
<1>2. ready' \in Seq(Places) /\ Fit'
  BY <1>1, NoneFits
<1>3. /\ Links' /\ NothingStray' /\ Known'
      /\ wire' \in [Conn -> [SubId -> Wires]] /\ sub' \in [Conn -> [SubId -> Nat]]
      /\ Told => Told'
  BY DropsKeep
<1>4. idle' \in Idles /\ (IdleIsTimed => IdleIsTimed')
  BY <1>1, DropsArm DEF Drops
<1>5. Shape'
  BY <1>1, <1>2, <1>3, <1>4 DEF Shape, Follows, Drops, Idles
<1> QED
  BY <1>2, <1>3, <1>4, <1>5 DEF ServedInv, Agreed

\* An event found is counted.
LEMMA Found ==
  ASSUME NEW r \in Req, NEW e \in Stored \ r.sent
  PROVE  [r EXCEPT !.sent = @ \cup {e}, !.count = @ + 1] \in Req
<1> DEFINE q == [r EXCEPT !.sent = @ \cup {e}, !.count = @ + 1]
<1>1. RequestType(r) /\ r \in Fields /\ r.count = Cardinality(r.sent)
  BY Filters
<1>2. IsFiniteSet(Stored)
  BY EventAssumption, FS_Subset
<1>3. r.sent \cup {e} \in SUBSET Stored
  BY <1>1 DEF RequestType
<1>4. /\ IsFiniteSet(r.sent)
      /\ Cardinality(r.sent \cup {e}) = Cardinality(r.sent) + 1
  <2>1. IsFiniteSet(r.sent)
    BY <1>1, <1>2, FS_Subset DEF RequestType
  <2> QED
    BY <2>1, FS_AddElement
<1>5. /\ Cardinality(r.sent \cup {e}) <= Cardinality(Stored)
      /\ Cardinality(Stored) \in Nat /\ Cardinality(r.sent) \in Nat
  BY <1>2, <1>3, <1>4, FS_Subset, FS_CardinalityType
<1>6. r.count \in Nat /\ r.count + 1 \in 0 .. Cardinality(Stored)
  BY <1>1, <1>4, <1>5
<1>7. /\ q.sent = r.sent \cup {e} /\ q.count = r.count + 1
      /\ q.conn = r.conn /\ q.id = r.id /\ q.ask = r.ask /\ q.left = r.left
      /\ q.live = r.live /\ q.pc = r.pc /\ q.timer = r.timer
  BY <1>1 DEF Fields
<1>8. q \in Fields
  <2>1. ASSUME NEW S \in SUBSET Stored, NEW n \in Nat
        PROVE  [r EXCEPT !.sent = S, !.count = n] \in Fields
    BY <1>1 DEF Fields
  <2>2. q = [r EXCEPT !.sent = r.sent \cup {e}, !.count = r.count + 1]
    BY <1>1 DEF Fields
  <2>3. r.count + 1 \in Nat
    BY <1>6
  <2> HIDE DEF q
  <2> QED
    BY <1>3, <2>1, <2>2, <2>3
<1> HIDE DEF q
<1>9. RequestType(q)
  BY <1>1, <1>3, <1>6, <1>7 DEF RequestType
<1>10. q.count = Cardinality(q.sent)
  BY <1>1, <1>4, <1>7
<1>11. q \in Req
  BY <1>8, <1>9, <1>10 DEF Req
<1> QED
  BY <1>11 DEF q

\* sendFilteredEvents: an event of the history reaches a client that waits for it.
LEMMA YieldKeeps ==
  ASSUME ServedInv, NEW i \in DOMAIN reqs, NEW e \in Event, Yield(i, e)
  PROVE  ServedInv' /\ (Agreed => Agreed')
<1> DEFINE r == reqs[i]
<1>1. /\ reqs \in Seq(Req) /\ r \in Req /\ r.conn \in Conn /\ r.id \in SubId
      /\ open \subseteq Conn /\ wire \in [Conn -> [SubId -> Wires]]
  BY Whose DEF ServedInv, Shape
<1>2. /\ Idle /\ e \in Stored \ r.sent /\ UNCHANGED << open, user, idle, sub, ready, now >>
  BY DEF Yield, Reading
<1>3. CASE Current(i)
  <2> DEFINE q == [r EXCEPT !.sent = @ \cup {e}, !.count = @ + 1]
  <2>1. q \in Req
    BY <1>1, <1>2, Found
  <2>2. q.conn = r.conn /\ q.id = r.id /\ q.ask = r.ask /\ q.pc = r.pc
    BY <1>1 DEF Req, Fields
  <2>3. reqs' = [reqs EXCEPT ![i] = q]
    BY <1>3 DEF Yield
  <2> HIDE DEF q
  <2>4. Follows(reqs, reqs')
    BY <1>1, <2>1, <2>2, <2>3, Edited
  <2>5. wire' = wire
    <3>1. wire' = Sent(wire, r.conn, r.id, "EVENT")
      BY <1>3 DEF Yield
    <3>2. CASE r.conn \in open
      <4>1. sub[r.conn][r.id] # 0
        BY <1>1, <1>3 DEF Current
      <4>2. wire[r.conn][r.id] \in {"asked", "live"}
        BY <1>1, <3>2, <4>1 DEF ServedInv, Known
      <4>3. After(wire[r.conn][r.id], "EVENT") = wire[r.conn][r.id]
        BY <4>2 DEF After
      <4> QED
        BY <1>1, <3>1, <3>2, <4>3, Sends
    <3>3. CASE r.conn \notin open
      BY <1>1, <3>1, <3>3, Sends
    <3> QED
      BY <3>2, <3>3
  <2> QED
    BY <1>2, <2>4, <2>5, EditKeeps
<1>4. CASE ~Current(i)
  <2>1. reqs' = [reqs EXCEPT ![i] = [r EXCEPT !.pc = "done"]] /\ wire' = wire
    BY <1>4 DEF Yield
  <2>2. [r EXCEPT !.pc = "done"] \in Req
    BY <1>1, Changed
  <2>3. Follows(reqs, reqs')
    BY <1>1, <2>1, <2>2, Edited DEF Req, Fields
  <2> QED
    BY <1>2, <2>1, <2>3, EditKeeps
<1> QED
  BY <1>3, <1>4

\* CLOSED, where the client is still there, ends what it knows of an entry.
LEMMA ClosedTells ==
  ASSUME ServedInv, NEW c \in Conn, NEW s \in SubId, sub[c][s] # 0
  PROVE  /\ c \in open => Sent(wire, c, s, "CLOSED") = [wire EXCEPT ![c][s] = "over"]
         /\ c \notin open => Sent(wire, c, s, "CLOSED") = wire
<1>1. wire \in [Conn -> [SubId -> Wires]]
  BY DEF ServedInv, Shape
<1>2. ASSUME c \in open PROVE After(wire[c][s], "CLOSED") = "over"
  <2>1. wire[c][s] \in {"asked", "live"}
    BY <1>2 DEF ServedInv, Known
  <2> QED
    BY <2>1 DEF After
<1> QED
  BY <1>1, <1>2, Sends

\* A read that fails ends its request, if it is still the one.
LEMMA ReadFailsKeeps ==
  ASSUME ServedInv, NEW i \in DOMAIN reqs, ReadFails(i)
  PROVE  ServedInv' /\ (Agreed => Agreed')
<1> DEFINE r == reqs[i]
           q == [r EXCEPT !.pc = "done", !.timer = IF Current(i) THEN 0 ELSE @]
<1>1. /\ reqs \in Seq(Req) /\ r \in Req /\ r.conn \in Conn /\ r.id \in SubId
      /\ r.timer \in 0 .. MaxTime /\ MaxTime \in Nat
  BY Whose, Filters, AskAssumption DEF ServedInv, Shape, RequestType
<1>2. Idle /\ UNCHANGED << open, user, ready, now >>
  BY DEF ReadFails, Reading
<1>3. reqs' = [reqs EXCEPT ![i] = q]
  BY <1>1 DEF ReadFails
<1>4. q \in Req
  <2> DEFINE t == IF Current(i) THEN 0 ELSE r.timer
             p == [r EXCEPT !.pc = "done"]
  <2>1. t \in 0 .. MaxTime
    BY <1>1
  <2>2. p \in Req
    BY <1>1, Changed
  <2>3. q = [p EXCEPT !.timer = t]
    BY <1>1 DEF Req, Fields
  <2> HIDE DEF t, p, q
  <2> QED
    BY <2>1, <2>2, <2>3, Changed
<1>5. q.conn = r.conn /\ q.id = r.id /\ q.ask = r.ask /\ q.pc = "done"
  BY <1>1 DEF Req, Fields
<1> HIDE DEF q
<1>6. Follows(reqs, reqs')
  BY <1>1, <1>3, <1>4, <1>5, Edited
<1>7. CASE Current(i)
  <2>1. /\ sub' = [sub EXCEPT ![r.conn][r.id] = 0]
        /\ idle' = ArmedIfNone(idle, sub', r.conn)
        /\ wire' = Sent(wire, r.conn, r.id, "CLOSED")
    BY <1>7 DEF ReadFails
  <2>2. sub[r.conn][r.id] # 0
    BY <1>1, <1>7 DEF Current
  <2>3. Drops(r.conn, r.id)
    BY <1>1, <1>2, <1>6, <2>1, <2>2, ClosedTells DEF Drops
  <2> HIDE DEF r
  <2> QED
    BY <1>1, <1>2, <2>1, <2>3, EndKeeps
<1>8. CASE ~Current(i)
  BY <1>2, <1>6, <1>8, EditKeeps DEF ReadFails
<1> QED
  BY <1>7, <1>8

\* EOSE is for a client that waits for it.
LEMMA CaughtUp ==
  ASSUME ServedInv, Idle, NEW i \in DOMAIN reqs, reqs[i].pc = "reading", Current(i),
         NEW q \in Req, q.conn = reqs[i].conn, q.id = reqs[i].id, q.ask = reqs[i].ask,
         q.pc = "done", reqs' = [reqs EXCEPT ![i] = q],
         wire' = Sent(wire, reqs[i].conn, reqs[i].id, "EOSE"),
         UNCHANGED << open, user, idle, sub, ready, now >>
  PROVE  ServedInv' /\ (Agreed => Agreed')
<1> DEFINE c == reqs[i].conn
           s == reqs[i].id
<1>1. /\ Shape /\ Links /\ NothingStray /\ Known
      /\ reqs \in Seq(Req) /\ c \in Conn /\ s \in SubId /\ open \subseteq Conn
      /\ wire \in [Conn -> [SubId -> Wires]] /\ ready' = << >>
  BY Whose DEF ServedInv, Shape, Idle
<1>2. Follows(reqs, reqs') /\ reqs'[i] = q
  BY <1>1, Edited
<1>3. sub[c][s] = i /\ i # 0 /\ wire' = Sent(wire, c, s, "EOSE")
  BY <1>1 DEF Current
<1> HIDE DEF c, s
<1>4. /\ c \in open => wire' = [wire EXCEPT ![c][s] = "live"]
      /\ c \notin open => wire' = wire
  <2>1. ASSUME c \in open PROVE After(wire[c][s], "EOSE") = "live"
    <3>1. wire[c][s] = "asked"
      BY <1>1, <1>3, <2>1 DEF Known
    <3> QED
      BY <3>1 DEF After
  <2>2. /\ c \notin open => Sent(wire, c, s, "EOSE") = wire
        /\ c \in open =>
             Sent(wire, c, s, "EOSE") = [wire EXCEPT ![c][s] = After(wire[c][s], "EOSE")]
    BY <1>1, Sends
  <2> QED
    BY <1>3, <2>1, <2>2
<1>5. \A b \in open, t \in SubId :
        wire'[b][t] = IF b = c /\ t = s THEN "live" ELSE wire[b][t]
  <2>1. CASE c \in open
    <3>1. wire' = [wire EXCEPT ![c][s] = "live"]
      BY <1>4, <2>1
    <3> QED
      BY <1>1, <3>1
  <2>2. CASE c \notin open
    BY <1>4, <2>2
  <2> QED
    BY <2>1, <2>2
<1>6. wire' \in [Conn -> [SubId -> Wires]]
  <2>1. [wire[c] EXCEPT ![s] = "live"] \in [SubId -> Wires]
    BY <1>1 DEF Wires
  <2> QED
    BY <1>1, <1>4, <2>1
<1>7. Links'
  BY <1>1, <1>2 DEF Links, Follows, Requests
<1>8. NothingStray'
  <2> SUFFICES ASSUME NEW b \in Conn, NEW t \in SubId PROVE wire'[b][t] # "stray"
    BY DEF NothingStray
  <2>1. wire[b][t] # "stray"
    BY <1>1 DEF NothingStray
  <2>2. CASE c \in open
    <3>1. wire' = [wire EXCEPT ![c][s] = "live"]
      BY <1>4, <2>2
    <3> QED
      BY <1>1, <2>1, <3>1
  <2>3. CASE c \notin open
    BY <1>4, <2>1, <2>3
  <2> QED
    BY <2>2, <2>3
<1>9. Known'
  <2> SUFFICES ASSUME NEW b \in open, NEW t \in SubId, sub[b][t] # 0
               PROVE  /\ wire'[b][t] \in {"asked", "live"}
                      /\ reqs'[sub[b][t]].pc = "reading" => wire'[b][t] = "asked"
    BY DEF Known
  <2>1. CASE b = c /\ t = s
    BY <1>2, <1>3, <1>5, <2>1
  <2>2. CASE ~ (b = c /\ t = s)
    <3>1. wire'[b][t] = wire[b][t]
      BY <1>5, <2>2
    <3>2. /\ wire[b][t] \in {"asked", "live"}
          /\ reqs[sub[b][t]].pc = "reading" => wire[b][t] = "asked"
      BY <1>1 DEF Known
    <3>3. sub[b][t] \in DOMAIN reqs
      BY <1>1 DEF Links, Requests
    <3>4. reqs'[sub[b][t]].pc = "reading" => reqs[sub[b][t]].pc = "reading"
      BY <1>2, <3>3 DEF Follows
    <3> QED
      BY <3>1, <3>2, <3>4
  <2> QED
    BY <2>1, <2>2
<1>10. ready' \in Seq(Places) /\ Fit'
  BY <1>1, NoneFits
<1>11. Shape'
  BY <1>1, <1>2, <1>6, <1>10 DEF Shape, Follows
<1>12. ASSUME Told PROVE Told'
  <2> SUFFICES ASSUME NEW b \in open, NEW t \in SubId, wire'[b][t] \in {"asked", "live"}
               PROVE  sub[b][t] # 0
    BY DEF Told
  <2>1. CASE b = c /\ t = s
    BY <1>3, <2>1
  <2>2. CASE ~ (b = c /\ t = s)
    BY <1>5, <1>12, <2>2 DEF Told
  <2> QED
    BY <2>1, <2>2
<1>13. IdleIsTimed => IdleIsTimed'
  BY DEF IdleIsTimed, NoSubs
<1> QED
  BY <1>7, <1>8, <1>9, <1>10, <1>11, <1>12, <1>13 DEF ServedInv, Agreed

\* EOSE and CLOSED, on an entry that waits for its EOSE.
LEMMA CaughtUpAndClosed ==
  ASSUME ServedInv, NEW c \in Conn, NEW s \in SubId, sub[c][s] # 0,
         reqs[sub[c][s]].pc = "reading"
  PROVE  LET W == Sent(Sent(wire, c, s, "EOSE"), c, s, "CLOSED")
         IN  /\ c \in open => W = [wire EXCEPT ![c][s] = "over"]
             /\ c \notin open => W = wire
<1> DEFINE V == Sent(wire, c, s, "EOSE")
<1>1. wire \in [Conn -> [SubId -> Wires]]
  BY DEF ServedInv, Shape
<1>2. CASE c \in open
  <2>1. After(wire[c][s], "EOSE") = "live"
    <3>1. wire[c][s] = "asked"
      BY <1>2 DEF ServedInv, Known
    <3> QED
      BY <3>1 DEF After
  <2>2. V = [wire EXCEPT ![c][s] = "live"]
    BY <1>1, <1>2, <2>1, Sends
  <2>3. V \in [Conn -> [SubId -> Wires]]
    <3>1. [wire[c] EXCEPT ![s] = "live"] \in [SubId -> Wires]
      BY <1>1 DEF Wires
    <3> QED
      BY <1>1, <2>2, <3>1
  <2>4. V[c][s] = "live" /\ [V EXCEPT ![c][s] = "over"] = [wire EXCEPT ![c][s] = "over"]
    BY <1>1, <2>2
  <2>5. After("live", "CLOSED") = "over"
    BY DEF After
  <2> HIDE DEF V
  <2>6. Sent(V, c, s, "CLOSED") = [V EXCEPT ![c][s] = After(V[c][s], "CLOSED")]
    BY <1>2, <2>3, Sends
  <2> QED
    BY <1>2, <2>4, <2>5, <2>6 DEF V
<1>3. CASE c \notin open
  BY <1>1, <1>3, Sends
<1> QED
  BY <1>2, <1>3

\* The end of a history read.
LEMMA FinishKeeps ==
  ASSUME ServedInv, NEW i \in DOMAIN reqs, Finish(i)
  PROVE  ServedInv' /\ (Agreed => Agreed')
<1> DEFINE r == reqs[i]
           K == Unlapsed(r, DOMAIN r.ask)
<1>1. /\ reqs \in Seq(Req) /\ r \in Req /\ r.conn \in Conn /\ r.id \in SubId
      /\ now \in 0 .. MaxTime
  BY Whose DEF ServedInv, Shape
<1>2. Idle /\ r.pc = "reading" /\ UNCHANGED << open, user, ready, now >>
  BY DEF Finish, Reading
<1>3. CASE ~Current(i)
  <2>1. reqs' = [reqs EXCEPT ![i] = [r EXCEPT !.pc = "done"]]
        /\ UNCHANGED << idle, sub, wire >>
    BY <1>3 DEF Finish
  <2>2. [r EXCEPT !.pc = "done"] \in Req
    BY <1>1, Changed
  <2>3. Follows(reqs, reqs')
    BY <1>1, <2>1, <2>2, Edited DEF Req, Fields
  <2> QED
    BY <1>2, <2>1, <2>3, EditKeeps
<1>4. CASE Current(i) /\ (K = {} \/ AllFound(r))
  <2> DEFINE C == Cleared(reqs, i)
             q == [C[i] EXCEPT !.pc = "done"]
  <2>1. /\ sub' = [sub EXCEPT ![r.conn][r.id] = 0]
        /\ reqs' = [C EXCEPT ![i] = q]
        /\ idle' = ArmedIfNone(idle, sub', r.conn)
        /\ wire' = Sent(Sent(wire, r.conn, r.id, "EOSE"), r.conn, r.id, "CLOSED")
    BY <1>4 DEF Finish
  <2>2. Follows(reqs, C)
    BY <1>1, ClearedFollows
  <2> HIDE DEF C
  <2>3. C \in Seq(Req) /\ i \in DOMAIN C /\ C[i] \in Req
    BY <2>2 DEF Follows
  <2>4. q \in Req /\ q.conn = C[i].conn /\ q.id = C[i].id /\ q.ask = C[i].ask
        /\ q.pc = "done"
    BY <2>3, Changed DEF Req, Fields
  <2> HIDE DEF q
  <2>5. Follows(C, reqs')
    BY <2>1, <2>3, <2>4, Edited
  <2>6. Follows(reqs, reqs')
    BY <2>2, <2>5, FollowsTwice
  <2>7. sub[r.conn][r.id] = i /\ i # 0
    BY <1>1, <1>4 DEF Current
  <2>8. Drops(r.conn, r.id)
    BY <1>1, <1>2, <2>1, <2>6, <2>7, CaughtUpAndClosed DEF Drops
  <2> HIDE DEF r
  <2> QED
    BY <1>1, <1>2, <2>1, <2>8, EndKeeps
<1>5. CASE Current(i) /\ ~ (K = {} \/ AllFound(r))
  <2> DEFINE t == NextExpiration(r, K)
             q == [[[r EXCEPT !.pc = "done"] EXCEPT !.live = K] EXCEPT !.timer = t]
  <2>1. /\ reqs' = [reqs EXCEPT ![i].pc = "done", ![i].live = K, ![i].timer = t]
        /\ wire' = Sent(wire, r.conn, r.id, "EOSE")
        /\ UNCHANGED << idle, sub >>
    BY <1>5 DEF Finish
  <2>2. K \in SUBSET DOMAIN r.ask
    BY DEF Unlapsed
  <2>3. t \in 0 .. MaxTime
    BY <1>1, <2>2, TimerType
  <2> HIDE DEF K, t
  <2>4. reqs' = [reqs EXCEPT ![i] = q]
    BY <1>1, <2>1
  <2>5. q \in Req /\ q.conn = r.conn /\ q.id = r.id /\ q.ask = r.ask /\ q.pc = "done"
    <3> DEFINE p == [r EXCEPT !.pc = "done"]
               o == [p EXCEPT !.live = K]
    <3>1. p \in Req /\ p.conn = r.conn /\ p.id = r.id /\ p.ask = r.ask /\ p.pc = "done"
      BY <1>1, Changed DEF Req, Fields
    <3> HIDE DEF p
    <3>2. o \in Req /\ o.conn = r.conn /\ o.id = r.id /\ o.ask = r.ask /\ o.pc = "done"
      BY <2>2, <3>1, Changed DEF Req, Fields
    <3> HIDE DEF o
    <3>3. [o EXCEPT !.timer = t] \in Req
      BY <2>3, <3>2, Changed
    <3>4. q = [o EXCEPT !.timer = t]
      BY DEF o, p
    <3> HIDE DEF q
    <3> QED
      BY <3>2, <3>3, <3>4 DEF Req, Fields
  <2> HIDE DEF q
  <2> QED
    BY <1>2, <1>5, <2>1, <2>4, <2>5, CaughtUp
<1> QED
  BY <1>3, <1>4, <1>5

\* cleanupSubscription: whichever entry its id stands for now loses the filters
\* that have lapsed, and the client is told when none is left.
LEMMA ExpireKeeps ==
  ASSUME ServedInv, NEW i \in DOMAIN reqs, Expire(i)
  PROVE  ServedInv' /\ (Agreed => Agreed')
<1> DEFINE c == reqs[i].conn
           s == reqs[i].id
           j == sub[c][s]
           K == Unlapsed(reqs[j], reqs[j].live)
           q == [reqs[i] EXCEPT !.timer = 0]
           F == [reqs EXCEPT ![i] = q]
<1>1. /\ reqs \in Seq(Req) /\ reqs[i] \in Req /\ c \in Conn /\ s \in SubId
      /\ now \in 0 .. MaxTime /\ 0 \in 0 .. MaxTime
  BY Whose, AskAssumption DEF ServedInv, Shape
<1>2. Idle /\ UNCHANGED << open, user, ready, now >>
  BY DEF Expire
<1>3. Follows(reqs, F) /\ \A k \in DOMAIN reqs : F[k].live = reqs[k].live
  <2>1. q \in Req /\ q.conn = c /\ q.id = s /\ q.ask = reqs[i].ask /\ q.pc = reqs[i].pc
        /\ q.live = reqs[i].live
    BY <1>1, Changed DEF Req, Fields
  <2> HIDE DEF q
  <2>2. Follows(reqs, F)
    BY <1>1, <2>1, Edited
  <2>3. \A k \in DOMAIN reqs : F[k] = IF k = i THEN q ELSE reqs[k]
    BY <1>1
  <2> QED
    BY <2>1, <2>2, <2>3
<1>4. F = [reqs EXCEPT ![i].timer = 0]
  OBVIOUS
<1>5. j \in {0} \cup DOMAIN reqs
  BY <1>1, Entry
<1>6. CASE j = 0 \/ c \notin open
  <2>1. reqs' = F /\ UNCHANGED << idle, sub, wire >>
    BY <1>4, <1>6 DEF Expire
  <2> QED
    BY <1>2, <1>3, <2>1, EditKeeps
<1>7. CASE j # 0 /\ c \in open /\ K = {}
  <2>1. /\ reqs' = Cleared(F, j) /\ sub' = [sub EXCEPT ![c][s] = 0]
        /\ idle' = ArmedIfNone(idle, sub', c) /\ wire' = Sent(wire, c, s, "CLOSED")
    BY <1>4, <1>7 DEF Expire
  <2>2. Follows(reqs, reqs')
    <3> HIDE DEF F
    <3>1. F \in Seq(Req) /\ j \in DOMAIN F
      BY <1>3, <1>5, <1>7 DEF Follows
    <3>2. Follows(F, reqs')
      BY <2>1, <3>1, ClearedFollows
    <3> QED
      BY <1>3, <3>2, FollowsTwice
  <2>3. Drops(c, s)
    BY <1>1, <1>2, <1>7, <2>1, <2>2, ClosedTells DEF Drops
  <2> HIDE DEF c, s
  <2> QED
    BY <1>1, <1>2, <2>1, <2>3, EndKeeps
<1>8. CASE j # 0 /\ c \in open /\ K # {}
  <2> DEFINE t == NextExpiration(reqs[j], K)
             o == [[F[j] EXCEPT !.live = K] EXCEPT !.timer = t]
  <2>1. /\ reqs' = [F EXCEPT ![j].live = K, ![j].timer = t]
        /\ UNCHANGED << idle, sub, wire >>
    BY <1>4, <1>8 DEF Expire
  <2>2. j \in DOMAIN reqs /\ reqs[j] \in Req
    BY <1>1, <1>5, <1>8
  <2>3. K \in SUBSET DOMAIN reqs[j].ask
    <3>1. reqs[j].live \subseteq DOMAIN reqs[j].ask
      BY <2>2, Filters DEF RequestType
    <3> QED
      BY <3>1 DEF Unlapsed
  <2>4. t \in 0 .. MaxTime
    BY <1>1, <2>2, <2>3, TimerType
  <2> HIDE DEF F, K, t, j
  <2>5. F \in Seq(Req) /\ j \in DOMAIN F /\ F[j] \in Req /\ F[j].ask = reqs[j].ask
    BY <1>3, <2>2 DEF Follows
  <2>6. reqs' = [F EXCEPT ![j] = o]
    BY <2>1, <2>5
  <2>7. o \in Req /\ o.conn = F[j].conn /\ o.id = F[j].id /\ o.ask = F[j].ask
        /\ o.pc = F[j].pc
    <3> DEFINE p == [F[j] EXCEPT !.live = K]
    <3>1. p \in Req /\ p.conn = F[j].conn /\ p.id = F[j].id /\ p.ask = F[j].ask
          /\ p.pc = F[j].pc
      BY <2>3, <2>5, Changed DEF Req, Fields
    <3>2. o = [p EXCEPT !.timer = t]
      OBVIOUS
    <3> HIDE DEF p, o
    <3>3. [p EXCEPT !.timer = t] \in Req
      BY <2>4, <3>1, Changed
    <3> QED
      BY <3>1, <3>2, <3>3 DEF Req, Fields
  <2> HIDE DEF o
  <2>8. Follows(F, reqs')
    BY <2>5, <2>6, <2>7, Edited
  <2>9. Follows(reqs, reqs')
    BY <1>3, <2>8, FollowsTwice
  <2> QED
    BY <1>2, <2>1, <2>9, EditKeeps
<1> QED
  BY <1>6, <1>7, <1>8

-------------------------------------------------------------------------------
(***************************************************************************)
(* Live events                                                             *)
(***************************************************************************)
\* R and S may stand for the requests and the entries.
Linked(R, S) ==
  \A c \in Conn, s \in SubId :
    S[c][s] # 0 => S[c][s] \in DOMAIN R /\ R[S[c][s]].conn = c /\ R[S[c][s]].id = s

\* Nothing is sent but about an entry of a connection that is open, with filters.
LEMMA HitsAreEntries ==
  ASSUME NEW d \in Places, NEW R \in Seq(Req), NEW S \in [Conn -> [SubId -> Nat]],
         open \subseteq Conn, Linked(R, S), Fits(d, R, S), NEW p \in Hits(d, R, S)
  PROVE  /\ p \in Nat \X Nat \X Nat
         /\ p[1] \in open /\ p[2] \in SubId /\ p[3] \in DOMAIN R
         /\ S[p[1]][p[2]] = p[3]
<1>1. p \in Ahead(d, S) /\ p[3] # 0 /\ R[p[3]].live # {}
  BY DEF Hits
<1>2. Conn \subseteq Nat \ {0} /\ SubId \subseteq Nat
  BY ConnAssumption
<1>3. CASE \E s \in SubId : p = << d.conn, s, d.rest[s] >>
  <2>1. PICK s \in SubId : p = << d.conn, s, d.rest[s] >>
    BY <1>3
  <2>2. d.rest[s] # 0
    BY <1>1, <2>1
  <2>3. d.conn # 0
    BY <2>2 DEF Fits, NoRest
  <2>4. d.conn \in open /\ d.rest[s] \in DOMAIN R
        /\ (S[d.conn][s] = d.rest[s] \/ R[d.rest[s]].live = {})
    BY <2>2, <2>3 DEF Fits
  <2>5. d.rest[s] \in Nat
    BY DEF Places
  <2> QED
    BY <1>1, <1>2, <2>1, <2>4, <2>5
<1>4. CASE \E c \in open, s \in SubId : p = << c, s, S[c][s] >>
  <2>1. PICK c \in open, s \in SubId : p = << c, s, S[c][s] >>
    BY <1>4
  <2>2. c \in Conn /\ S[c][s] \in Nat /\ S[c][s] # 0
    BY <1>1, <2>1
  <2>3. S[c][s] \in DOMAIN R
    BY <2>2 DEF Linked
  <2> QED
    BY <1>2, <2>1, <2>2, <2>3
<1> QED
  BY <1>1, <1>3, <1>4 DEF Ahead

\* A send changes nothing that a client knows, and the delivery stands where it
\* sent.
LEMMA Advances ==
  ASSUME NEW d \in Places, NEW R \in Seq(Req), NEW S \in [Conn -> [SubId -> Nat]],
         NEW W \in [Conn -> [SubId -> Wires]],
         open \subseteq Conn, Linked(R, S), Fits(d, R, S),
         \A c \in open, s \in SubId : S[c][s] # 0 => W[c][s] \in {"asked", "live"},
         Advance(d, R, S, W)
  PROVE  /\ wire' = W
         /\ \/ ready' = Tail(ready)
            \/ \E n \in Places : Fits(n, R, S) /\ ready' = Append(Tail(ready), n)
<1> DEFINE H == Hits(d, R, S)
           p == First(H)
           n == [ event |-> d.event, conn |-> p[1], id |-> p[2],
                  filters |-> R[p[3]].live,
                  rest |-> IF p[1] = d.conn THEN d.rest ELSE S[p[1]] ]
<1>1. CASE H = {}
  BY <1>1 DEF Advance
<1>2. CASE H # {}
  <2>1. H \subseteq Nat \X Nat \X Nat
    BY HitsAreEntries
  <2>2. p \in H
    <3> HIDE DEF H
    <3> QED BY <1>2, <2>1, FirstIn
  <2>3. ready' = Append(Tail(ready), n) /\ wire' = Sent(W, p[1], p[2], "EVENT")
    BY <1>2 DEF Advance
  <2> HIDE DEF p
  <2>4. /\ p[1] \in open /\ p[1] \in Conn /\ p[2] \in SubId /\ p[3] \in DOMAIN R
        /\ S[p[1]][p[2]] = p[3]
    BY <2>2, HitsAreEntries
  <2>5. p[1] # 0 /\ p[3] # 0 /\ R[p[3]] \in Req
    BY <2>4, ConnAssumption
  <2>6. wire' = W
    <3>1. W[p[1]][p[2]] \in {"asked", "live"}
      BY <2>4, <2>5
    <3>2. After(W[p[1]][p[2]], "EVENT") = W[p[1]][p[2]]
      BY <3>1 DEF After
    <3>3. Sent(W, p[1], p[2], "EVENT")
            = [W EXCEPT ![p[1]][p[2]] = After(W[p[1]][p[2]], "EVENT")]
      <4>1. \A c \in Conn, s \in SubId :
              c \in open => Sent(W, c, s, "EVENT")
                             = [W EXCEPT ![c][s] = After(W[c][s], "EVENT")]
        BY DEF Sent
      <4> QED
        BY <2>4, <4>1
    <3>4. W[p[1]] \in [SubId -> Wires]
      BY <2>4
    <3>5. [W[p[1]] EXCEPT ![p[2]] = W[p[1]][p[2]]] = W[p[1]]
      BY <2>4, <3>4
    <3>6. [W EXCEPT ![p[1]][p[2]] = W[p[1]][p[2]]] = W
      BY <2>4, <3>5
    <3> QED
      BY <2>3, <3>2, <3>3, <3>6
  <2>7. R[p[3]].live \subseteq DOMAIN R[p[3]].ask /\ DOMAIN R[p[3]].ask \subseteq Nat
    BY <2>5, Filters DEF RequestType
  <2>8. n \in Places
    BY <2>4, <2>7 DEF Places
  <2>9. Fits(n, R, S)
    <3>1. n.conn = p[1] /\ n.id = p[2] /\ n.filters = R[p[3]].live
      OBVIOUS
    <3>2. CASE p[1] = d.conn
      <4>1. n.rest = d.rest
        BY <3>2
      <4> HIDE DEF n
      <4> QED
        BY <2>4, <2>5, <2>7, <3>1, <3>2, <4>1 DEF Fits
    <3>3. CASE p[1] # d.conn
      <4>1. n.rest = S[p[1]]
        BY <3>3
      <4> HIDE DEF n
      <4> QED
        BY <2>4, <2>5, <2>7, <3>1, <4>1 DEF Fits, Linked
    <3> QED
      BY <3>2, <3>3
  <2> HIDE DEF n
  <2> QED
    BY <2>3, <2>6, <2>8, <2>9
<1> QED
  BY <1>1, <1>2

\* The queue after a step of its first.
LEMMA QueueKeeps ==
  ASSUME ready \in Seq(Places), ready # << >>, open' = open,
         \A j \in DOMAIN ready : Fits(ready[j], reqs', sub'),
         \/ ready' = Tail(ready)
         \/ \E n \in Places : Fits(n, reqs', sub') /\ ready' = Append(Tail(ready), n)
  PROVE  ready' \in Seq(Places) /\ Fit'
<1> DEFINE T == Tail(ready)
<1>1. /\ T \in Seq(Places) /\ Len(ready) \in Nat \ {0} /\ Len(T) = Len(ready) - 1
      /\ \A i \in 1 .. Len(T) : T[i] = ready[i + 1]
  BY HeadTailProperties
<1>2. \A i \in 1 .. Len(T) : Fits(T[i], reqs', sub')
  <2> SUFFICES ASSUME NEW i \in 1 .. Len(T) PROVE Fits(T[i], reqs', sub')
    OBVIOUS
  <2>1. i + 1 \in DOMAIN ready
    BY <1>1
  <2> QED
    BY <1>1, <2>1
<1> HIDE DEF T
<1>3. \A x : Fits(x, reqs', sub') =>
        (/\ x.conn = 0 => x.rest = NoRest
         /\ x.conn # 0 =>
              /\ x.conn \in open' /\ x.id \in SubId
              /\ sub'[x.conn][x.id] # 0 =>
                   x.filters \subseteq DOMAIN reqs'[sub'[x.conn][x.id]].ask
              /\ \A s \in SubId :
                   x.rest[s] # 0 =>
                     /\ x.rest[s] \in DOMAIN reqs'
                     /\ reqs'[x.rest[s]].conn = x.conn /\ reqs'[x.rest[s]].id = s
                     /\ sub'[x.conn][s] = x.rest[s] \/ reqs'[x.rest[s]].live = {})
  BY DEF Fits
<1>4. CASE ready' = Tail(ready)
  <2>1. ready' = T /\ DOMAIN ready' = 1 .. Len(T)
    BY <1>1, <1>4 DEF T
  <2>2. \A i \in DOMAIN ready' : Fits(ready'[i], reqs', sub')
    BY <1>2, <2>1
  <2> QED
    BY <1>1, <1>3, <2>1, <2>2 DEF Fit, Fits
<1>5. CASE \E n \in Places : Fits(n, reqs', sub') /\ ready' = Append(Tail(ready), n)
  <2>1. PICK n \in Places : Fits(n, reqs', sub') /\ ready' = Append(T, n)
    BY <1>5 DEF T
  <2>2. /\ ready' \in Seq(Places) /\ Len(ready') = Len(T) + 1
        /\ \A i \in 1 .. Len(T) : ready'[i] = T[i]
        /\ ready'[Len(T) + 1] = n
    BY <1>1, <2>1, AppendProperties
  <2>3. DOMAIN ready' = 1 .. Len(T) + 1 /\ Len(T) \in Nat
    BY <1>1, <2>2
  <2>4. \A i \in DOMAIN ready' : Fits(ready'[i], reqs', sub')
    <3> SUFFICES ASSUME NEW i \in DOMAIN ready' PROVE Fits(ready'[i], reqs', sub')
      OBVIOUS
    <3>1. i \in 1 .. Len(T) \/ i = Len(T) + 1
      BY <2>3
    <3> QED
      BY <1>2, <2>1, <2>2, <3>1
  <2> QED
    BY <1>3, <2>2, <2>4 DEF Fit, Fits
<1> QED
  BY <1>4, <1>5

\* The first pass over the clients.
LEMMA StartKeeps ==
  ASSUME ServedInv, Start
  PROVE  ServedInv' /\ (Agreed => Agreed')
<1> DEFINE d == Head(ready)
<1>1. /\ ready \in Seq(Places) /\ ready # << >> /\ reqs \in Seq(Req)
      /\ sub \in [Conn -> [SubId -> Nat]] /\ wire \in [Conn -> [SubId -> Wires]]
      /\ open \subseteq Conn /\ Linked(reqs, sub) /\ Fit
  BY DEF ServedInv, Shape, Start, Links, Linked, Requests
<1>2. UNCHANGED << open, user, idle, sub, reqs, now >> /\ Advance(d, reqs, sub, wire)
  BY DEF Start
<1>3. d \in Places /\ Fits(d, reqs, sub)
  <2>1. d \in Places /\ d = ready[1] /\ 1 \in DOMAIN ready
    BY <1>1, HeadTailProperties
  <2> QED
    BY <1>1, <2>1 DEF Fit
<1>4. \A c \in open, s \in SubId : sub[c][s] # 0 => wire[c][s] \in {"asked", "live"}
  BY DEF ServedInv, Known
<1> HIDE DEF d
<1>5. /\ wire' = wire
      /\ \/ ready' = Tail(ready)
         \/ \E n \in Places : Fits(n, reqs, sub) /\ ready' = Append(Tail(ready), n)
  BY <1>1, <1>2, <1>3, <1>4, Advances
<1>6. ready' \in Seq(Places) /\ Fit'
  BY <1>1, <1>2, <1>5, QueueKeeps DEF Fit
<1>7. ServedInv' /\ (Told => Told')
  BY <1>2, <1>5, <1>6, QuietKeeps DEF ServedInv, Shape, Idles
<1>8. IdleIsTimed => IdleIsTimed'
  BY <1>2 DEF IdleIsTimed, NoSubs
<1> QED
  BY <1>7, <1>8 DEF Agreed

\* A delivery that throws ends, and leaves what it has not visited.
LEMMA ThrowKeeps ==
  ASSUME ServedInv, Throw
  PROVE  ServedInv' /\ (Agreed => Agreed')
<1>1. ready \in Seq(Places) /\ ready # << >> /\ Fit
  BY DEF ServedInv, Shape, Throw
<1>2. /\ UNCHANGED << open, user, idle, sub, reqs, now, wire >>
      /\ ready' = Tail(ready)
  BY DEF Throw
<1>3. ready' \in Seq(Places) /\ Fit'
  BY <1>1, <1>2, QueueKeeps DEF Fit
<1>4. ServedInv' /\ (Told => Told')
  BY <1>2, <1>3, QuietKeeps DEF ServedInv, Shape, Idles
<1>5. IdleIsTimed => IdleIsTimed'
  BY <1>2 DEF IdleIsTimed, NoSubs
<1> QED
  BY <1>4, <1>5 DEF Agreed

\* Taking an event out of the filters of a request leaves it one.
LEMMA Shortened ==
  ASSUME NEW r \in Req, NEW F, NEW e, NEW K \in SUBSET DOMAIN r.ask
  PROVE  [r EXCEPT !.live = K, !.left = Without(r, F, e)] \in Req
<1> DEFINE L == Without(r, F, e)
           p == [r EXCEPT !.live = K]
           q == [p EXCEPT !.left = L]
<1>1. p \in Req /\ p.ask = r.ask /\ RequestType(r) /\ p.left = r.left
  BY Changed, Filters DEF Req, Fields
<1>2. /\ L \in [DOMAIN r.ask -> SUBSET Event]
      /\ \A k \in DOMAIN r.ask : L[k] \subseteq r.ask[k].ids
  BY <1>1 DEF Without, RequestType
<1>3. r.ask \in Asks
  BY <1>1 DEF RequestType
<1> HIDE DEF L, p
<1>4. p \in Fields /\ RequestType(p) /\ p.count = Cardinality(p.sent)
  BY <1>1, Filters
<1>5. q \in Fields
  <2>1. L \in UNION {[DOMAIN ask -> SUBSET Event] : ask \in Asks}
    BY <1>2, <1>3
  <2> QED
    BY <1>4, <2>1 DEF Fields
<1>6. /\ q.left = L /\ q.conn = p.conn /\ q.id = p.id /\ q.ask = p.ask
      /\ q.live = p.live /\ q.pc = p.pc /\ q.count = p.count /\ q.sent = p.sent
      /\ q.timer = p.timer
  BY <1>4 DEF Fields
<1> HIDE DEF q
<1>7. RequestType(q)
  BY <1>1, <1>2, <1>4, <1>6 DEF RequestType
<1>8. q \in Req
  BY <1>4, <1>5, <1>6, <1>7 DEF Req
<1> QED
  BY <1>8 DEF q, p, L

\* After a send: the captured filters are put back, shortened; the other
\* deliveries fit what is left.
LEMMA ResumeKeeps ==
  ASSUME ServedInv, Resume
  PROVE  ServedInv' /\ (Agreed => Agreed')
<1> DEFINE d == Head(ready)
           c == d.conn
           s == d.id
           i == sub[c][s]
           r == reqs[i]
           K == {k \in d.filters : Stays(r, k, d.event)}
           R == [reqs EXCEPT ![i].live = K, ![i].left = Without(r, d.filters, d.event)]
           q == [r EXCEPT !.live = K, !.left = Without(r, d.filters, d.event)]
           W == IF K = {} THEN Sent(wire, c, s, "CLOSED") ELSE wire
<1>1. /\ ready \in Seq(Places) /\ ready # << >> /\ reqs \in Seq(Req)
      /\ sub \in [Conn -> [SubId -> Nat]] /\ wire \in [Conn -> [SubId -> Wires]]
      /\ open \subseteq Conn /\ Linked(reqs, sub) /\ Fit /\ idle \in Idles
      /\ Shape
  BY DEF ServedInv, Shape, Resume, Links, Linked, Requests, Idles
<1>2. /\ c # 0 /\ i # 0 /\ reqs' = R
      /\ sub' = IF K = {} THEN [sub EXCEPT ![c][s] = 0] ELSE sub
      /\ idle' = IF K = {} THEN ArmedIfNone(idle, sub', c) ELSE idle
      /\ Advance(d, R, sub', W)
      /\ UNCHANGED << open, user, now >>
  BY DEF Resume
<1>3. d \in Places /\ Fits(d, reqs, sub)
  <2>1. d \in Places /\ d = ready[1] /\ 1 \in DOMAIN ready
    BY <1>1, HeadTailProperties
  <2> QED
    BY <1>1, <2>1 DEF Fit
<1>4. /\ c \in open /\ c \in Conn /\ s \in SubId /\ d.filters \subseteq DOMAIN r.ask
      /\ i \in DOMAIN reqs /\ r \in Req /\ r.conn = c /\ r.id = s
  <2> HIDE DEF d
  <2>1. c \in open /\ c \in Conn /\ s \in SubId /\ d.filters \subseteq DOMAIN r.ask
    BY <1>1, <1>2, <1>3 DEF Fits
  <2>2. i \in DOMAIN reqs /\ r.conn = c /\ r.id = s
    BY <1>1, <1>2, <2>1 DEF Linked
  <2> QED
    BY <1>1, <2>1, <2>2
<1>5. q \in Req /\ R = [reqs EXCEPT ![i] = q]
  <2>1. K \in SUBSET DOMAIN r.ask
    BY <1>4
  <2>2. q \in Req
    <3> HIDE DEF K, d, r
    <3> QED BY <1>4, <2>1, Shortened
  <2>3. R = [reqs EXCEPT ![i] = q]
    <3> HIDE DEF K, d, i
    <3> QED BY <1>1, <1>4
  <2> QED
    BY <2>2, <2>3
<1>6. q.conn = r.conn /\ q.id = r.id /\ q.ask = r.ask /\ q.pc = r.pc /\ q.live = K
  <2> HIDE DEF K, d, r
  <2> QED BY <1>4 DEF Req, Fields
<1> HIDE DEF q, K, R, W, r
<1>7. /\ Follows(reqs, R)
      /\ R[i].live = K /\ \A j \in DOMAIN reqs : j # i => R[j] = reqs[j]
  <2> HIDE DEF d, i
  <2>1. Follows(reqs, R) /\ R[i] = q
    BY <1>1, <1>4, <1>5, <1>6, Edited DEF r
  <2>2. \A j \in DOMAIN reqs : j # i => R[j] = reqs[j]
    BY <1>1, <1>5
  <2> QED
    BY <1>6, <2>1, <2>2
<1> HIDE DEF d, c, s, i
<1>8. /\ sub' \in [Conn -> [SubId -> Nat]]
      /\ \A b \in Conn, t \in SubId : 
           sub'[b][t] = IF b = c /\ t = s /\ K = {} THEN 0 ELSE sub[b][t]
  <2>1. CASE K = {}
    <3>1. sub' = [sub EXCEPT ![c][s] = 0]
      BY <1>2, <2>1
    <3> QED
      BY <1>1, <2>1, <3>1
  <2>2. CASE K # {}
    BY <1>1, <1>2, <2>2
  <2> QED
    BY <2>1, <2>2
<1>9. R \in Seq(Req) /\ Linked(R, sub')
  <2>1. R \in Seq(Req) /\ DOMAIN R = DOMAIN reqs
        /\ \A j \in DOMAIN reqs : R[j].conn = reqs[j].conn /\ R[j].id = reqs[j].id
                                  /\ R[j].ask = reqs[j].ask
    BY <1>7 DEF Follows
  <2>2. ASSUME NEW b \in Conn, NEW t \in SubId, sub'[b][t] # 0
        PROVE  /\ sub'[b][t] \in DOMAIN R
               /\ R[sub'[b][t]].conn = b /\ R[sub'[b][t]].id = t
    <3>1. sub'[b][t] = sub[b][t]
      BY <1>8, <2>2
    <3>2. /\ sub[b][t] \in DOMAIN reqs
          /\ reqs[sub[b][t]].conn = b /\ reqs[sub[b][t]].id = t
      BY <1>1, <2>2, <3>1 DEF Linked
    <3> QED
      BY <2>1, <3>1, <3>2
  <2> QED
    BY <2>1, <2>2 DEF Linked
<1>10. i = sub[c][s]
  BY DEF i
<1>11. ASSUME NEW x \in Places, Fits(x, reqs, sub) PROVE Fits(x, R, sub')
  <2>1. DOMAIN R = DOMAIN reqs
        /\ \A j \in DOMAIN reqs : R[j].conn = reqs[j].conn /\ R[j].id = reqs[j].id
                                  /\ R[j].ask = reqs[j].ask
    BY <1>7 DEF Follows
  <2>2. x.conn = 0 => x.rest = NoRest
    BY <1>11 DEF Fits
  <2>3. ASSUME x.conn # 0
        PROVE  /\ x.conn \in open /\ x.id \in SubId
               /\ sub'[x.conn][x.id] # 0 => x.filters \subseteq DOMAIN R[sub'[x.conn][x.id]].ask
    <3>1. /\ x.conn \in open /\ x.conn \in Conn /\ x.id \in SubId
          /\ sub[x.conn][x.id] # 0 => x.filters \subseteq DOMAIN reqs[sub[x.conn][x.id]].ask
      BY <1>1, <1>11, <2>3 DEF Fits
    <3>2. ASSUME sub'[x.conn][x.id] # 0
          PROVE  x.filters \subseteq DOMAIN R[sub'[x.conn][x.id]].ask
      <4>1. sub'[x.conn][x.id] = sub[x.conn][x.id]
        BY <1>8, <3>1, <3>2
      <4>2. sub[x.conn][x.id] \in DOMAIN reqs
        BY <1>1, <3>1, <3>2, <4>1 DEF Linked
      <4> QED
        BY <2>1, <3>1, <3>2, <4>1, <4>2
    <3> QED
      BY <3>1, <3>2
  <2>4. ASSUME x.conn # 0, NEW t \in SubId, x.rest[t] # 0
        PROVE  /\ x.rest[t] \in DOMAIN R
               /\ R[x.rest[t]].conn = x.conn /\ R[x.rest[t]].id = t
               /\ sub'[x.conn][t] = x.rest[t] \/ R[x.rest[t]].live = {}
    <3>1. /\ x.conn \in Conn
          /\ x.rest[t] \in DOMAIN reqs
          /\ reqs[x.rest[t]].conn = x.conn /\ reqs[x.rest[t]].id = t
          /\ sub[x.conn][t] = x.rest[t] \/ reqs[x.rest[t]].live = {}
      BY <1>1, <1>11, <2>4 DEF Fits
    <3>2. CASE x.rest[t] = i
      <4>1. x.conn = c /\ t = s
        BY <1>4, <3>1, <3>2 DEF r
      <4>2. sub'[c][s] = IF K = {} THEN 0 ELSE i
        BY <1>4, <1>8, <1>10
      <4> QED
        BY <1>7, <2>1, <3>1, <3>2, <4>1, <4>2
    <3>3. CASE x.rest[t] # i
      <4>1. R[x.rest[t]] = reqs[x.rest[t]]
        BY <1>7, <3>1, <3>3
      <4>2. sub[x.conn][t] = x.rest[t] => sub'[x.conn][t] = sub[x.conn][t]
        BY <1>8, <1>10, <3>1, <3>3
      <4> QED
        BY <2>1, <3>1, <4>1, <4>2
    <3> QED
      BY <3>2, <3>3
  <2> QED
    BY <2>2, <2>3, <2>4 DEF Fits
<1>12. /\ W \in [Conn -> [SubId -> Wires]]
       /\ K # {} => W = wire
       /\ K = {} => W = [wire EXCEPT ![c][s] = "over"]
  <2>1. K = {} => W = [wire EXCEPT ![c][s] = "over"]
    BY <1>2, <1>4, <1>10, ClosedTells DEF W
  <2>2. [wire EXCEPT ![c][s] = "over"] \in [Conn -> [SubId -> Wires]]
    <3>1. [wire[c] EXCEPT ![s] = "over"] \in [SubId -> Wires]
      BY <1>1, <1>4 DEF Wires
    <3> QED
      BY <1>1, <1>4, <3>1
  <2>3. K # {} => W = wire
    BY DEF W
  <2> QED
    BY <1>1, <2>1, <2>2, <2>3
<1>13. \A b \in open, t \in SubId : sub'[b][t] # 0 => W[b][t] \in {"asked", "live"}
  <2> SUFFICES ASSUME NEW b \in open, NEW t \in SubId, sub'[b][t] # 0
               PROVE  W[b][t] \in {"asked", "live"}
    OBVIOUS
  <2>1. b \in Conn /\ sub'[b][t] = sub[b][t] /\ ~ (b = c /\ t = s /\ K = {})
    BY <1>1, <1>8
  <2>2. wire[b][t] \in {"asked", "live"}
    BY <2>1 DEF ServedInv, Known
  <2>3. W[b][t] = wire[b][t]
    BY <1>1, <1>12, <2>1
  <2> QED
    BY <2>2, <2>3
<1>14. /\ wire' = W
       /\ \/ ready' = Tail(ready)
          \/ \E n \in Places : Fits(n, R, sub') /\ ready' = Append(Tail(ready), n)
  <2>1. Fits(d, R, sub')
    BY <1>3, <1>11
  <2>2. W \in [Conn -> [SubId -> Wires]]
    BY <1>12
  <2>3. Advance(d, R, sub', W)
    BY <1>2
  <2> QED
    BY <1>1, <1>3, <1>8, <1>9, <1>13, <2>1, <2>2, <2>3, Advances
<1>15. ready' \in Seq(Places) /\ Fit'
  <2>2. ASSUME NEW j \in DOMAIN ready PROVE Fits(ready[j], R, sub')
    <3>1. ready[j] \in Places
      BY <1>1
    <3>2. Fits(ready[j], reqs, sub)
      BY <1>1 DEF Fit
    <3> QED
      BY <3>1, <3>2, <1>11
  <2>1. \A j \in DOMAIN ready : Fits(ready[j], reqs', sub')
    BY <1>2, <2>2
  <2> QED
    BY <1>1, <1>2, <1>14, <2>1, QueueKeeps
<1>16. CASE K = {}
  <2>1. Drops(c, s)
    BY <1>2, <1>4, <1>7, <1>12, <1>14, <1>16 DEF Drops
  <2>2. /\ Links' /\ NothingStray' /\ Known' /\ wire' \in [Conn -> [SubId -> Wires]]
        /\ Told => Told'
    BY <1>4, <2>1, DropsKeep
  <2>3. idle' \in Idles /\ (IdleIsTimed => IdleIsTimed')
    BY <1>1, <1>2, <1>4, <1>16, DropsArm
  <2>4. Shape'
    BY <1>1, <1>2, <1>8, <1>9, <1>15, <2>2, <2>3 DEF Shape, Idles
  <2> QED
    BY <1>15, <2>2, <2>3, <2>4 DEF ServedInv, Agreed
<1>17. CASE K # {}
  <2>1. UNCHANGED << open, user, idle, sub, now, wire >>
    BY <1>2, <1>12, <1>14, <1>17
  <2>2. Follows(reqs, reqs')
    BY <1>2, <1>7
  <2>3. Links' /\ NothingStray' /\ Known'
    BY <2>1, <2>2, Shrinks
  <2>4. Shape'
    BY <1>1, <1>2, <1>9, <1>15, <2>1 DEF Shape
  <2>5. Agreed => Agreed'
    BY <1>1, <2>1, Stay
  <2> QED
    BY <1>15, <2>3, <2>4, <2>5 DEF ServedInv
<1> QED
  BY <1>16, <1>17

-------------------------------------------------------------------------------
(***************************************************************************)
(* Every behaviour                                                         *)
(***************************************************************************)
\* No connection has an entry, all have their timeout.
LEMMA SubscriptionInit == Init => ServedInv /\ Agreed
<1> SUFFICES ASSUME Init PROVE ServedInv /\ Agreed
  OBVIOUS
<1>1. Shape
  <2>1. 0 \in 0 .. MaxTime
    BY AskAssumption
  <2>2. wire \in [Conn -> [SubId -> Wires]]
    BY DEF Init, Wires
  <2> QED
    BY <2>1, <2>2 DEF Init, Shape
<1>2. Links /\ NothingStray /\ Known /\ Told /\ IdleIsTimed
  BY DEF Init, Links, NothingStray, Known, Told, IdleIsTimed
<1>3. Fit
  BY DEF Init, Fit
<1> QED
  BY <1>1, <1>2, <1>3 DEF ServedInv, Agreed

\* Every step keeps ServedInv, and Agreed unless an identity changes.
LEMMA SubscriptionStep ==
  ServedInv /\ [Next]_vars => ServedInv' /\ (KeepsIdentity /\ Agreed => Agreed')
<1> SUFFICES ASSUME ServedInv, [Next]_vars
             PROVE  ServedInv' /\ (KeepsIdentity /\ Agreed => Agreed')
  OBVIOUS
<1>1. CASE UNCHANGED vars
  BY <1>1 DEF vars, ServedInv, Shape, Links, NothingStray, Known, Fit, Fits, Requests,
              Agreed, Told, IdleIsTimed, NoSubs
<1>2. ASSUME NEW c \in Conn, NEW s \in SubId, NEW a \in Asks, Ask(c, s, a)
      PROVE  ServedInv' /\ (Agreed => Agreed')
  BY <1>2, AskKeeps
<1>3. ASSUME NEW c \in Conn, NEW s \in SubId, Refuse(c, s) \/ Close(c, s)
      PROVE  ServedInv' /\ (Agreed => Agreed')
  BY <1>3, RefuseKeeps, CloseKeeps
<1>4. ASSUME NEW c \in Conn, NEW p \in Pubkey, Authenticate(c, p)
      PROVE  ServedInv' /\ (KeepsIdentity /\ Agreed => Agreed')
  BY <1>4, AuthenticateKeeps
<1>5. ASSUME NEW c \in Conn, AuthenticationFails(c) \/ IdleFires(c) \/ Disconnect(c)
      PROVE  ServedInv' /\ (Agreed => Agreed')
  BY <1>5, AuthenticationFailsKeeps, IdleFiresKeeps, DisconnectKeeps
<1>6. ASSUME NEW i \in DOMAIN reqs, NEW e \in Event, Yield(i, e)
      PROVE  ServedInv' /\ (Agreed => Agreed')
  BY <1>6, YieldKeeps
<1>7. ASSUME NEW i \in DOMAIN reqs, Finish(i) \/ ReadFails(i) \/ Expire(i)
      PROVE  ServedInv' /\ (Agreed => Agreed')
  BY <1>7, FinishKeeps, ReadFailsKeeps, ExpireKeeps
<1>8. ASSUME NEW chunk \in Chunks, Arrive(chunk)
      PROVE  ServedInv' /\ (Agreed => Agreed')
  BY <1>8, ArriveKeeps
<1>9. ASSUME Start \/ Resume \/ Throw \/ Tick
      PROVE  ServedInv' /\ (Agreed => Agreed')
  BY <1>9, StartKeeps, ResumeKeeps, ThrowKeeps, TickKeeps
<1> QED
  BY <1>1, <1>2, <1>3, <1>4, <1>5, <1>6, <1>7, <1>8, <1>9 DEF Next, Requests

\* The shapes are those the runs check.
LEMMA SubscriptionTypes == ServedInv => TypeOK
<1> SUFFICES ASSUME ServedInv PROVE TypeOK
  OBVIOUS
<1>1. \A i \in Requests : RequestType(reqs[i])
  BY Whose, Filters DEF Requests
<1> QED
  BY <1>1 DEF ServedInv, Shape, Links, Wires, TypeOK

\* No client gets an event of a request that is over, a second EOSE or a second
\* CLOSED, also when identities change and deliveries interleave
\* (req-handler.js, send-to-clients.js).
THEOREM NoneStray == Spec => [](TypeOK /\ NothingStray)
<1>1. ServedInv => TypeOK /\ NothingStray
  BY SubscriptionTypes DEF ServedInv
<1> QED
  BY <1>1, SubscriptionInit, SubscriptionStep, PTL DEF Spec

\* While nobody changes identity the relay serves exactly what its clients think
\* is served.
THEOREM ClientsAgree == Spec /\ [][KeepsIdentity]_vars => []SubscriptionInv
<1>1. ServedInv /\ Agreed /\ [Next]_vars /\ [KeepsIdentity]_vars => (ServedInv /\ Agreed)'
  <2>1. UNCHANGED vars => KeepsIdentity
    BY DEF vars, KeepsIdentity
  <2> QED
    BY <2>1, SubscriptionStep
<1>2. ServedInv /\ Agreed => SubscriptionInv
  BY SubscriptionTypes DEF ServedInv, Agreed, Known, Told, SubscriptionInv, ClientAgrees
<1> QED
  BY <1>1, <1>2, SubscriptionInit, PTL DEF Spec

\* And every connection without subscriptions has its inactivity timeout
\* (web-socket-request-limiter.js).
THEOREM EmptyOnesAreTimed == Spec /\ [][KeepsIdentity]_vars => []IdleIsTimed
<1>1. ServedInv /\ Agreed /\ [Next]_vars /\ [KeepsIdentity]_vars => (ServedInv /\ Agreed)'
  <2>1. UNCHANGED vars => KeepsIdentity
    BY DEF vars, KeepsIdentity
  <2> QED
    BY <2>1, SubscriptionStep
<1>2. ServedInv /\ Agreed => IdleIsTimed
  BY DEF Agreed
<1> QED
  BY <1>1, <1>2, SubscriptionInit, PTL DEF Spec
===============================================================================
