--------------------------- MODULE StoredUsageProofs ---------------------------
(***************************************************************************)
(* The charge of every owner, for any number of owners, events and         *)
(* operations, and of stops and failures.                                  *)
(***************************************************************************)
EXTENDS StoredUsageProps, FiniteSetTheorems, TLAPS

\* Nobody may ask for the deletion of an event that could pass to its author
\* first: such a deletion keeps the owner it found when it was requested.
Steady == \A e \in Deletable : By[e] \notin Rising

-------------------------------------------------------------------------------
(***************************************************************************)
(* The inductive invariant, in terms of a queue q, the owners f of the     *)
(* events, the owners' documents w and the saved events s                  *)
(***************************************************************************)
EventsOf(op) == {a.event : a \in op.acts}

\* What an operation is made of.
Shaped(op) ==
  /\ IsFiniteSet(op.acts)
  /\ \A a, b \in op.acts : a.event = b.event => a = b
  /\ \A a \in op.acts :
       a.from # a.to /\ (a.to # Gone => a.from = IP /\ By[a.event] = a.to /\ a.to \in Rising)
  /\ op.kind \in {"save", "touch"} => op.name = NoName /\ op.phase = "queued" /\ op.acts = {}
  /\ op.kind = "save" => op.event \in Event
  /\ op.kind \in {"check", "delete"} => op.name # NoName
  /\ op.kind = "check" /\ op.phase = "queued" => op.acts = {}
  /\ op.kind = "delete" => \A a \in op.acts : a.to = Gone /\ a.event \in Deletable

\* What it finds: an event is with the owner it was selected from, or where the
\* phase has brought it.
Meets(op, f, s) ==
  /\ EventsOf(op) \subseteq s
  /\ op.kind = "save" => op.event \in s /\ f[op.event] = Gone
  /\ op.name[1] = "save" => op.name[2] \in s
  /\ op.phase \in {"queued", "prepared"} => \A a \in op.acts : f[a.event] \in {a.from, a.to}
  /\ op.phase \in {"events_applied", "accounting_applied"} => \A a \in op.acts : f[a.event] = a.to

\* Two operations do not meet.
Apart(p, r) ==
  /\ p.name = r.name => p.name = NoName
  /\ p.phase = "queued" \/ r.phase = "queued"
  /\ p.kind = "save" => p.event \notin EventsOf(r) /\ (r.kind = "save" => p.event # r.event)

QueueFits(q, f, s) ==
  /\ \A n \in DOMAIN q : Shaped(q[n])
  /\ \A n \in DOMAIN q : Meets(q[n], f, s)
  /\ \A m, n \in DOMAIN q : m # n => Apart(q[m], q[n])

\* The workflow in hand: one at most
InHand(q) == {q[n] : n \in {m \in DOMAIN q : q[m].phase # "queued"}}

\* What an owner stores, and what it stored before an operation began
Has(o, f) == {e \in Event : f[e] = o}
Had(op, o, f) ==
  {e \in Event : \/ \E a \in op.acts : a.event = e /\ a.from = o
                 \/ f[e] = o /\ e \notin EventsOf(op)}

Unsettled(op, o, w) ==
  op.phase \in {"prepared", "events_applied"} /\ Token(op) \notin w[o].tokens

Balanced(h, f, w, d) ==
  \A o \in Owner :
    /\ h = {} => w[o].used = Cardinality(Has(o, f)) + d[o]
    /\ \A op \in h :
         w[o].used = Cardinality(IF Unsettled(op, o, w) THEN Had(op, o, f) ELSE Has(o, f)) + d[o]
    /\ ~ w[o].there => w[o] = NoDoc

TokensFit(h, w) ==
  \A o \in Owner : \A t \in w[o].tokens :
    \E op \in h :
      /\ Token(op) = t
      /\ op.phase \in {"events_applied", "accounting_applied"}
      /\ Delta(op, o) # 0

\* What was answered last fits the phase.
DoneFits(h, w, what) ==
  /\ what # "nothing" => h # {}
  /\ \A op \in h :
       /\ what = "charged" =>
            /\ op.phase = "events_applied"
            /\ \A o \in Owner : Delta(op, o) # 0 => Token(op) \in w[o].tokens
       /\ what \in {"queued", "cleared"} => op.phase = "accounting_applied"
       /\ what = "cleared" => \A o \in Owner : Token(op) \notin w[o].tokens

UsageIndInv ==
  /\ TypeOK
  /\ QueueFits(queue, of, saved)
  /\ \A e \in Event : of[e] # Gone => e \in saved
  /\ Balanced(InHand(queue), of, owner, drift)
  /\ TokensFit(InHand(queue), owner)
  /\ DoneFits(InHand(queue), owner, done)
  /\ mode = "reconciling" => InHand(queue) = {}

-------------------------------------------------------------------------------
(***************************************************************************)
(* Counting                                                                *)
(***************************************************************************)
LEMMA FiniteEvents == \A S \in SUBSET Event : IsFiniteSet(S) /\ Cardinality(S) \in Nat
<1> SUFFICES ASSUME NEW S \in SUBSET Event PROVE IsFiniteSet(S) /\ Cardinality(S) \in Nat
  OBVIOUS
<1>1. IsFiniteSet(Event)
  BY UsageAssumption
<1>2. IsFiniteSet(S)
  BY <1>1, FS_Subset
<1> QED
  BY <1>2, FS_CardinalityType

\* Acts are as many as their events.
LEMMA ActsCounted ==
  ASSUME NEW op, Shaped(op), NEW A \in SUBSET op.acts
  PROVE  /\ IsFiniteSet(A) /\ Cardinality(A) \in Nat
         /\ Cardinality({a.event : a \in A}) = Cardinality(A)
<1> DEFINE T == {a.event : a \in A}
           g == [a \in A |-> a.event]
<1>1. IsFiniteSet(A)
  BY FS_Subset DEF Shaped
<1>2. g \in Bijection(A, T)
  <2>1. g \in [A -> T] /\ \A x, y \in A : g[x] = g[y] => x = y
    BY DEF Shaped
  <2>2. \A t \in T : \E x \in A : g[x] = t
    OBVIOUS
  <2> HIDE DEF g, T
  <2> QED
    BY <2>1, <2>2 DEF Bijection, Injection, Surjection, IsInjective
<1>3. ExistsBijection(A, T)
  BY <1>2 DEF ExistsBijection
<1> HIDE DEF g, T
<1>4. Cardinality(T) = Cardinality(A)
  BY <1>1, <1>3, FS_Bijection
<1> QED
  BY <1>1, <1>4, FS_CardinalityType DEF T

\* What the acts of an operation have changed: the events that have come to an
\* owner and those that have left it.
Come(op, o, f) == {a \in op.acts : a.to = o /\ f[a.event] = o}
Left(op, o, f) == {a \in op.acts : a.from = o /\ f[a.event] # o}

LEMMA HasHad ==
  ASSUME NEW op \in Op, Shaped(op), NEW f, NEW o \in Owner,
         \A a \in op.acts : f[a.event] \in {a.from, a.to}
  PROVE  /\ Cardinality(Has(o, f)) \in Nat /\ Cardinality(Had(op, o, f)) \in Nat
         /\ Cardinality(Come(op, o, f)) \in Nat /\ Cardinality(Left(op, o, f)) \in Nat
         /\ Cardinality(Has(o, f)) =
              Cardinality(Had(op, o, f)) + Cardinality(Come(op, o, f)) - Cardinality(Left(op, o, f))
<1> DEFINE H == Has(o, f)
           B == Had(op, o, f)
           CC == {a.event : a \in Come(op, o, f)}
           LL == {a.event : a \in Left(op, o, f)}
<1>1. H \in SUBSET Event /\ B \in SUBSET Event
  BY DEF Has, Had
<1>2. op.acts \subseteq Act
  BY DEF Op
<1>3. \A a \in op.acts : a.event \in Event
  BY <1>2 DEF Act
<1>4. H \ B = CC
  <2>1. ASSUME NEW e \in H \ B PROVE e \in CC
    <3>1. e \in EventsOf(op) /\ f[e] = o
      BY <2>1 DEF Has, Had
    <3>2. PICK a \in op.acts : a.event = e
      BY <3>1 DEF EventsOf
    <3>3. a.from # o
      BY <2>1, <3>2 DEF Has, Had
    <3>4. a.to = o
      BY <3>1, <3>2, <3>3
    <3> QED
      BY <3>1, <3>2, <3>4 DEF Come
  <2>2. ASSUME NEW e \in CC PROVE e \in H \ B
    <3>1. PICK a \in op.acts : a.event = e /\ a.to = o /\ f[e] = o
      BY <2>2 DEF Come
    <3>2. a.from # o /\ \A b \in op.acts : b.event = e => b = a
      BY <3>1 DEF Shaped
    <3>3. e \in Event /\ e \in EventsOf(op)
      BY <1>3, <3>1 DEF EventsOf
    <3> QED
      BY <3>1, <3>2, <3>3 DEF Has, Had
  <2> QED
    BY <2>1, <2>2
<1>5. B \ H = LL
  <2>1. ASSUME NEW e \in B \ H PROVE e \in LL
    <3>1. PICK a \in op.acts : a.event = e /\ a.from = o /\ f[e] # o
      BY <2>1 DEF Has, Had
    <3> QED
      BY <3>1 DEF Left
  <2>2. ASSUME NEW e \in LL PROVE e \in B \ H
    <3>1. PICK a \in op.acts : a.event = e /\ a.from = o /\ f[e] # o
      BY <2>2 DEF Left
    <3> QED
      BY <1>3, <3>1 DEF Has, Had
  <2> QED
    BY <2>1, <2>2
<1>6. /\ Cardinality(CC) = Cardinality(Come(op, o, f)) /\ Cardinality(Come(op, o, f)) \in Nat
      /\ Cardinality(LL) = Cardinality(Left(op, o, f)) /\ Cardinality(Left(op, o, f)) \in Nat
  <2>1. Come(op, o, f) \in SUBSET op.acts /\ Left(op, o, f) \in SUBSET op.acts
    BY DEF Come, Left
  <2> QED
    BY <2>1, ActsCounted
<1> HIDE DEF H, B, CC, LL
<1>7. IsFiniteSet(H) /\ IsFiniteSet(B) /\ Cardinality(H) \in Nat /\ Cardinality(B) \in Nat
  BY <1>1, FiniteEvents
<1> DEFINE both == Cardinality(H \cap B)
<1>8. Cardinality(CC) = Cardinality(H) - both
  <2>1. Cardinality(H \ B) = Cardinality(H) - both
    BY <1>7, FS_Difference
  <2> QED
    BY <1>4, <2>1
<1>9. Cardinality(LL) = Cardinality(B) - both
  <2>1. Cardinality(B \ H) = Cardinality(B) - Cardinality(B \cap H)
    BY <1>7, FS_Difference
  <2>2. B \cap H = H \cap B
    OBVIOUS
  <2> QED
    BY <1>5, <2>1, <2>2
<1>10. both \in Nat
  BY <1>1, FiniteEvents
<1> HIDE DEF both
<1>11. Cardinality(H) = Cardinality(B) + Cardinality(CC) - Cardinality(LL)
  BY <1>7, <1>8, <1>9, <1>10
<1> QED
  BY <1>6, <1>7, <1>11 DEF H, B

\* Where all acts are done, the difference is the delta.
LEMMA AllDone ==
  ASSUME NEW op \in Op, Shaped(op), NEW f, NEW o \in Owner,
         \A a \in op.acts : f[a.event] = a.to
  PROVE  /\ Delta(op, o) \in Int
         /\ Cardinality(Has(o, f)) \in Nat /\ Cardinality(Had(op, o, f)) \in Nat
         /\ Cardinality(Has(o, f)) = Cardinality(Had(op, o, f)) + Delta(op, o)
<1>1. Come(op, o, f) = {a \in op.acts : a.to = o}
  BY DEF Come
<1>2. Left(op, o, f) = {a \in op.acts : a.from = o}
  BY DEF Left, Shaped
<1>3. \A a \in op.acts : f[a.event] \in {a.from, a.to}
  OBVIOUS
<1>4. /\ Cardinality(Has(o, f)) \in Nat /\ Cardinality(Had(op, o, f)) \in Nat
      /\ Cardinality(Come(op, o, f)) \in Nat /\ Cardinality(Left(op, o, f)) \in Nat
      /\ Cardinality(Has(o, f)) =
           Cardinality(Had(op, o, f)) + Cardinality(Come(op, o, f)) - Cardinality(Left(op, o, f))
  BY <1>3, HasHad
<1>5. Delta(op, o) = Cardinality(Come(op, o, f)) - Cardinality(Left(op, o, f))
  BY <1>1, <1>2 DEF Delta
<1> QED
  BY <1>4, <1>5

-------------------------------------------------------------------------------
(***************************************************************************)
(* What becomes of the queue                                               *)
(***************************************************************************)
LEMMA Removed ==
  ASSUME NEW S, NEW q \in Seq(S), NEW n \in DOMAIN q
  PROVE  /\ RemoveAt(q, n) \in Seq(S)
         /\ Len(RemoveAt(q, n)) = Len(q) - 1
         /\ \A k \in 1 .. Len(q) - 1 : RemoveAt(q, n)[k] = q[IF k < n THEN k ELSE k + 1]
<1>1. n \in 1 .. Len(q) /\ Len(q) \in Nat
  OBVIOUS
<1> DEFINE a == SubSeq(q, 1, n - 1)
           b == SubSeq(q, n + 1, Len(q))
<1>2. a \in Seq(S) /\ Len(a) = n - 1 /\ \A k \in 1 .. n - 1 : a[k] = q[k]
  BY <1>1
<1>3. b \in Seq(S) /\ Len(b) = Len(q) - n /\ \A k \in 1 .. Len(q) - n : b[k] = q[n + k]
  BY <1>1
<1> HIDE DEF a, b
<1>4. /\ a \o b \in Seq(S) /\ Len(a \o b) = Len(q) - 1
      /\ \A k \in 1 .. Len(q) - 1 : (a \o b)[k] = IF k < n THEN a[k] ELSE b[k - (n - 1)]
  <2>1. /\ a \o b \in Seq(S) /\ Len(a \o b) = Len(a) + Len(b)
        /\ \A k \in 1 .. Len(a) + Len(b) : (a \o b)[k] = IF k <= Len(a) THEN a[k] ELSE b[k - Len(a)]
    <3>1. a \in Seq(S) /\ b \in Seq(S)
      BY <1>2, <1>3
    <3> QED
      BY <3>1
  <2>2. Len(a) + Len(b) = Len(q) - 1 /\ Len(a) = n - 1
    BY <1>1, <1>2, <1>3
  <2>3. \A k \in 1 .. Len(q) - 1 : k <= n - 1 <=> k < n
    BY <1>1
  <2> QED
    BY <2>1, <2>2, <2>3
<1>5. ASSUME NEW k \in 1 .. Len(q) - 1 PROVE (a \o b)[k] = q[IF k < n THEN k ELSE k + 1]
  <2>1. CASE k < n
    <3>1. (a \o b)[k] = a[k] /\ k \in 1 .. n - 1
      BY <1>1, <1>4, <2>1
    <3> QED
      BY <1>2, <2>1, <3>1
  <2>2. CASE ~ (k < n)
    <3>1. (a \o b)[k] = b[k - (n - 1)] /\ k - (n - 1) \in 1 .. Len(q) - n /\ n + (k - (n - 1)) = k + 1
      BY <1>1, <1>4, <2>2
    <3> QED
      BY <1>3, <2>2, <3>1
  <2> QED
    BY <2>1, <2>2
<1>6. RemoveAt(q, n) = a \o b
  BY DEF RemoveAt, a, b
<1> QED
  BY <1>4, <1>5, <1>6

\* An operation leaves the queue.
LEMMA Dropped ==
  ASSUME NEW q \in Seq(Op), NEW n \in DOMAIN q, NEW f, NEW s, QueueFits(q, f, s)
  PROVE  /\ RemoveAt(q, n) \in Seq(Op)
         /\ QueueFits(RemoveAt(q, n), f, s)
         /\ InHand(RemoveAt(q, n)) \subseteq InHand(q)
         /\ q[n].phase # "queued" => InHand(RemoveAt(q, n)) = {}
         /\ \A k \in DOMAIN RemoveAt(q, n) : \E m \in DOMAIN q \ {n} : RemoveAt(q, n)[k] = q[m]
         /\ \A m \in DOMAIN q \ {n} : \E k \in DOMAIN RemoveAt(q, n) : RemoveAt(q, n)[k] = q[m]
<1> DEFINE r == RemoveAt(q, n)
           src(k) == IF k < n THEN k ELSE k + 1
<1>1. r \in Seq(Op) /\ Len(r) = Len(q) - 1 /\ \A k \in 1 .. Len(q) - 1 : r[k] = q[src(k)]
  BY Removed
<1>2. n \in 1 .. Len(q) /\ Len(q) \in Nat /\ DOMAIN q = 1 .. Len(q)
  OBVIOUS
<1> HIDE DEF r
<1>3. DOMAIN r = 1 .. Len(q) - 1
  BY <1>1, <1>2
<1>4. \A k \in DOMAIN r : src(k) \in DOMAIN q \ {n} /\ r[k] = q[src(k)]
  BY <1>1, <1>2, <1>3
<1>5. \A j, k \in DOMAIN r : j # k => src(j) # src(k)
  BY <1>2, <1>3
<1>6. \A m \in DOMAIN q \ {n} : \E k \in DOMAIN r : r[k] = q[m]
  <2> SUFFICES ASSUME NEW m \in DOMAIN q \ {n} PROVE \E k \in DOMAIN r : r[k] = q[m]
    OBVIOUS
  <2>1. CASE m < n
    <3>1. m \in DOMAIN r /\ src(m) = m
      BY <1>2, <1>3, <2>1
    <3>2. r[m] = q[m]
      BY <1>4, <3>1
    <3> QED
      BY <3>1, <3>2
  <2>2. CASE ~ (m < n)
    <3>1. m - 1 \in DOMAIN r /\ src(m - 1) = m
      BY <1>2, <1>3, <2>2
    <3>2. r[m - 1] = q[m]
      BY <1>4, <3>1
    <3> QED
      BY <3>1, <3>2
  <2> QED
    BY <2>1, <2>2
<1> HIDE DEF src
<1>7. QueueFits(r, f, s)
  BY <1>4, <1>5 DEF QueueFits
<1>8. InHand(r) \subseteq InHand(q)
  BY <1>4 DEF InHand
<1>9. ASSUME q[n].phase # "queued" PROVE InHand(r) = {}
  <2>1. \A m \in DOMAIN q \ {n} : q[m].phase = "queued"
    BY <1>9 DEF QueueFits, Apart
  <2> QED
    BY <1>4, <2>1 DEF InHand
<1> QED
  BY <1>1, <1>4, <1>6, <1>7, <1>8, <1>9 DEF r

\* An operation changes.
LEMMA Patched ==
  ASSUME NEW q \in Seq(Op), NEW n \in DOMAIN q, NEW f, NEW s, QueueFits(q, f, s),
         NEW op \in Op, Shaped(op), Meets(op, f, s),
         op.name = q[n].name, op.kind = q[n].kind, op.kind # "save",
         \A m \in DOMAIN q : q[m].kind = "save" => q[m].event \notin EventsOf(op),
         InHand(q) = {} \/ q[n].phase # "queued"
  PROVE  /\ ReplaceAt(q, n, op) \in Seq(Op)
         /\ DOMAIN ReplaceAt(q, n, op) = DOMAIN q
         /\ \A m \in DOMAIN q : ReplaceAt(q, n, op)[m] = IF m = n THEN op ELSE q[m]
         /\ QueueFits(ReplaceAt(q, n, op), f, s)
         /\ InHand(ReplaceAt(q, n, op)) = IF op.phase = "queued" THEN {} ELSE {op}
<1> DEFINE r == ReplaceAt(q, n, op)
<1>1. /\ r \in Seq(Op) /\ DOMAIN r = DOMAIN q
      /\ \A m \in DOMAIN q : r[m] = IF m = n THEN op ELSE q[m]
  BY DEF ReplaceAt
<1> HIDE DEF r
<1>2. \A m \in DOMAIN q \ {n} : q[m].phase = "queued"
  <2>1. CASE InHand(q) = {}
    BY <2>1 DEF InHand
  <2>2. CASE q[n].phase # "queued"
    BY <2>2 DEF QueueFits, Apart
  <2> QED
    BY <2>1, <2>2
<1>3. ASSUME NEW m \in DOMAIN q \ {n} PROVE Apart(q[m], op) /\ Apart(op, q[m])
  <2>1. Apart(q[m], q[n]) /\ Apart(q[n], q[m])
    BY <1>3 DEF QueueFits
  <2>2. q[m].phase = "queued"
    BY <1>2, <1>3
  <2> QED
    BY <2>1, <2>2 DEF Apart
<1>4. QueueFits(r, f, s)
  <2>1. \A m \in DOMAIN r : Shaped(r[m]) /\ Meets(r[m], f, s)
    BY <1>1 DEF QueueFits
  <2>2. \A k, m \in DOMAIN r : k # m => Apart(r[k], r[m])
    BY <1>1, <1>3 DEF QueueFits
  <2> QED
    BY <2>1, <2>2 DEF QueueFits
<1>5. InHand(r) = IF op.phase = "queued" THEN {} ELSE {op}
  BY <1>1, <1>2 DEF InHand
<1> QED
  BY <1>1, <1>4, <1>5 DEF r

\* Operations are queued.
LEMMA Joined ==
  ASSUME NEW q \in Seq(Op), NEW new \in Seq(Op), NEW f, NEW s, QueueFits(q, f, s), QueueFits(new, f, s),
         \A m \in DOMAIN q, k \in DOMAIN new : Apart(q[m], new[k]) /\ Apart(new[k], q[m])
  PROVE  /\ q \o new \in Seq(Op)
         /\ QueueFits(q \o new, f, s)
         /\ InHand(q \o new) = InHand(q) \cup InHand(new)
         /\ \A m \in DOMAIN q : m \in DOMAIN (q \o new) /\ (q \o new)[m] = q[m]
<1> DEFINE r == q \o new
           L == Len(q)
<1>1. r \in Seq(Op) /\ Len(r) = L + Len(new) /\ L \in Nat /\ Len(new) \in Nat
      /\ DOMAIN r = 1 .. L + Len(new) /\ DOMAIN q = 1 .. L /\ DOMAIN new = 1 .. Len(new)
  OBVIOUS
<1>2. \A k \in 1 .. L + Len(new) : r[k] = IF k <= L THEN q[k] ELSE new[k - L]
  OBVIOUS
<1> HIDE DEF r, L
<1>3. \A k \in DOMAIN r :
        \/ k \in DOMAIN q /\ r[k] = q[k]
        \/ k \notin DOMAIN q /\ k - L \in DOMAIN new /\ r[k] = new[k - L]
  <2> TAKE k \in DOMAIN r
  <2>1. k \in 1 .. L + Len(new)
    BY <1>1
  <2>2. k \in DOMAIN q <=> k <= L
    BY <1>1, <2>1
  <2>3. ~ (k <= L) => k - L \in DOMAIN new
    BY <1>1, <2>1
  <2>4. r[k] = IF k <= L THEN q[k] ELSE new[k - L]
    BY <1>2, <2>1
  <2> QED
    BY <2>2, <2>3, <2>4
<1>4. \A k \in DOMAIN new : k + L \in DOMAIN r /\ r[k + L] = new[k]
  <2> SUFFICES ASSUME NEW k \in DOMAIN new PROVE k + L \in DOMAIN r /\ r[k + L] = new[k]
    OBVIOUS
  <2>1. k \in Nat /\ k >= 1 /\ k <= Len(new)
    BY <1>1
  <2>2. k + L \in 1 .. L + Len(new) /\ ~ (k + L <= L) /\ (k + L) - L = k
    BY <1>1, <2>1
  <2> QED
    BY <1>1, <1>2, <2>2
<1>5. \A k \in DOMAIN q : k \in DOMAIN r /\ r[k] = q[k]
  BY <1>1, <1>2
<1>6. \A j, k \in DOMAIN r : j # k => j - L # k - L
  BY <1>1
<1>7. QueueFits(r, f, s)
  <2>1. \A k \in DOMAIN r : Shaped(r[k]) /\ Meets(r[k], f, s)
    BY <1>3 DEF QueueFits
  <2>2. ASSUME NEW j \in DOMAIN r, NEW k \in DOMAIN r, j # k PROVE Apart(r[j], r[k])
    BY <1>3, <1>6, <2>2 DEF QueueFits
  <2> QED
    BY <2>1, <2>2 DEF QueueFits
<1>8. InHand(r) = InHand(q) \cup InHand(new)
  <2>1. InHand(r) \subseteq InHand(q) \cup InHand(new)
    BY <1>3 DEF InHand
  <2>2. InHand(q) \subseteq InHand(r)
    BY <1>5 DEF InHand
  <2>3. InHand(new) \subseteq InHand(r)
    BY <1>4 DEF InHand
  <2> QED
    BY <2>1, <2>2, <2>3
<1> QED
  BY <1>1, <1>5, <1>7, <1>8 DEF r

\* One operation is queued.
LEMMA Queued ==
  ASSUME NEW q \in Seq(Op), NEW op \in Op, NEW f, NEW s, QueueFits(q, f, s),
         Shaped(op), Meets(op, f, s),
         \A m \in DOMAIN q : Apart(q[m], op) /\ Apart(op, q[m])
  PROVE  LET r == q \o << op >> IN
         /\ r \in Seq(Op) /\ r = Append(q, op)
         /\ QueueFits(r, f, s)
         /\ InHand(r) = InHand(q) \cup (IF op.phase = "queued" THEN {} ELSE {op})
         /\ \A m \in DOMAIN q : m \in DOMAIN r /\ r[m] = q[m]
<1> DEFINE new == << op >>
<1>1. new \in Seq(Op) /\ DOMAIN new = {1} /\ new[1] = op
  OBVIOUS
<1>2. q \o new = Append(q, op)
  OBVIOUS
<1> HIDE DEF new
<1>3. QueueFits(new, f, s)
  BY <1>1 DEF QueueFits
<1>4. InHand(new) = IF op.phase = "queued" THEN {} ELSE {op}
  BY <1>1 DEF InHand
<1>5. \A m \in DOMAIN q, k \in DOMAIN new : Apart(q[m], new[k]) /\ Apart(new[k], q[m])
  BY <1>1
<1>6. /\ q \o new \in Seq(Op)
      /\ QueueFits(q \o new, f, s)
      /\ InHand(q \o new) = InHand(q) \cup InHand(new)
      /\ \A m \in DOMAIN q : m \in DOMAIN (q \o new) /\ (q \o new)[m] = q[m]
  BY <1>1, <1>3, <1>5, Joined
<1> QED
  BY <1>2, <1>4, <1>6 DEF new

-------------------------------------------------------------------------------
(***************************************************************************)
(* Steps                                                                   *)
(***************************************************************************)
IdleStep ==
  \A o \in Owner : owner[o].there /\ ~ owner'[o].there =>
    Stored(o) = {} /\ owner[o].tokens = {} /\ owner[o].used = 0

EnforcedStep ==
  \A n \in DOMAIN queue :
    LET op == queue[n] IN
    op.kind = "check" /\ (\A m \in DOMAIN queue' : queue'[m].name # op.name) =>
      ~ owner'[op.owner].there \/ ~ StillStale(op) \/ owner'[op.owner].used <= op.limit
      \/ FailCheck(n)

\* The types of what is not the queue
Typed ==
  /\ of \in [Event -> Owner \cup {Gone}]
  /\ owner \in [Owner -> Doc]
  /\ saved \subseteq Event
  /\ drift \in [Owner -> 0 .. MaxDrift]
  /\ seen \in 0 .. MaxSeen /\ sweeps \in 0 .. MaxSweeps /\ stops \in 0 .. MaxStops
  /\ done \in {"nothing", "charged", "queued", "cleared"}
  /\ mode \in {"relay", "resuming", "reconciling"} /\ listed \subseteq Owner /\ unchecked \subseteq Owner

LEMMA Types ==
  ASSUME queue \in Seq(Op), QueueFits(queue, of, saved), Typed
  PROVE  TypeOK
BY DEF QueueFits, Apart, Typed, TypeOK

\* Who has its turn is the one in hand, and otherwise nobody is.
LEMMA TurnTaken ==
  ASSUME UsageIndInv, NEW n \in DOMAIN queue, Turn(n)
  PROVE  /\ queue[n].phase = "queued" => InHand(queue) = {}
         /\ queue[n].phase # "queued" => InHand(queue) = {queue[n]}
<1>1. ASSUME queue[n].phase = "queued" PROVE InHand(queue) = {}
  BY <1>1 DEF Turn, Started, InHand
<1>2. ASSUME queue[n].phase # "queued" PROVE InHand(queue) = {queue[n]}
  BY <1>2 DEF UsageIndInv, QueueFits, Apart, InHand
<1> QED
  BY <1>1, <1>2

\* Each operation is well formed.
LEMMA Operations ==
  ASSUME UsageIndInv, NEW n \in DOMAIN queue
  PROVE  queue[n] \in Op /\ Shaped(queue[n]) /\ Meets(queue[n], of, saved)
BY DEF UsageIndInv, QueueFits, TypeOK

\* A step that may queue operations and answer a request, and does no more.
LEMMA Arrives ==
  ASSUME UsageIndInv,
         queue' \in Seq(Op), QueueFits(queue', of, saved'), InHand(queue') = InHand(queue),
         \A m \in DOMAIN queue : m \in DOMAIN queue' /\ queue'[m] = queue[m],
         saved \subseteq saved', saved' \subseteq Event,
         seen' \in 0 .. MaxSeen, sweeps' \in 0 .. MaxSweeps, stops' \in 0 .. MaxStops,
         done' \in {"nothing", "charged", "queued", "cleared"},
         DoneFits(InHand(queue), owner, done'),
         mode' \in {"relay", "resuming", "reconciling"}, listed' \subseteq Owner /\ unchecked' \subseteq Owner,
         mode' = "reconciling" => InHand(queue) = {},
         UNCHANGED << of, owner, drift >>
  PROVE  UsageIndInv' /\ IdleStep /\ EnforcedStep
<1>1. Typed'
  BY DEF UsageIndInv, TypeOK, Typed
<1>2. QueueFits(queue, of, saved)' /\ queue' \in Seq(Op)
  OBVIOUS
<1>3. TypeOK'
  <2>1. (queue \in Seq(Op) /\ QueueFits(queue, of, saved) /\ Typed)'
    BY <1>1
  <2> QED
    BY <2>1 DEF QueueFits, Apart, Typed, TypeOK
<1>4. (\A e \in Event : of[e] # Gone => e \in saved)'
  BY DEF UsageIndInv
<1>5. /\ Balanced(InHand(queue'), of', owner', drift')
      /\ TokensFit(InHand(queue'), owner')
      /\ DoneFits(InHand(queue'), owner', done')
  BY DEF UsageIndInv
<1>6. UsageIndInv'
  BY <1>2, <1>3, <1>4, <1>5 DEF UsageIndInv
<1>7. IdleStep
  BY DEF IdleStep
<1>8. EnforcedStep
  BY DEF EnforcedStep
<1> QED
  BY <1>6, <1>7, <1>8

LEMMA BlankIsOp == Blank \in Op /\ NoName \in Name /\ \A o \in Owner, x \in Name : CheckOf(o, x) \in Op
<1>1. IP \in Owner /\ 0 \in Event \cup {0} /\ MaxSeen \in Nat /\ -1 \in -1 .. MaxSeen /\ 0 \in 0 .. MaxSeen
  BY UsageAssumption DEF Owner
<1>2. NoName \in Name
  BY <1>1 DEF NoName, Name
<1>3. Blank \in Op
  BY <1>1, <1>2 DEF Blank, Op, Phase
<1>4. ASSUME NEW o \in Owner, NEW x \in Name PROVE CheckOf(o, x) \in Op
  <2>1. Limit[o] \in Nat
    BY UsageAssumption
  <2> QED
    BY <1>1, <1>3, <2>1 DEF CheckOf, Blank, Op, Phase
<1> QED
  BY <1>2, <1>3, <1>4

\* More events may be saved.
LEMMA Later ==
  ASSUME NEW q, NEW f, NEW s, NEW t, s \subseteq t, QueueFits(q, f, s)
  PROVE  QueueFits(q, f, t)
BY DEF QueueFits, Meets

\* A check that waits.
LEMMA CheckFits ==
  ASSUME NEW op \in Op, op.kind = "check", op.phase = "queued", op.acts = {}, op.name # NoName,
         NEW f, NEW s, op.name[1] = "save" => op.name[2] \in s
  PROVE  /\ Shaped(op) /\ Meets(op, f, s)
         /\ \A p : p.name # op.name => Apart(p, op) /\ Apart(op, p)
<1>1. IsFiniteSet(op.acts)
  BY FS_EmptySet
<1> QED
  BY <1>1 DEF Shaped, Meets, Apart, EventsOf

LEMMA SaveStep ==
  ASSUME UsageIndInv, NEW e \in Event, Save(e), UNCHANGED upkeepVars
  PROVE  UsageIndInv' /\ IdleStep /\ EnforcedStep
<1>1. PICK o \in Owners(e) :
        queue' = queue \o << [Blank EXCEPT !.owner = o, !.event = e] >>
          \o (IF 10 * (owner[o].used + 1) > 9 * Limit[o]
                THEN << CheckOf(o, << "save", e, o >>) >> ELSE << >>)
  BY DEF Save
<1>2. e \notin saved /\ saved' = saved \cup {e} /\ UNCHANGED << of, owner, drift, seen, done, sweeps, stops >>
  BY DEF Save
<1>3. o \in Owner
  BY UsageAssumption DEF Owners, Owner
<1>4. /\ queue \in Seq(Op) /\ saved \subseteq Event /\ QueueFits(queue, of, saved)
      /\ \A d \in Event : of[d] # Gone => d \in saved
  BY DEF UsageIndInv, TypeOK
<1> DEFINE op == [Blank EXCEPT !.owner = o, !.event = e]
           check == CheckOf(o, << "save", e, o >>)
           q == queue \o << op >>
<1>5. /\ op \in Op /\ op.kind = "save" /\ op.event = e /\ op.name = NoName /\ op.phase = "queued"
      /\ op.acts = {}
  BY <1>3, BlankIsOp DEF Op, Blank
<1>6. << "save", e, o >> \in Name /\ << "save", e, o >> # NoName
  BY <1>3 DEF Name, NoName
<1>7. /\ check \in Op /\ check.kind = "check" /\ check.name = << "save", e, o >>
      /\ check.phase = "queued" /\ check.acts = {}
  BY <1>3, <1>6, BlankIsOp DEF CheckOf, Blank
<1> HIDE DEF op, check
<1>8. QueueFits(queue, of, saved')
  BY <1>2, <1>4, Later
<1>9. Shaped(op) /\ Meets(op, of, saved')
  <2>1. IsFiniteSet(op.acts)
    BY <1>5, FS_EmptySet
  <2>2. op.name[1] # "save"
    <3>1. NoName[1] = ""
      BY DEF NoName
    <3> QED
      BY <1>5, <3>1
  <2>3. of[e] = Gone
    BY <1>2, <1>4
  <2> QED
    BY <1>2, <1>5, <2>1, <2>2, <2>3 DEF Shaped, Meets, EventsOf
<1>10. \A m \in DOMAIN queue : Apart(queue[m], op) /\ Apart(op, queue[m])
  <2> SUFFICES ASSUME NEW m \in DOMAIN queue PROVE Apart(queue[m], op) /\ Apart(op, queue[m])
    OBVIOUS
  <2>1. Meets(queue[m], of, saved)
    BY <1>4 DEF QueueFits
  <2> QED
    BY <1>2, <1>5, <2>1 DEF Apart, Meets, EventsOf
<1>11. /\ q \in Seq(Op) /\ q = Append(queue, op) /\ QueueFits(q, of, saved')
       /\ InHand(q) = InHand(queue)
       /\ \A m \in DOMAIN queue : m \in DOMAIN q /\ q[m] = queue[m]
  <2>1. LET r == queue \o << op >> IN
         /\ r \in Seq(Op) /\ r = Append(queue, op)
         /\ QueueFits(r, of, saved')
         /\ InHand(r) = InHand(queue) \cup (IF op.phase = "queued" THEN {} ELSE {op})
         /\ \A m \in DOMAIN queue : m \in DOMAIN r /\ r[m] = queue[m]
    BY <1>4, <1>5, <1>8, <1>9, <1>10, Queued
  <2> QED
    BY <1>5, <2>1
<1>12. /\ queue' \in Seq(Op) /\ QueueFits(queue', of, saved') /\ InHand(queue') = InHand(queue)
       /\ \A m \in DOMAIN queue : m \in DOMAIN queue' /\ queue'[m] = queue[m]
  <2>1. CASE 10 * (owner[o].used + 1) > 9 * Limit[o]
    <3>1. queue' = q \o << check >>
      BY <1>1, <2>1 DEF op, check
    <3>2. Shaped(check) /\ Meets(check, of, saved') /\ \A p : p.name # check.name => Apart(p, check) /\ Apart(check, p)
      <4>1. check.name[1] = "save" => check.name[2] \in saved'
        BY <1>2, <1>7
      <4> QED
        BY <1>6, <1>7, <4>1, CheckFits
    <3>3. ASSUME NEW m \in DOMAIN q PROVE q[m].name # check.name
      <4>1. CASE m \in DOMAIN queue
        <5>1. Meets(queue[m], of, saved) /\ q[m] = queue[m]
          BY <1>4, <1>11, <4>1 DEF QueueFits
        <5> QED
          BY <1>2, <1>7, <5>1 DEF Meets
      <4>2. CASE m \notin DOMAIN queue
        <5>1. q[m] = op
          BY <1>4, <1>11, <4>2
        <5> QED
          BY <1>5, <1>6, <1>7, <5>1
      <4> QED
        BY <4>1, <4>2
    <3> HIDE DEF q
    <3>4. LET r == q \o << check >> IN
         /\ r \in Seq(Op) /\ r = Append(q, check)
         /\ QueueFits(r, of, saved')
         /\ InHand(r) = InHand(q) \cup (IF check.phase = "queued" THEN {} ELSE {check})
         /\ \A m \in DOMAIN q : m \in DOMAIN r /\ r[m] = q[m]
      BY <1>7, <1>11, <3>2, <3>3, Queued
    <3> QED
      BY <1>7, <1>11, <3>1, <3>4
  <2>2. CASE ~ (10 * (owner[o].used + 1) > 9 * Limit[o])
    <3>1. queue' = q \o << >>
      BY <1>1, <2>2 DEF op
    <3>2. q \o << >> = q
      BY <1>11
    <3> QED
      BY <1>11, <3>1, <3>2
  <2> QED
    BY <2>1, <2>2
<1>13. /\ saved \subseteq saved' /\ saved' \subseteq Event
       /\ seen' \in 0 .. MaxSeen /\ sweeps' \in 0 .. MaxSweeps /\ stops' \in 0 .. MaxStops
       /\ done' \in {"nothing", "charged", "queued", "cleared"}
       /\ DoneFits(InHand(queue), owner, done')
       /\ mode' \in {"relay", "resuming", "reconciling"} /\ listed' \subseteq Owner /\ unchecked' \subseteq Owner
       /\ (mode' = "reconciling" => InHand(queue) = {})
       /\ UNCHANGED << of, owner, drift >>
  BY <1>2 DEF UsageIndInv, TypeOK, upkeepVars
<1> QED
  BY <1>12, <1>13, Arrives

\* One operation is queued.
LEMMA OneArrives ==
  ASSUME UsageIndInv, NEW op \in Op, op.phase = "queued", Shaped(op), Meets(op, of, saved),
         \A m \in DOMAIN queue : Apart(queue[m], op) /\ Apart(op, queue[m]),
         queue' = Append(queue, op),
         seen' \in 0 .. MaxSeen, sweeps' \in 0 .. MaxSweeps,
         UNCHANGED << of, owner, saved, drift, done, stops, upkeepVars >>
  PROVE  UsageIndInv' /\ IdleStep /\ EnforcedStep
<1>1. queue \in Seq(Op) /\ QueueFits(queue, of, saved)
  BY DEF UsageIndInv, TypeOK
<1>2. LET r == queue \o << op >> IN
        /\ r \in Seq(Op) /\ r = Append(queue, op)
        /\ QueueFits(r, of, saved)
        /\ InHand(r) = InHand(queue) \cup (IF op.phase = "queued" THEN {} ELSE {op})
        /\ \A m \in DOMAIN queue : m \in DOMAIN r /\ r[m] = queue[m]
  BY <1>1, Queued
<1>3. /\ queue' \in Seq(Op) /\ QueueFits(queue', of, saved') /\ InHand(queue') = InHand(queue)
      /\ \A m \in DOMAIN queue : m \in DOMAIN queue' /\ queue'[m] = queue[m]
  BY <1>2
<1>4. /\ saved \subseteq saved' /\ saved' \subseteq Event
      /\ seen' \in 0 .. MaxSeen /\ sweeps' \in 0 .. MaxSweeps /\ stops' \in 0 .. MaxStops
      /\ done' \in {"nothing", "charged", "queued", "cleared"}
      /\ DoneFits(InHand(queue), owner, done')
      /\ mode' \in {"relay", "resuming", "reconciling"} /\ listed' \subseteq Owner /\ unchecked' \subseteq Owner
      /\ (mode' = "reconciling" => InHand(queue) = {})
      /\ UNCHANGED << of, owner, drift >>
  BY DEF UsageIndInv, TypeOK, upkeepVars
<1> QED
  BY <1>3, <1>4, Arrives

LEMMA RequestDeletionStep ==
  ASSUME UsageIndInv, NEW e \in Event, RequestDeletion(e), UNCHANGED upkeepVars
  PROVE  UsageIndInv' /\ IdleStep /\ EnforcedStep
<1> DEFINE a == [event |-> e, from |-> of[e], to |-> Gone]
           op == [Blank EXCEPT !.kind = "delete", !.name = << "delete", e, IP >>, !.acts = {a}]
<1>1. /\ e \in Deletable /\ of[e] # Gone /\ << "delete", e, IP >> \notin Names
      /\ queue' = Append(queue, op)
      /\ UNCHANGED << of, owner, saved, drift, seen, done, sweeps, stops >>
  BY DEF RequestDeletion
<1>2. of[e] \in Owner /\ e \in saved
  BY <1>1 DEF UsageIndInv, TypeOK
<1>3. a \in Act /\ a.event = e /\ a.from = of[e] /\ a.to = Gone
  BY <1>2 DEF Act
<1> HIDE DEF a
<1>4. << "delete", e, IP >> \in Name /\ << "delete", e, IP >> # NoName /\ << "delete", e, IP >>[1] # "save"
  BY DEF Name, NoName, Owner
<1>5. /\ op \in Op /\ op.kind = "delete" /\ op.name = << "delete", e, IP >>
      /\ op.phase = "queued" /\ op.acts = {a}
  BY <1>3, <1>4, BlankIsOp DEF Op, Blank
<1> HIDE DEF op
<1>6. Shaped(op)
  <2>1. IsFiniteSet(op.acts)
    BY <1>5, FS_Singleton
  <2>2. Gone \notin Owner
    BY UsageAssumption
  <2> QED
    BY <1>1, <1>2, <1>3, <1>4, <1>5, <2>1, <2>2 DEF Shaped
<1>7. Meets(op, of, saved) /\ EventsOf(op) = {e}
  BY <1>2, <1>3, <1>4, <1>5 DEF Meets, EventsOf
<1>8. ASSUME NEW m \in DOMAIN queue PROVE Apart(queue[m], op) /\ Apart(op, queue[m])
  <2>1. Meets(queue[m], of, saved)
    BY Operations
  <2>2. queue[m].name # op.name
    BY <1>1, <1>5 DEF Names
  <2> QED
    BY <1>1, <1>5, <1>7, <2>1, <2>2 DEF Apart, Meets
<1>9. seen' \in 0 .. MaxSeen /\ sweeps' \in 0 .. MaxSweeps
  BY <1>1 DEF UsageIndInv, TypeOK
<1> QED
  BY <1>1, <1>5, <1>6, <1>7, <1>8, <1>9, OneArrives

LEMMA TouchStep ==
  ASSUME UsageIndInv, Touch, UNCHANGED upkeepVars
  PROVE  UsageIndInv' /\ IdleStep /\ EnforcedStep
<1> DEFINE op == [Blank EXCEPT !.kind = "touch", !.stamp = seen + 1]
<1>1. /\ seen < MaxSeen /\ seen' = seen + 1
      /\ queue' = Append(queue, op)
      /\ UNCHANGED << of, owner, saved, drift, done, sweeps, stops >>
  BY DEF Touch
<1>2. seen' \in 0 .. MaxSeen /\ sweeps' \in 0 .. MaxSweeps
  BY <1>1, UsageAssumption DEF UsageIndInv, TypeOK
<1>3. /\ op \in Op /\ op.kind = "touch" /\ op.name = NoName /\ op.phase = "queued" /\ op.acts = {}
  BY <1>1, <1>2, BlankIsOp DEF Op, Blank
<1> HIDE DEF op
<1>4. NoName[1] # "save"
  BY DEF NoName
<1>5. Shaped(op) /\ Meets(op, of, saved)
  <2>1. IsFiniteSet(op.acts)
    BY <1>3, FS_EmptySet
  <2> QED
    BY <1>3, <1>4, <2>1 DEF Shaped, Meets, EventsOf
<1>6. \A m \in DOMAIN queue : Apart(queue[m], op) /\ Apart(op, queue[m])
  BY <1>3 DEF Apart, EventsOf
<1> QED
  BY <1>1, <1>2, <1>3, <1>5, <1>6, OneArrives

LEMMA SweepStep ==
  ASSUME UsageIndInv, Sweep, UNCHANGED upkeepVars
  PROVE  UsageIndInv' /\ IdleStep /\ EnforcedStep
<1> DEFINE x == << "stale", 0, IP >>
           op == [CheckOf(IP, x) EXCEPT !.limit = 0, !.cutoff = owner[IP].active]
<1>1. /\ sweeps < MaxSweeps /\ sweeps' = sweeps + 1 /\ queue' = Once(op)
      /\ UNCHANGED << of, owner, saved, drift, seen, done, stops >>
  BY DEF Sweep
<1>2. seen' \in 0 .. MaxSeen /\ sweeps' \in 0 .. MaxSweeps
  BY <1>1, UsageAssumption DEF UsageIndInv, TypeOK
<1>3. x \in Name /\ x # NoName /\ x[1] # "save"
  BY DEF Name, NoName, Owner
<1>4. op \in Op /\ op.kind = "check" /\ op.name = x /\ op.phase = "queued" /\ op.acts = {}
  <2>1. CheckOf(IP, x) \in Op
    BY <1>3, BlankIsOp DEF Owner
  <2>2. owner[IP].active \in 0 .. MaxSeen
    BY DEF UsageIndInv, TypeOK, Doc, Owner
  <2>3. owner[IP].active \in -1 .. MaxSeen
    BY <2>2, UsageAssumption
  <2>4. op \in Op
    BY <2>1, <2>3 DEF Op
  <2> QED
    BY <2>4 DEF CheckOf, Blank
<1> HIDE DEF op, x
<1>5. CASE op.name \in Names
  <2>1. queue' = queue
    BY <1>1, <1>5 DEF Once
  <2>2. /\ queue' \in Seq(Op) /\ QueueFits(queue', of, saved') /\ InHand(queue') = InHand(queue)
        /\ \A m \in DOMAIN queue : m \in DOMAIN queue' /\ queue'[m] = queue[m]
    BY <1>1, <2>1 DEF UsageIndInv, TypeOK
  <2>3. /\ saved \subseteq saved' /\ saved' \subseteq Event
        /\ stops' \in 0 .. MaxStops
        /\ done' \in {"nothing", "charged", "queued", "cleared"}
        /\ DoneFits(InHand(queue), owner, done')
        /\ mode' \in {"relay", "resuming", "reconciling"} /\ listed' \subseteq Owner /\ unchecked' \subseteq Owner
        /\ (mode' = "reconciling" => InHand(queue) = {})
        /\ UNCHANGED << of, owner, drift >>
    BY <1>1 DEF UsageIndInv, TypeOK, upkeepVars
  <2> QED
    BY <1>2, <2>2, <2>3, Arrives
<1>6. CASE op.name \notin Names
  <2>1. queue' = Append(queue, op)
    BY <1>1, <1>6 DEF Once
  <2>2. Shaped(op) /\ Meets(op, of, saved) /\ \A p : p.name # op.name => Apart(p, op) /\ Apart(op, p)
    BY <1>3, <1>4, CheckFits
  <2>3. \A m \in DOMAIN queue : Apart(queue[m], op) /\ Apart(op, queue[m])
    BY <1>6, <2>2 DEF Names
  <2> QED
    BY <1>1, <1>2, <1>4, <2>1, <2>2, <2>3, OneArrives
<1> QED
  BY <1>5, <1>6

\* Steps that leave the queue, the events and the owners alone.
LEMMA Unmoved ==
  ASSUME UsageIndInv, stops' \in 0 .. MaxStops,
         done' \in {"nothing", done},
         mode' \in {"relay", "resuming", "reconciling"}, listed' \subseteq Owner /\ unchecked' \subseteq Owner,
         mode' = "reconciling" => InHand(queue) = {},
         UNCHANGED << of, owner, queue, saved, drift, seen, sweeps >>
  PROVE  UsageIndInv' /\ IdleStep /\ EnforcedStep
<1>1. /\ queue' \in Seq(Op) /\ QueueFits(queue', of, saved') /\ InHand(queue') = InHand(queue)
      /\ \A m \in DOMAIN queue : m \in DOMAIN queue' /\ queue'[m] = queue[m]
  BY DEF UsageIndInv, TypeOK
<1>2. DoneFits(InHand(queue), owner, done')
  BY DEF UsageIndInv, DoneFits
<1>3. /\ saved \subseteq saved' /\ saved' \subseteq Event
      /\ seen' \in 0 .. MaxSeen /\ sweeps' \in 0 .. MaxSweeps
      /\ done' \in {"nothing", "charged", "queued", "cleared"}
      /\ UNCHANGED << of, owner, drift >>
  BY DEF UsageIndInv, TypeOK
<1> QED
  BY <1>1, <1>2, <1>3, Arrives

LEMMA StopStep ==
  ASSUME UsageIndInv, (Stop /\ UNCHANGED upkeepVars) \/ Halt \/ EndResume \/ Restart
  PROVE  UsageIndInv' /\ IdleStep /\ EnforcedStep
<1>1. /\ stops \in 0 .. MaxStops /\ MaxStops \in Nat /\ listed \subseteq Owner /\ unchecked \subseteq Owner
      /\ mode \in {"relay", "resuming", "reconciling"}
      /\ mode = "reconciling" => InHand(queue) = {}
  BY UsageAssumption DEF UsageIndInv, TypeOK
<1>2. CASE Stop /\ UNCHANGED upkeepVars
  <2>1. /\ stops' \in 0 .. MaxStops /\ done' \in {"nothing", done} /\ mode' = mode /\ listed' = listed /\ unchecked' = unchecked
        /\ UNCHANGED << of, owner, queue, saved, drift, seen, sweeps >>
    BY <1>1, <1>2 DEF Stop, upkeepVars
  <2> QED
    BY <1>1, <2>1, Unmoved
<1>3. CASE Halt
  <2>1. /\ stops' \in 0 .. MaxStops /\ done' \in {"nothing", done} /\ mode' = "resuming" /\ listed' = listed /\ unchecked' = unchecked
        /\ UNCHANGED << of, owner, queue, saved, drift, seen, sweeps >>
    BY <1>1, <1>3 DEF Halt
  <2> QED
    BY <1>1, <2>1, Unmoved
<1>4. CASE EndResume
  <2>1. /\ stops' \in 0 .. MaxStops /\ done' \in {"nothing", done} /\ mode' = "reconciling"
        /\ listed' \subseteq Owner /\ unchecked' = unchecked
        /\ UNCHANGED << of, owner, queue, saved, drift, seen, sweeps >>
    BY <1>1, <1>4 DEF EndResume
  <2>2. InHand(queue) = {}
    BY <1>4 DEF EndResume, StartedWorkflows, Started, InHand
  <2> QED
    BY <1>1, <2>1, <2>2, Unmoved
<1>5. CASE Restart
  <2>1. /\ stops' \in 0 .. MaxStops /\ done' \in {"nothing", done} /\ mode' = "relay" /\ listed' = {} /\ unchecked' = unchecked
        /\ UNCHANGED << of, owner, queue, saved, drift, seen, sweeps >>
    BY <1>1, <1>5 DEF Restart
  <2> QED
    BY <1>1, <2>1, Unmoved
<1> QED
  BY <1>2, <1>3, <1>4, <1>5

-------------------------------------------------------------------------------
(***************************************************************************)
(* Checks for those who were given events                                  *)
(***************************************************************************)
LEMMA Listed ==
  ASSUME NEW S, IsFiniteSet(S)
  PROVE  /\ Cardinality(S) \in Nat
         /\ SetToSeq(S) \in [1 .. Cardinality(S) -> S]
         /\ \A i, j \in 1 .. Cardinality(S) : SetToSeq(S)[i] = SetToSeq(S)[j] => i = j
<1>1. Cardinality(S) \in Nat /\ ExistsBijection(1 .. Cardinality(S), S)
  BY FS_CardinalityType
<1>2. \E g \in [1 .. Cardinality(S) -> S] : IsInjective(g)
  BY <1>1 DEF ExistsBijection, Bijection, Injection
<1>3. SetToSeq(S) \in [1 .. Cardinality(S) -> S] /\ IsInjective(SetToSeq(S))
  BY <1>2 DEF SetToSeq
<1> QED
  BY <1>1, <1>3 DEF IsInjective

LEMMA QueueDestinationsStep ==
  ASSUME UsageIndInv, NEW n \in DOMAIN queue, Turn(n), QueueDestinations(n), UNCHANGED upkeepVars
  PROVE  UsageIndInv' /\ IdleStep /\ EnforcedStep
<1> DEFINE x(o) == << "target", 0, o >>
           check(o) == CheckOf(o, x(o))
           targets == {a.to : a \in Moving(queue[n])}
           new == {o \in targets : check(o).name \notin Names}
           c == Cardinality(new)
           items == [i \in 1 .. c |-> check(SetToSeq(new)[i])]
<1>1. /\ queue[n].phase = "accounting_applied" /\ queue[n].kind = "check" /\ done = "nothing"
      /\ queue' = queue \o items /\ done' = "queued"
      /\ UNCHANGED << of, owner, saved, drift, seen, sweeps, stops >>
  BY DEF QueueDestinations, In
<1>2. IsFiniteSet(new) /\ new \subseteq Owner
  <2> DEFINE A == Moving(queue[n])
             g == [a \in A |-> a.to]
  <2>1. IsFiniteSet(A)
    <3>1. IsFiniteSet(queue[n].acts) /\ A \in SUBSET queue[n].acts
      BY Operations DEF Shaped, Moving
    <3> QED
      BY <3>1, FS_Subset
  <2>2. g \in Surjection(A, targets)
    BY DEF Surjection
  <2>3. IsFiniteSet(targets)
    <3> HIDE DEF g, targets, A
    <3> QED
      BY <2>1, <2>2, FS_Surjection
  <2>4. new \in SUBSET targets
    OBVIOUS
  <2>5. targets \subseteq Owner
    BY Operations DEF Moving, Op, Act, Owner
  <2> HIDE DEF targets, new
  <2> QED
    BY <2>3, <2>4, <2>5, FS_Subset
<1> DEFINE ord == SetToSeq(new)
<1>3. \A o \in new : check(o).name \notin Names
  OBVIOUS
<1> HIDE DEF new
<1>4. /\ c \in Nat /\ ord \in [1 .. c -> new]
      /\ \A i, j \in 1 .. c : ord[i] = ord[j] => i = j
  BY <1>2, Listed
<1>5. \A o \in Owner : x(o) \in Name /\ x(o) # NoName /\ x(o)[1] # "save"
  BY DEF Name, NoName
<1>6. \A o, p : x(o) = x(p) => o = p
  OBVIOUS
<1> HIDE DEF x
<1>7. \A o \in Owner : /\ check(o) \in Op /\ check(o).kind = "check" /\ check(o).name = x(o)
                       /\ check(o).phase = "queued" /\ check(o).acts = {}
  <2> SUFFICES ASSUME NEW o \in Owner
               PROVE  /\ check(o) \in Op /\ check(o).kind = "check" /\ check(o).name = x(o)
                      /\ check(o).phase = "queued" /\ check(o).acts = {}
    OBVIOUS
  <2> QED
    BY <1>5, BlankIsOp DEF CheckOf, Blank
<1> HIDE DEF check, c, ord
<1>8. /\ items \in Seq(Op) /\ DOMAIN items = 1 .. c
      /\ \A i \in 1 .. c : ord[i] \in Owner /\ ord[i] \in new /\ items[i] = check(ord[i])
  <2>1. \A i \in 1 .. c : ord[i] \in new /\ ord[i] \in Owner
    BY <1>2, <1>4
  <2>2. \A i \in 1 .. c : items[i] = check(ord[i])
    BY DEF ord
  <2>3. items \in [1 .. c -> Op]
    BY <1>7, <2>1 DEF ord
  <2> QED
    BY <1>4, <2>1, <2>2, <2>3
<1> HIDE DEF items
<1>9. ASSUME NEW o \in Owner
      PROVE  /\ Shaped(check(o)) /\ Meets(check(o), of, saved)
             /\ \A p : p.name # check(o).name => Apart(p, check(o)) /\ Apart(check(o), p)
  <2>1. check(o).name # NoName /\ (check(o).name[1] = "save" => check(o).name[2] \in saved)
    BY <1>5, <1>7
  <2>2. check(o) \in Op /\ check(o).kind = "check" /\ check(o).phase = "queued" /\ check(o).acts = {}
    BY <1>7
  <2> QED
    BY <2>1, <2>2, CheckFits
<1>10. QueueFits(items, of, saved)
  <2>1. \A i \in DOMAIN items : Shaped(items[i]) /\ Meets(items[i], of, saved)
    BY <1>8, <1>9
  <2>2. ASSUME NEW i \in DOMAIN items, NEW j \in DOMAIN items, i # j PROVE Apart(items[i], items[j])
    <3>1. ord[i] # ord[j]
      BY <1>4, <1>8, <2>2
    <3>2. items[i].name # items[j].name
      BY <1>6, <1>7, <1>8, <3>1
    <3> QED
      BY <1>8, <1>9, <3>2
  <2> QED
    BY <2>1, <2>2 DEF QueueFits
<1>11. \A m \in DOMAIN queue, k \in DOMAIN items : Apart(queue[m], items[k]) /\ Apart(items[k], queue[m])
  <2> SUFFICES ASSUME NEW m \in DOMAIN queue, NEW k \in DOMAIN items
               PROVE  Apart(queue[m], items[k]) /\ Apart(items[k], queue[m])
    OBVIOUS
  <2>1. items[k].name \notin Names
    BY <1>3, <1>8
  <2>2. queue[m].name # items[k].name
    BY <2>1 DEF Names
  <2> QED
    BY <1>8, <1>9, <2>2
<1>12. InHand(items) = {}
  BY <1>7, <1>8 DEF InHand
<1>13. queue \in Seq(Op) /\ QueueFits(queue, of, saved)
  BY DEF UsageIndInv, TypeOK
<1>14. /\ queue \o items \in Seq(Op)
       /\ QueueFits(queue \o items, of, saved)
       /\ InHand(queue \o items) = InHand(queue) \cup InHand(items)
       /\ \A m \in DOMAIN queue : m \in DOMAIN (queue \o items) /\ (queue \o items)[m] = queue[m]
  BY <1>8, <1>10, <1>11, <1>13, Joined
<1>15. /\ queue' \in Seq(Op) /\ QueueFits(queue', of, saved') /\ InHand(queue') = InHand(queue)
       /\ \A m \in DOMAIN queue : m \in DOMAIN queue' /\ queue'[m] = queue[m]
  BY <1>1, <1>12, <1>14
<1>16. InHand(queue) = {queue[n]}
  BY <1>1, TurnTaken
<1>17. DoneFits(InHand(queue), owner, done')
  BY <1>1, <1>16 DEF DoneFits
<1>18. /\ saved \subseteq saved' /\ saved' \subseteq Event
       /\ seen' \in 0 .. MaxSeen /\ sweeps' \in 0 .. MaxSweeps /\ stops' \in 0 .. MaxStops
       /\ done' \in {"nothing", "charged", "queued", "cleared"}
       /\ mode' \in {"relay", "resuming", "reconciling"} /\ listed' \subseteq Owner /\ unchecked' \subseteq Owner
       /\ (mode' = "reconciling" => InHand(queue) = {})
       /\ UNCHANGED << of, owner, drift >>
  BY <1>1 DEF UsageIndInv, TypeOK, upkeepVars
<1> QED
  BY <1>15, <1>17, <1>18, Arrives

-------------------------------------------------------------------------------
(***************************************************************************)
(* Phases: the operation whose turn it is changes                          *)
(***************************************************************************)
LEMMA Patching ==
  ASSUME UsageIndInv, NEW n \in DOMAIN queue, Turn(n), mode # "reconciling",
         NEW op \in Op, Shaped(op), Meets(op, of, saved),
         op.name = queue[n].name, op.kind = queue[n].kind, op.kind \in {"check", "delete"},
         \A e \in EventsOf(op) : e \in EventsOf(queue[n]) \/ of[e] # Gone,
         queue' = ReplaceAt(queue, n, op),
         done' \in {"nothing", "charged", "queued", "cleared"},
         NEW h, h = (IF op.phase = "queued" THEN {} ELSE {op}),
         Balanced(h, of, owner, drift), TokensFit(h, owner), DoneFits(h, owner, done'),
         UNCHANGED << of, owner, saved, drift, seen, sweeps, stops, upkeepVars >>
  PROVE  UsageIndInv' /\ IdleStep /\ EnforcedStep
<1>1. queue \in Seq(Op) /\ QueueFits(queue, of, saved)
  BY DEF UsageIndInv, TypeOK
<1>2. ASSUME NEW m \in DOMAIN queue, queue[m].kind = "save" PROVE queue[m].event \notin EventsOf(op)
  <2>1. Apart(queue[m], queue[n])
    BY <1>1, <1>2 DEF QueueFits
  <2>2. of[queue[m].event] = Gone
    BY <1>1, <1>2 DEF QueueFits, Meets
  <2> QED
    BY <1>2, <2>1, <2>2 DEF Apart
<1>3. InHand(queue) = {} \/ queue[n].phase # "queued"
  BY TurnTaken
<1>4. /\ queue' \in Seq(Op) /\ DOMAIN queue' = DOMAIN queue
      /\ \A m \in DOMAIN queue : queue'[m] = IF m = n THEN op ELSE queue[m]
      /\ QueueFits(queue', of, saved)
      /\ InHand(queue') = h
  BY <1>1, <1>2, <1>3, Patched
<1>5. QueueFits(queue', of', saved')
  BY <1>4
<1>6. Typed'
  BY DEF UsageIndInv, TypeOK, Typed, upkeepVars
<1>7. TypeOK'
  BY <1>4, <1>5, <1>6 DEF QueueFits, Apart, Typed, TypeOK
<1>8. (\A e \in Event : of[e] # Gone => e \in saved)'
  BY DEF UsageIndInv
<1>9. /\ Balanced(InHand(queue'), of', owner', drift')
      /\ TokensFit(InHand(queue'), owner')
      /\ DoneFits(InHand(queue'), owner', done')
  BY <1>4
<1>10. mode' # "reconciling"
  BY DEF upkeepVars
<1>11. UsageIndInv'
  BY <1>5, <1>7, <1>8, <1>9, <1>10 DEF UsageIndInv
<1>12. IdleStep
  BY DEF IdleStep
<1>13. EnforcedStep
  <2>1. \A m \in DOMAIN queue : m \in DOMAIN queue' /\ queue'[m].name = queue[m].name
    BY <1>4
  <2> QED
    BY <2>1 DEF EnforcedStep
<1> QED
  BY <1>11, <1>12, <1>13

\* Where nothing is in hand, no token is left.
LEMMA NothingInHand ==
  ASSUME UsageIndInv, InHand(queue) = {}
  PROVE  /\ done = "nothing"
         /\ \A o \in Owner : owner[o].tokens = {} /\ owner[o].used = Cardinality(Has(o, of)) + drift[o]
                             /\ (~ owner[o].there => owner[o] = NoDoc)
BY DEF UsageIndInv, TokensFit, Balanced, DoneFits

\* A workflow begins: nothing has been done to the events it selected.
LEMMA Begins ==
  ASSUME UsageIndInv, InHand(queue) = {}, NEW op \in Op, \A a \in op.acts : of[a.event] = a.from
  PROVE  /\ Balanced({op}, of, owner, drift) /\ TokensFit({op}, owner)
         /\ DoneFits({op}, owner, "nothing")
<1>1. ASSUME NEW o \in Owner PROVE Had(op, o, of) = Has(o, of)
  BY DEF Had, Has, EventsOf
<1>2. Balanced({op}, of, owner, drift)
  BY <1>1, NothingInHand DEF Balanced
<1>3. TokensFit({op}, owner)
  BY NothingInHand DEF TokensFit
<1>4. DoneFits({op}, owner, "nothing")
  BY DEF DoneFits
<1> QED
  BY <1>2, <1>3, <1>4

LEMMA FiniteImage ==
  ASSUME NEW S, IsFiniteSet(S), NEW g, DOMAIN g = S
  PROVE  IsFiniteSet({g[x] : x \in S})
<1> DEFINE T == {g[x] : x \in S}
           k == [x \in S |-> g[x]]
<1>1. k \in Surjection(S, T)
  BY DEF Surjection
<1> HIDE DEF k, T
<1>2. IsFiniteSet(T)
  BY <1>1, FS_Surjection
<1> QED
  BY <1>2 DEF T

\* The acts that give each of some events of one owner a fate.
LEMMA Selected ==
  ASSUME NEW o \in Owner, NEW D \in SUBSET Event, NEW g \in [D -> Author \cup {Gone}],
         NEW acts, acts = {[event |-> e, from |-> o, to |-> g[e]] : e \in D}
  PROVE  /\ acts \subseteq Act /\ IsFiniteSet(acts)
         /\ \A a, b \in acts : a.event = b.event => a = b
         /\ \A a \in acts : a.event \in D /\ a.from = o /\ a.to = g[a.event]
<1> DEFINE k == [e \in D |-> [event |-> e, from |-> o, to |-> g[e]]]
<1>1. IsFiniteSet(D)
  BY FiniteEvents
<1>2. IsFiniteSet({k[e] : e \in D})
  <2>1. DOMAIN k = D
    OBVIOUS
  <2> HIDE DEF k
  <2> QED
    BY <1>1, <2>1, FiniteImage
<1>3. acts = {k[e] : e \in D}
  OBVIOUS
<1>4. acts \subseteq Act
  BY DEF Act
<1> QED
  BY <1>2, <1>3, <1>4

LEMMA Selects ==
  ASSUME of \in [Event -> Owner \cup {Gone}], NEW o \in Owner, NEW acts \in Selections(o)
  PROVE  /\ acts \subseteq Act /\ IsFiniteSet(acts)
         /\ \A a, b \in acts : a.event = b.event => a = b
         /\ \A a \in acts : /\ of[a.event] = a.from /\ a.from = o /\ a.from # a.to
                            /\ (a.to # Gone => a.from = IP /\ By[a.event] = a.to /\ a.to \in Rising)
<1> DEFINE chunks == Stored(o) \cap Chunk
           act(e, t) == [event |-> e, from |-> o, to |-> t]
           fates(e) == IF o = IP /\ By[e] \in Rising THEN {By[e], Gone} ELSE {Gone}
<1>1. Gone \notin Owner /\ IP \notin Author /\ By \in [Event -> Author]
  BY UsageAssumption
<1>2. PICK D, g :
        /\ D \in SUBSET Stored(o) /\ g \in [D -> Author \cup {Gone}]
        /\ acts = {act(e, g[e]) : e \in D} /\ \A e \in D : g[e] \in fates(e)
  <2>1. CASE chunks # {}
    <3> DEFINE D == Oldest(chunks)
               g == [e \in D |-> Gone]
    <3>1. acts = {act(e, Gone) : e \in D}
      BY <2>1 DEF Selections
    <3>2. D \in SUBSET Stored(o)
      BY DEF Oldest
    <3> HIDE DEF D
    <3>3. g \in [D -> Author \cup {Gone}] /\ acts = {act(e, g[e]) : e \in D} /\ \A e \in D : g[e] \in fates(e)
      BY <3>1
    <3> QED
      BY <3>2, <3>3
  <2>2. CASE chunks = {}
    <3> DEFINE D == Oldest(Stored(o))
    <3>1. PICK g \in {k \in [D -> Author \cup {Gone}] : \A e \in DOMAIN k : k[e] \in fates(e)} :
            acts = {act(e, g[e]) : e \in D}
      BY <2>2 DEF Selections
    <3>2. D \in SUBSET Stored(o)
      BY DEF Oldest
    <3> HIDE DEF D
    <3> QED
      BY <3>1, <3>2
  <2> QED
    BY <2>1, <2>2
<1>3. D \in SUBSET Event /\ \A e \in D : of[e] = o
  BY <1>2 DEF Stored
<1>4. /\ acts \subseteq Act /\ IsFiniteSet(acts)
      /\ \A a, b \in acts : a.event = b.event => a = b
      /\ \A a \in acts : a.event \in D /\ a.from = o /\ a.to = g[a.event]
  BY <1>2, <1>3, Selected
<1>5. ASSUME NEW a \in acts
      PROVE  /\ of[a.event] = a.from /\ a.from = o /\ a.from # a.to
             /\ (a.to # Gone => a.from = IP /\ By[a.event] = a.to /\ a.to \in Rising)
  <2>1. a.event \in D /\ a.event \in Event /\ a.from = o /\ a.to \in fates(a.event) /\ of[a.event] = o
    BY <1>2, <1>3, <1>4
  <2> QED
    BY <1>1, <2>1
<1> QED
  BY <1>4, <1>5

LEMMA PrepareCheckStep ==
  ASSUME UsageIndInv, NEW n \in DOMAIN queue, Turn(n), mode # "reconciling",
         PrepareCheck(n), UNCHANGED upkeepVars
  PROVE  UsageIndInv' /\ IdleStep /\ EnforcedStep
<1>1. queue[n] \in Op /\ Shaped(queue[n]) /\ Meets(queue[n], of, saved)
  BY Operations
<1>2. PICK acts \in Selections(queue[n].owner) :
        queue' = ReplaceAt(queue, n, [queue[n] EXCEPT !.phase = "prepared", !.acts = acts, !.begun = TRUE])
  BY DEF PrepareCheck, Patch
<1>3. /\ queue[n].kind = "check" /\ queue[n].phase = "queued"
      /\ UNCHANGED << of, owner, saved, drift, seen, done, sweeps, stops >>
  BY DEF PrepareCheck, Needed, Checking
<1>4. InHand(queue) = {} /\ done = "nothing"
  BY <1>3, TurnTaken, NothingInHand
<1> DEFINE op == [queue[n] EXCEPT !.phase = "prepared", !.acts = acts, !.begun = TRUE]
<1>5. of \in [Event -> Owner \cup {Gone}] /\ \A e \in Event : of[e] # Gone => e \in saved
  BY DEF UsageIndInv, TypeOK
<1>6. queue[n].owner \in Owner
  BY <1>1 DEF Op
<1>7. /\ acts \subseteq Act /\ IsFiniteSet(acts)
      /\ \A a, b \in acts : a.event = b.event => a = b
      /\ \A a \in acts : /\ of[a.event] = a.from /\ a.from = queue[n].owner /\ a.from # a.to
                         /\ (a.to # Gone => a.from = IP /\ By[a.event] = a.to /\ a.to \in Rising)
  BY <1>5, <1>6, Selects
<1>8. /\ op \in Op /\ op.kind = "check" /\ op.name = queue[n].name
      /\ op.phase = "prepared" /\ op.acts = acts
  BY <1>1, <1>3, <1>7 DEF Op, Phase
<1> HIDE DEF op
<1>9. Shaped(op)
  BY <1>1, <1>3, <1>7, <1>8 DEF Shaped
<1>10. \A a \in op.acts : of[a.event] # Gone /\ a.event \in saved /\ of[a.event] = a.from
  <2>1. Gone \notin Owner
    BY UsageAssumption
  <2> QED
    BY <1>5, <1>6, <1>7, <1>8, <2>1 DEF Act
<1>11. Meets(op, of, saved)
  BY <1>1, <1>8, <1>10 DEF Meets, EventsOf
<1>12. \A e \in EventsOf(op) : e \in EventsOf(queue[n]) \/ of[e] # Gone
  BY <1>10 DEF EventsOf
<1>13. /\ Balanced({op}, of, owner, drift) /\ TokensFit({op}, owner)
       /\ DoneFits({op}, owner, "nothing")
  BY <1>4, <1>8, <1>10, Begins
<1>14. {op} = (IF op.phase = "queued" THEN {} ELSE {op})
  BY <1>8
<1>15. queue' = ReplaceAt(queue, n, op) /\ done' = "nothing"
  BY <1>2, <1>3, <1>4 DEF op
<1>16. DoneFits({op}, owner, done') /\ done' \in {"nothing", "charged", "queued", "cleared"}
  BY <1>13, <1>15
<1>17. op.name = queue[n].name /\ op.kind = queue[n].kind /\ op.kind \in {"check", "delete"}
  BY <1>3, <1>8
<1> QED
  BY <1>3, <1>8, <1>9, <1>11, <1>12, <1>13, <1>14, <1>15, <1>16, <1>17, Patching

LEMMA PrepareDeletionStep ==
  ASSUME UsageIndInv, NEW n \in DOMAIN queue, Turn(n), mode # "reconciling",
         PrepareDeletion(n), UNCHANGED upkeepVars
  PROVE  UsageIndInv' /\ IdleStep /\ EnforcedStep
<1> DEFINE acts == {a \in queue[n].acts : of[a.event] # Gone}
           op == [queue[n] EXCEPT !.phase = "prepared", !.acts = acts]
<1>1. queue[n] \in Op /\ Shaped(queue[n]) /\ Meets(queue[n], of, saved)
  BY Operations
<1>2. /\ queue[n].kind = "delete" /\ queue[n].phase = "queued"
      /\ queue' = ReplaceAt(queue, n, op)
      /\ UNCHANGED << of, owner, saved, drift, seen, done, sweeps, stops >>
  BY DEF PrepareDeletion, Patch
<1>3. InHand(queue) = {} /\ done = "nothing"
  BY <1>2, TurnTaken, NothingInHand
<1>4. acts \subseteq queue[n].acts /\ \A a \in acts : of[a.event] # Gone
  OBVIOUS
<1>5. IsFiniteSet(acts)
  BY <1>1, <1>4, FS_Subset DEF Shaped
<1> HIDE DEF acts
<1>6. /\ op \in Op /\ op.kind = "delete" /\ op.name = queue[n].name
      /\ op.phase = "prepared" /\ op.acts = acts
  BY <1>1, <1>2, <1>4 DEF Op, Phase
<1> HIDE DEF op
<1>7. Shaped(op)
  BY <1>1, <1>2, <1>4, <1>5, <1>6 DEF Shaped
<1>8. \A a \in op.acts : of[a.event] = a.from
  BY <1>1, <1>2, <1>4, <1>6 DEF Meets, Shaped
<1>9. Meets(op, of, saved)
  BY <1>1, <1>4, <1>6, <1>8 DEF Meets, EventsOf
<1>10. \A e \in EventsOf(op) : e \in EventsOf(queue[n]) \/ of[e] # Gone
  BY <1>4, <1>6 DEF EventsOf
<1>11. /\ Balanced({op}, of, owner, drift) /\ TokensFit({op}, owner)
       /\ DoneFits({op}, owner, "nothing")
  BY <1>3, <1>6, <1>8, Begins
<1>12. {op} = (IF op.phase = "queued" THEN {} ELSE {op})
  BY <1>6
<1>13. done' \in {"nothing", "charged", "queued", "cleared"} /\ DoneFits({op}, owner, done')
  BY <1>2, <1>3, <1>11
<1>14. op.name = queue[n].name /\ op.kind = queue[n].kind /\ op.kind \in {"check", "delete"}
  BY <1>2, <1>6
<1> QED
  BY <1>2, <1>6, <1>7, <1>9, <1>10, <1>11, <1>12, <1>13, <1>14, Patching

\* The workflow in hand, and whose the tokens are.
LEMMA OneInHand ==
  ASSUME UsageIndInv, NEW n \in DOMAIN queue, Turn(n), queue[n].phase # "queued"
  PROVE  /\ queue[n].kind \in {"check", "delete"}
         /\ InHand(queue) = {queue[n]}
         /\ \A o \in Owner : \A t \in owner[o].tokens :
              /\ t = Token(queue[n]) /\ Delta(queue[n], o) # 0
              /\ queue[n].phase \in {"events_applied", "accounting_applied"}
         /\ DoneFits({queue[n]}, owner, done)
<1>1. InHand(queue) = {queue[n]}
  BY TurnTaken
<1>2. queue[n].kind \in {"check", "delete"}
  BY Operations DEF Op, Shaped
<1>3. TokensFit({queue[n]}, owner) /\ DoneFits({queue[n]}, owner, done)
  BY <1>1 DEF UsageIndInv
<1> QED
  BY <1>1, <1>2, <1>3 DEF TokensFit

LEMMA EventsAppliedStep ==
  ASSUME UsageIndInv, NEW n \in DOMAIN queue, Turn(n), mode # "reconciling",
         EventsApplied(n), UNCHANGED upkeepVars
  PROVE  UsageIndInv' /\ IdleStep /\ EnforcedStep
<1> DEFINE old == queue[n]
           now(a) == [a EXCEPT !.to = IF of[a.event] = Gone THEN Gone ELSE @]
           acts == {now(a) : a \in old.acts}
           op == [old EXCEPT !.phase = "events_applied", !.acts = acts]
<1>1. old \in Op /\ Shaped(old) /\ Meets(old, of, saved)
  BY Operations
<1>2. /\ old.phase = "prepared" /\ queue' = ReplaceAt(queue, n, op)
      /\ \A a \in old.acts : IF a.to = Gone THEN of[a.event] = Gone ELSE of[a.event] # IP
      /\ UNCHANGED << of, owner, saved, drift, seen, done, sweeps, stops >>
  BY DEF EventsApplied, Patch, In
<1>3. /\ old.kind \in {"check", "delete"}
      /\ InHand(queue) = {old}
      /\ \A o \in Owner : owner[o].tokens = {}
      /\ Balanced({old}, of, owner, drift)
      /\ done = "nothing"
  <2>1. /\ old.kind \in {"check", "delete"} /\ InHand(queue) = {old} /\ DoneFits({old}, owner, done)
        /\ \A o \in Owner : \A t \in owner[o].tokens : old.phase \in {"events_applied", "accounting_applied"}
    BY <1>2, OneInHand
  <2>2. done \in {"nothing", "charged", "queued", "cleared"} /\ Balanced(InHand(queue), of, owner, drift)
    BY DEF UsageIndInv, TypeOK
  <2> QED
    BY <1>2, <2>1, <2>2 DEF DoneFits
<1> HIDE DEF old
<1>4. \A a \in old.acts : /\ a \in Act /\ now(a) \in Act /\ now(a).event = a.event /\ now(a).from = a.from
                          /\ of[a.event] = now(a).to /\ now(a).to \in {a.to, Gone}
  <2> SUFFICES ASSUME NEW a \in old.acts
               PROVE  /\ a \in Act /\ now(a) \in Act /\ now(a).event = a.event /\ now(a).from = a.from
                      /\ of[a.event] = now(a).to /\ now(a).to \in {a.to, Gone}
    OBVIOUS
  <2>1. a \in Act
    BY <1>1 DEF Op
  <2>2. of[a.event] \in {a.from, a.to} /\ (a.to # Gone => a.from = IP)
    BY <1>1, <1>2 DEF Meets, Shaped
  <2>3. of[a.event] = IF of[a.event] = Gone THEN Gone ELSE a.to
    BY <1>2, <2>2
  <2> QED
    BY <2>1, <2>3 DEF Act
<1>5. IsFiniteSet(acts)
  <2> DEFINE k == [a \in old.acts |-> now(a)]
  <2>1. IsFiniteSet(old.acts) /\ DOMAIN k = old.acts
    BY <1>1 DEF Shaped
  <2>2. acts = {k[a] : a \in old.acts}
    OBVIOUS
  <2> HIDE DEF k, acts
  <2> QED
    BY <2>1, <2>2, FiniteImage
<1>6. \A b \in acts : \E a \in old.acts : b = now(a)
  OBVIOUS
<1>7. \A a \in old.acts : now(a) \in acts
  OBVIOUS
<1> HIDE DEF now, acts
<1>8. /\ op \in Op /\ op.kind = old.kind /\ op.name = old.name
      /\ op.phase = "events_applied" /\ op.acts = acts
  <2>1. acts \in SUBSET Act
    BY <1>4, <1>6
  <2> QED
    BY <1>1, <2>1 DEF Op, Phase
<1> HIDE DEF op
<1>9. Shaped(op)
  <2>1. ASSUME NEW a \in acts, NEW b \in acts, a.event = b.event PROVE a = b
    <3>1. PICK x \in old.acts, y \in old.acts : a = now(x) /\ b = now(y)
      BY <1>6
    <3>2. x = y
      BY <1>1, <1>4, <2>1, <3>1 DEF Shaped
    <3> QED
      BY <3>1, <3>2
  <2>2. ASSUME NEW a \in acts
        PROVE  /\ a.from # a.to /\ (a.to # Gone => a.from = IP /\ By[a.event] = a.to /\ a.to \in Rising)
               /\ (old.kind = "delete" => a.to = Gone /\ a.event \in Deletable)
    <3>1. PICK x \in old.acts : a = now(x)
      BY <1>6
    <3>2. x.from # Gone
      BY <1>4, <3>1, UsageAssumption DEF Act
    <3>3. a.event = x.event /\ a.from = x.from /\ a.to \in {x.to, Gone}
      BY <1>4, <3>1
    <3> QED
      BY <1>1, <3>2, <3>3 DEF Shaped
  <2> QED
    BY <1>1, <1>3, <1>5, <1>8, <2>1, <2>2 DEF Shaped
<1>10. EventsOf(op) = EventsOf(old)
  BY <1>4, <1>6, <1>7, <1>8 DEF EventsOf
<1>11. Meets(op, of, saved)
  BY <1>1, <1>3, <1>4, <1>6, <1>8, <1>10 DEF Meets
<1>12. ASSUME NEW o \in Owner PROVE Had(op, o, of) = Had(old, o, of)
  <2>1. ASSUME NEW e \in Event
        PROVE (\E a \in op.acts : a.event = e /\ a.from = o) <=> (\E a \in old.acts : a.event = e /\ a.from = o)
    BY <1>4, <1>6, <1>7, <1>8
  <2> QED
    BY <1>10, <2>1 DEF Had
<1>13. Balanced({op}, of, owner, drift)
  BY <1>2, <1>3, <1>8, <1>12 DEF Balanced, Unsettled
<1>14. TokensFit({op}, owner) /\ DoneFits({op}, owner, done')
  BY <1>2, <1>3 DEF TokensFit, DoneFits
<1>15. {op} = (IF op.phase = "queued" THEN {} ELSE {op})
  BY <1>8
<1>16. done' \in {"nothing", "charged", "queued", "cleared"}
  BY <1>2, <1>3
<1>17. op.name = queue[n].name /\ op.kind = queue[n].kind /\ op.kind \in {"check", "delete"}
  BY <1>3, <1>8 DEF old
<1>18. \A e \in EventsOf(op) : e \in EventsOf(queue[n]) \/ of[e] # Gone
  BY <1>10 DEF old
<1> QED
  BY <1>2, <1>8, <1>9, <1>11, <1>13, <1>14, <1>15, <1>16, <1>17, <1>18, Patching

LEMMA AccountingAppliedStep ==
  ASSUME UsageIndInv, NEW n \in DOMAIN queue, Turn(n), mode # "reconciling",
         AccountingApplied(n), UNCHANGED upkeepVars
  PROVE  UsageIndInv' /\ IdleStep /\ EnforcedStep
<1> DEFINE old == queue[n]
           op == [old EXCEPT !.phase = "accounting_applied"]
<1>1. old \in Op /\ Shaped(old) /\ Meets(old, of, saved)
  BY Operations
<1>2. /\ old.phase = "events_applied" /\ done = "charged" /\ queue' = ReplaceAt(queue, n, op) /\ done' = "nothing"
      /\ UNCHANGED << of, owner, saved, drift, seen, sweeps, stops >>
  BY DEF AccountingApplied, Patch, In
<1>3. old.kind \in {"check", "delete"} /\ InHand(queue) = {old} /\ DoneFits({old}, owner, done)
  BY <1>2, OneInHand
<1>4. Balanced({old}, of, owner, drift) /\ TokensFit({old}, owner)
  BY <1>3 DEF UsageIndInv
<1> HIDE DEF old
<1>5. /\ op \in Op /\ op.kind = old.kind /\ op.name = old.name /\ op.step = old.step
      /\ op.phase = "accounting_applied" /\ op.acts = old.acts
  BY <1>1 DEF Op, Phase
<1> HIDE DEF op
<1>6. Shaped(op)
  BY <1>1, <1>3, <1>5 DEF Shaped
<1>7. EventsOf(op) = EventsOf(old) /\ Token(op) = Token(old) /\ \A o \in Owner : Delta(op, o) = Delta(old, o)
  BY <1>5 DEF EventsOf, Token, Delta
<1>8. Meets(op, of, saved)
  BY <1>1, <1>2, <1>3, <1>5, <1>7 DEF Meets
<1>9. ASSUME NEW o \in Owner, Token(old) \notin owner[o].tokens
      PROVE  Cardinality(Had(old, o, of)) = Cardinality(Has(o, of))
  <2>1. Delta(old, o) = 0
    BY <1>2, <1>3, <1>9 DEF DoneFits
  <2>2. \A a \in old.acts : of[a.event] = a.to
    BY <1>1, <1>2 DEF Meets
  <2>3. /\ Cardinality(Has(o, of)) \in Nat /\ Cardinality(Had(old, o, of)) \in Nat
        /\ Cardinality(Has(o, of)) = Cardinality(Had(old, o, of)) + Delta(old, o)
    BY <1>1, <2>2, AllDone
  <2> QED
    BY <2>1, <2>3
<1>10. Balanced({op}, of, owner, drift)
  <2> SUFFICES ASSUME NEW o \in Owner
               PROVE  /\ owner[o].used = Cardinality(Has(o, of)) + drift[o]
                      /\ ~ owner[o].there => owner[o] = NoDoc
    BY <1>5 DEF Balanced, Unsettled
  <2>1. /\ owner[o].used =
             Cardinality(IF Unsettled(old, o, owner) THEN Had(old, o, of) ELSE Has(o, of)) + drift[o]
        /\ ~ owner[o].there => owner[o] = NoDoc
    BY <1>4 DEF Balanced
  <2> QED
    BY <1>9, <2>1 DEF Unsettled
<1>11. TokensFit({op}, owner)
  BY <1>4, <1>5, <1>7 DEF TokensFit
<1>12. DoneFits({op}, owner, done') /\ done' \in {"nothing", "charged", "queued", "cleared"}
  BY <1>2 DEF DoneFits
<1>13. {op} = (IF op.phase = "queued" THEN {} ELSE {op})
  BY <1>5
<1>14. op.name = queue[n].name /\ op.kind = queue[n].kind /\ op.kind \in {"check", "delete"}
  BY <1>3, <1>5 DEF old
<1>15. \A e \in EventsOf(op) : e \in EventsOf(queue[n]) \/ of[e] # Gone
  BY <1>7 DEF old
<1> QED
  BY <1>2, <1>5, <1>6, <1>8, <1>10, <1>11, <1>12, <1>13, <1>14, <1>15, Patching

\* Once the tokens are cleared, the charges are right and nobody holds one.
LEMMA Cleared ==
  ASSUME UsageIndInv, NEW n \in DOMAIN queue, Turn(n),
         queue[n].phase = "accounting_applied", done = "cleared"
  PROVE  /\ queue[n].kind \in {"check", "delete"} /\ InHand(queue) = {queue[n]}
         /\ \A o \in Owner : owner[o].tokens = {}
         /\ Balanced({}, of, owner, drift)
<1>1. queue[n].kind \in {"check", "delete"} /\ InHand(queue) = {queue[n]} /\ DoneFits({queue[n]}, owner, done)
  BY OneInHand
<1>2. Balanced({queue[n]}, of, owner, drift) /\ TokensFit({queue[n]}, owner)
  BY <1>1 DEF UsageIndInv
<1>3. \A o \in Owner : owner[o].tokens = {}
  BY <1>1, <1>2 DEF DoneFits, TokensFit
<1>4. Balanced({}, of, owner, drift)
  BY <1>2 DEF Balanced, Unsettled
<1> QED
  BY <1>1, <1>3, <1>4

LEMMA ContinueStep ==
  ASSUME UsageIndInv, NEW n \in DOMAIN queue, Turn(n), mode # "reconciling",
         Continue(n), UNCHANGED upkeepVars
  PROVE  UsageIndInv' /\ IdleStep /\ EnforcedStep
<1> DEFINE old == queue[n]
           op == [old EXCEPT !.phase = "queued", !.step = old.step + 1, !.acts = {}]
<1>1. old \in Op /\ Shaped(old) /\ Meets(old, of, saved)
  BY Operations
<1>2. /\ old.phase = "accounting_applied" /\ done = "cleared" /\ old.kind = "check"
      /\ queue' = ReplaceAt(queue, n, op) /\ done' = "nothing"
      /\ UNCHANGED << of, owner, saved, drift, seen, sweeps, stops >>
  BY DEF Continue, Continues, Patch, In
<1>3. (\A o \in Owner : owner[o].tokens = {}) /\ Balanced({}, of, owner, drift)
  BY <1>2, Cleared
<1> HIDE DEF old
<1>4. /\ op \in Op /\ op.kind = "check" /\ op.name = old.name /\ op.phase = "queued" /\ op.acts = {}
  <2>1. old.step + 1 \in Nat
    BY <1>1 DEF Op
  <2>2. op \in Op
    BY <1>1, <2>1 DEF Op, Phase
  <2>3. old.kind = "check" /\ old \in [kind : {"save", "touch", "check", "delete"}, name : Name,
       owner : Owner, event : Event \cup {0}, stamp : 0 .. MaxSeen,
       acts : SUBSET Act, phase : Phase, step : Nat,
       limit : Nat, begun : BOOLEAN, cutoff : -1 .. MaxSeen]
    BY <1>1, <1>2 DEF Op
  <2> QED
    BY <2>2, <2>3
<1> HIDE DEF op
<1>5. op.name # NoName /\ (op.name[1] = "save" => op.name[2] \in saved)
  BY <1>1, <1>2, <1>4 DEF Shaped, Meets
<1>6. Shaped(op) /\ Meets(op, of, saved)
  BY <1>4, <1>5, CheckFits
<1>7. TokensFit({}, owner) /\ DoneFits({}, owner, done') /\ done' \in {"nothing", "charged", "queued", "cleared"}
  BY <1>2, <1>3 DEF TokensFit, DoneFits
<1>8. {} = (IF op.phase = "queued" THEN {} ELSE {op})
  BY <1>4
<1>9. op.name = queue[n].name /\ op.kind = queue[n].kind /\ op.kind \in {"check", "delete"}
  BY <1>2, <1>4 DEF old
<1>10. \A e \in EventsOf(op) : e \in EventsOf(queue[n]) \/ of[e] # Gone
  BY <1>4 DEF EventsOf
<1> QED
  BY <1>2, <1>3, <1>4, <1>6, <1>7, <1>8, <1>9, <1>10, Patching

-------------------------------------------------------------------------------
(***************************************************************************)
(* Events go, or pass to their authors                                     *)
(***************************************************************************)
LEMMA Moves ==
  ASSUME UsageIndInv, Steady, NEW n \in DOMAIN queue, Turn(n), queue[n].phase = "prepared",
         of' \in [Event -> Owner \cup {Gone}],
         \A e \in Event : \/ of'[e] = of[e]
                          \/ of[e] # Gone /\ (of'[e] = Gone \/ By[e] \in Rising),
         \A e \in Event : e \notin EventsOf(queue[n]) => of'[e] = of[e],
         \A a \in queue[n].acts : of'[a.event] \in {a.from, a.to},
         UNCHANGED << owner, queue, saved, drift, seen, done, sweeps, stops, upkeepVars >>
  PROVE  UsageIndInv' /\ IdleStep /\ EnforcedStep
<1> DEFINE op == queue[n]
<1>1. op \in Op /\ Shaped(op) /\ Meets(op, of, saved)
  BY Operations
<1>2. /\ op.kind \in {"check", "delete"} /\ InHand(queue) = {op}
      /\ \A o \in Owner : owner[o].tokens = {}
  BY OneInHand
<1>3. queue \in Seq(Op) /\ QueueFits(queue, of, saved)
  BY DEF UsageIndInv, TypeOK
<1>4. ASSUME NEW m \in DOMAIN queue PROVE Meets(queue[m], of', saved)
  <2>1. CASE m = n
    <3>1. Meets(op, of', saved)
      BY <1>1, <1>2 DEF Meets
    <3> QED
      BY <2>1, <3>1
  <2>2. CASE m # n
    <3>1. /\ queue[m] \in Op /\ Shaped(queue[m]) /\ Meets(queue[m], of, saved)
          /\ queue[m].phase = "queued"
      BY <1>3, <2>2, Operations DEF QueueFits, Apart
    <3>2. queue[m].kind = "save" => of'[queue[m].event] = Gone
      BY <3>1 DEF Meets, Shaped
    <3>3. ASSUME NEW a \in queue[m].acts PROVE of'[a.event] \in {a.from, a.to}
      <4>1. a.to = Gone /\ a.event \in Deletable /\ By[a.event] \notin Rising
        BY <3>1, <3>3 DEF Shaped, Op, Steady
      <4>2. of[a.event] \in {a.from, a.to} /\ a.event \in Event
        BY <3>1, <3>3 DEF Meets, Op, Act
      <4> QED
        BY <4>1, <4>2
    <3> QED
      BY <3>1, <3>2, <3>3 DEF Meets
  <2> QED
    BY <2>1, <2>2
<1>5. QueueFits(queue, of', saved)
  BY <1>3, <1>4 DEF QueueFits
<1>6. ASSUME NEW o \in Owner PROVE Had(op, o, of') = Had(op, o, of)
  BY DEF Had
<1>7. Balanced({op}, of', owner, drift)
  <2>1. Balanced({op}, of, owner, drift)
    BY <1>2 DEF UsageIndInv
  <2>2. \A o \in Owner : Unsettled(op, o, owner)
    BY <1>2 DEF Unsettled
  <2> HIDE DEF op
  <2> QED
    BY <1>6, <2>1, <2>2 DEF Balanced
<1>8. /\ queue' = queue /\ owner' = owner /\ drift' = drift /\ saved' = saved /\ done' = done /\ mode' = mode
      /\ InHand(queue) = {op}
  BY <1>2 DEF upkeepVars
<1>9. (\A e \in Event : of[e] # Gone => e \in saved)'
  BY DEF UsageIndInv
<1>10. Typed'
  BY DEF UsageIndInv, TypeOK, Typed, upkeepVars
<1>11. TypeOK'
  BY <1>3, <1>10 DEF UsageIndInv, Typed, TypeOK
<1>12. /\ Balanced(InHand(queue'), of', owner', drift')
       /\ TokensFit(InHand(queue'), owner') /\ DoneFits(InHand(queue'), owner', done')
       /\ QueueFits(queue', of', saved')
       /\ (mode' = "reconciling" => InHand(queue') = {})
  BY <1>5, <1>7, <1>8 DEF UsageIndInv
<1>13. UsageIndInv'
  BY <1>9, <1>11, <1>12 DEF UsageIndInv
<1> QED
  BY <1>8, <1>13 DEF IdleStep, EnforcedStep

LEMMA RemoveEventsStep ==
  ASSUME UsageIndInv, Steady, NEW n \in DOMAIN queue, Turn(n), RemoveEvents(n), UNCHANGED upkeepVars
  PROVE  UsageIndInv' /\ IdleStep /\ EnforcedStep
<1> DEFINE op == queue[n]
<1>1. op \in Op /\ Shaped(op) /\ Meets(op, of, saved)
  BY Operations
<1>2. /\ op.phase = "prepared"
      /\ of' = [e \in Event |-> IF e \in Leaving(op) THEN Gone ELSE of[e]]
      /\ UNCHANGED << owner, queue, saved, drift, seen, done, sweeps, stops >>
  BY DEF RemoveEvents, In
<1>3. of \in [Event -> Owner \cup {Gone}]
  BY DEF UsageIndInv, TypeOK
<1> HIDE DEF op
<1>4. of' \in [Event -> Owner \cup {Gone}]
  BY <1>2, <1>3
<1>5. \A e \in Event : of'[e] = of[e] \/ (of[e] # Gone /\ of'[e] = Gone)
  BY <1>2
<1>6. Leaving(op) \subseteq EventsOf(op)
  BY DEF Leaving, EventsOf
<1>7. \A e \in Event : e \notin EventsOf(op) => of'[e] = of[e]
  BY <1>2, <1>6
<1>8. ASSUME NEW a \in op.acts PROVE of'[a.event] \in {a.from, a.to}
  <2>1. a.event \in Event /\ of[a.event] \in {a.from, a.to}
    BY <1>1, <1>2 DEF Op, Act, Meets
  <2>2. CASE a.event \in Leaving(op)
    <3>1. a.to = Gone
      BY <1>1, <2>2 DEF Leaving, Shaped
    <3> QED
      BY <1>2, <2>1, <2>2, <3>1
  <2>3. CASE a.event \notin Leaving(op)
    BY <1>2, <2>1, <2>3
  <2> QED
    BY <2>2, <2>3
<1> QED
  BY <1>2, <1>4, <1>5, <1>7, <1>8, Moves DEF op

LEMMA PromoteEventsStep ==
  ASSUME UsageIndInv, Steady, NEW n \in DOMAIN queue, Turn(n), PromoteEvents(n), UNCHANGED upkeepVars
  PROVE  UsageIndInv' /\ IdleStep /\ EnforcedStep
<1> DEFINE op == queue[n]
           moves(e) == of[e] = IP /\ \E a \in Moving(op) : a.event = e
<1>1. op \in Op /\ Shaped(op) /\ Meets(op, of, saved)
  BY Operations
<1>2. /\ op.phase = "prepared"
      /\ of' = [e \in Event |-> IF moves(e) THEN By[e] ELSE of[e]]
      /\ UNCHANGED << owner, queue, saved, drift, seen, done, sweeps, stops >>
  BY DEF PromoteEvents, In
<1>3. of \in [Event -> Owner \cup {Gone}] /\ By \in [Event -> Author] /\ Gone \notin Owner /\ IP \in Owner
  BY UsageAssumption DEF UsageIndInv, TypeOK, Owner
<1> HIDE DEF op
<1>4. of' \in [Event -> Owner \cup {Gone}]
  BY <1>2, <1>3 DEF Owner
<1>5. \A e \in Event : moves(e) => of[e] # Gone /\ By[e] \in Rising /\ e \in EventsOf(op)
  BY <1>1, <1>3 DEF Moving, Shaped, EventsOf
<1>6. \A a \in op.acts : moves(a.event) => By[a.event] = a.to
  BY <1>1 DEF Moving, Shaped
<1> HIDE DEF moves
<1>7. \A e \in Event : of'[e] = of[e] \/ (of[e] # Gone /\ By[e] \in Rising)
  BY <1>2, <1>5
<1>8. \A e \in Event : e \notin EventsOf(op) => of'[e] = of[e]
  BY <1>2, <1>5
<1>9. ASSUME NEW a \in op.acts PROVE of'[a.event] \in {a.from, a.to}
  <2>1. a.event \in Event /\ of[a.event] \in {a.from, a.to}
    BY <1>1, <1>2 DEF Op, Act, Meets
  <2> QED
    BY <1>2, <1>6, <2>1
<1> QED
  BY <1>2, <1>4, <1>7, <1>8, <1>9, Moves DEF op

-------------------------------------------------------------------------------
(***************************************************************************)
(* Owners are charged                                                      *)
(***************************************************************************)
LEMMA EmptyDoc == NoDoc \in Doc /\ NoDoc.used = 0 /\ NoDoc.tokens = {} /\ NoDoc.there = FALSE
<1>1. 0 \in 0 .. MaxSeen
  BY UsageAssumption
<1>2. FALSE \in BOOLEAN /\ 0 \in Int /\ {} \in SUBSET (Name \X Nat)
  OBVIOUS
<1>3. NoDoc \in Doc
  BY Zenon, <1>1, <1>2 DEF NoDoc, Doc
<1> QED
  BY <1>3 DEF NoDoc

LEMMA Accounting ==
  ASSUME UsageIndInv, owner' \in [Owner -> Doc], drift' \in [Owner -> 0 .. MaxDrift],
         done' \in {"nothing", "charged", "queued", "cleared"}, listed' \subseteq Owner /\ unchecked' \subseteq Owner,
         \A o \in Owner : owner[o].there => owner'[o].there,
         Balanced(InHand(queue), of, owner', drift'), TokensFit(InHand(queue), owner'),
         DoneFits(InHand(queue), owner', done'),
         UNCHANGED << of, queue, saved, seen, sweeps, stops, mode >>
  PROVE  UsageIndInv' /\ IdleStep /\ EnforcedStep
<1>1. Typed'
  BY DEF UsageIndInv, TypeOK, Typed
<1>2. TypeOK'
  BY <1>1 DEF UsageIndInv, Typed, TypeOK
<1>3. /\ (\A e \in Event : of[e] # Gone => e \in saved)'
      /\ QueueFits(queue', of', saved')
      /\ Balanced(InHand(queue'), of', owner', drift') /\ TokensFit(InHand(queue'), owner')
      /\ DoneFits(InHand(queue'), owner', done')
      /\ (mode' = "reconciling" => InHand(queue') = {})
  BY DEF UsageIndInv
<1>4. UsageIndInv'
  BY <1>2, <1>3 DEF UsageIndInv
<1>5. IdleStep
  BY DEF IdleStep
<1>6. EnforcedStep
  BY DEF EnforcedStep
<1> QED
  BY <1>4, <1>5, <1>6

LEMMA OwnerTypes ==
  ASSUME UsageIndInv
  PROVE  /\ owner \in [Owner -> Doc] /\ drift \in [Owner -> 0 .. MaxDrift] /\ MaxDrift \in Nat
         /\ \A o \in Owner : /\ owner[o] \in Doc /\ owner[o].used \in Int /\ drift[o] \in Nat
                             /\ Cardinality(Has(o, of)) \in Nat
<1>1. owner \in [Owner -> Doc] /\ drift \in [Owner -> 0 .. MaxDrift] /\ MaxDrift \in Nat
  BY UsageAssumption DEF UsageIndInv, TypeOK
<1>2. \A o \in Owner : Has(o, of) \in SUBSET Event
  BY DEF Has
<1>3. \A o \in Owner : Cardinality(Has(o, of)) \in Nat
  BY <1>2, FiniteEvents
<1> QED
  BY <1>1, <1>3 DEF Doc

\* A charge that is set right while nothing is in hand
LEMMA SetRight ==
  ASSUME UsageIndInv, InHand(queue) = {}, NEW o \in Owner, NEW c, c = Cardinality(Has(o, of)),
         owner[o].there \/ c = 0,
         owner' = [owner EXCEPT ![o].used = c], drift' = [drift EXCEPT ![o] = 0],
         listed' \subseteq Owner /\ unchecked' \subseteq Owner, done' = done,
         UNCHANGED << of, queue, saved, seen, sweeps, stops, mode >>
  PROVE  UsageIndInv' /\ IdleStep /\ EnforcedStep
<1>1. /\ owner \in [Owner -> Doc] /\ drift \in [Owner -> 0 .. MaxDrift] /\ MaxDrift \in Nat /\ c \in Nat
  BY OwnerTypes
<1>2. /\ done = "nothing"
      /\ \A p \in Owner : owner[p].tokens = {} /\ owner[p].used = Cardinality(Has(p, of)) + drift[p]
                          /\ (~ owner[p].there => owner[p] = NoDoc)
  BY NothingInHand
<1>3. owner' \in [Owner -> Doc] /\ drift' \in [Owner -> 0 .. MaxDrift]
  BY <1>1 DEF Doc
<1>4. /\ owner'[o] = [owner[o] EXCEPT !.used = c] /\ drift'[o] = 0
      /\ \A p \in Owner : p # o => owner'[p] = owner[p] /\ drift'[p] = drift[p]
  BY <1>1
<1>5. /\ owner[o] \in Doc /\ owner'[o].used = c /\ owner'[o].tokens = {} /\ owner'[o].there = owner[o].there
  BY <1>1, <1>2, <1>4 DEF Doc
<1>6. ASSUME ~ owner'[o].there PROVE owner'[o] = NoDoc
  <2>1. owner[o] = NoDoc /\ c = 0
    BY <1>2, <1>5, <1>6
  <2> QED
    BY <1>4, <2>1 DEF NoDoc
<1>7. \A p \in Owner :
        /\ owner'[p].used = Cardinality(Has(p, of)) + drift'[p]
        /\ owner'[p].tokens = {}
        /\ ~ owner'[p].there => owner'[p] = NoDoc
        /\ owner[p].there => owner'[p].there
  <2> SUFFICES ASSUME NEW p \in Owner
               PROVE  /\ owner'[p].used = Cardinality(Has(p, of)) + drift'[p]
                      /\ owner'[p].tokens = {}
                      /\ ~ owner'[p].there => owner'[p] = NoDoc
                      /\ owner[p].there => owner'[p].there
    OBVIOUS
  <2>1. CASE p = o
    BY <1>1, <1>4, <1>5, <1>6, <2>1
  <2>2. CASE p # o
    BY <1>2, <1>4, <2>2
  <2> QED
    BY <2>1, <2>2
<1>8. /\ Balanced(InHand(queue), of, owner', drift') /\ TokensFit(InHand(queue), owner')
      /\ DoneFits(InHand(queue), owner', done')
  BY <1>2, <1>7 DEF Balanced, TokensFit, DoneFits
<1>9. done' \in {"nothing", "charged", "queued", "cleared"} /\ \A p \in Owner : owner[p].there => owner'[p].there
  BY <1>2, <1>7
<1> QED
  BY <1>3, <1>8, <1>9, Accounting

LEMMA CorrectUsageStep ==
  ASSUME UsageIndInv, NEW n \in DOMAIN queue, Turn(n), CorrectUsage(n), UNCHANGED upkeepVars
  PROVE  UsageIndInv' /\ IdleStep /\ EnforcedStep
<1> DEFINE o == queue[n].owner
<1>1. /\ queue[n].phase = "queued" /\ owner[o].there /\ Stored(o) = {}
      /\ owner' = [owner EXCEPT ![o].used = 0] /\ drift' = [drift EXCEPT ![o] = 0]
      /\ UNCHANGED << of, queue, saved, seen, done, sweeps, stops >>
  BY DEF CorrectUsage, Needed, Checking
<1>2. o \in Owner
  BY Operations DEF Op
<1> HIDE DEF o
<1>3. 0 = Cardinality(Has(o, of))
  <2>1. Has(o, of) = {}
    BY <1>1 DEF Stored, Has
  <2> QED
    BY <2>1, FS_EmptySet
<1>4. InHand(queue) = {}
  BY <1>1, TurnTaken DEF o
<1>5. listed' \subseteq Owner /\ unchecked' \subseteq Owner /\ mode' = mode
  BY DEF UsageIndInv, TypeOK, upkeepVars
<1> QED
  BY <1>1, <1>2, <1>3, <1>4, <1>5, SetRight

LEMMA ReconcileStep ==
  ASSUME UsageIndInv, NEW o \in Owner, Reconcile(o)
  PROVE  UsageIndInv' /\ IdleStep /\ EnforcedStep
<1> DEFINE c == Cardinality(Has(o, of))
<1>1. /\ mode = "reconciling" /\ listed' = listed \ {o}
      /\ owner' = [owner EXCEPT ![o].used = c] /\ drift' = [drift EXCEPT ![o] = 0]
      /\ UNCHANGED << of, queue, saved, seen, done, sweeps, stops, mode, unchecked >>
  BY DEF Reconcile, Stored, Has
<1>2. InHand(queue) = {} /\ listed' \subseteq Owner /\ unchecked' \subseteq Owner
  BY <1>1 DEF UsageIndInv, TypeOK
<1>3. owner[o].there \/ c = 0
  <2> SUFFICES ASSUME ~ owner[o].there PROVE c = 0
    OBVIOUS
  <2>1. owner[o] = NoDoc /\ owner[o].used = c + drift[o]
    BY <1>2, NothingInHand
  <2>2. owner[o].used = 0
    BY <2>1 DEF NoDoc
  <2>3. c \in Nat /\ drift[o] \in Nat
    BY OwnerTypes
  <2> HIDE DEF c
  <2> QED
    BY <2>1, <2>2, <2>3
<1> HIDE DEF c
<1>4. c = Cardinality(Has(o, of))
  BY DEF c
<1> QED
  BY <1>1, <1>2, <1>3, <1>4, SetRight

LEMMA CreateOwnersStep ==
  ASSUME UsageIndInv, NEW n \in DOMAIN queue, Turn(n), CreateOwners(n), UNCHANGED upkeepVars
  PROVE  UsageIndInv' /\ IdleStep /\ EnforcedStep
<1> DEFINE new == {o \in Owner : Delta(queue[n], o) > 0 /\ ~ owner[o].there}
<1>1. /\ queue[n].phase = "events_applied" /\ done = "nothing"
      /\ owner' = [o \in Owner |-> IF o \in new THEN [NoDoc EXCEPT !.there = TRUE] ELSE owner[o]]
      /\ UNCHANGED << of, queue, saved, drift, seen, done, sweeps, stops >>
  BY DEF CreateOwners, In
<1>2. owner \in [Owner -> Doc] /\ drift \in [Owner -> 0 .. MaxDrift]
  BY OwnerTypes
<1>3. InHand(queue) = {queue[n]}
  BY <1>1, OneInHand
<1>4. Balanced(InHand(queue), of, owner, drift) /\ TokensFit(InHand(queue), owner)
  BY DEF UsageIndInv
<1>5. \A o \in new : owner[o] = NoDoc
  BY <1>4 DEF Balanced
<1>6. [NoDoc EXCEPT !.there = TRUE] \in Doc
  <2>1. \A d \in Doc : [d EXCEPT !.there = TRUE] \in Doc
    BY DEF Doc
  <2> QED
    BY <2>1, EmptyDoc
<1>7. owner' \in [Owner -> Doc]
  BY <1>1, <1>2, <1>6
<1>8. \A o \in Owner : /\ owner'[o].used = owner[o].used /\ owner'[o].tokens = owner[o].tokens
                       /\ owner[o].there => owner'[o].there
                       /\ ~ owner'[o].there => owner'[o] = owner[o] /\ ~ owner[o].there
  <2> SUFFICES ASSUME NEW o \in Owner
               PROVE  /\ owner'[o].used = owner[o].used /\ owner'[o].tokens = owner[o].tokens
                      /\ owner[o].there => owner'[o].there
                      /\ ~ owner'[o].there => owner'[o] = owner[o] /\ ~ owner[o].there
    OBVIOUS
  <2>1. CASE o \in new
    BY <1>1, <1>5, <2>1 DEF NoDoc
  <2>2. CASE o \notin new
    BY <1>1, <2>2
  <2> QED
    BY <2>1, <2>2
<1> HIDE DEF new
<1>9. Balanced(InHand(queue), of, owner', drift')
  BY <1>1, <1>4, <1>8 DEF Balanced, Unsettled
<1>10. TokensFit(InHand(queue), owner')
  BY <1>4, <1>8 DEF TokensFit
<1>11. DoneFits(InHand(queue), owner', done') /\ done' \in {"nothing", "charged", "queued", "cleared"}
  BY <1>1 DEF DoneFits
<1>12. listed' \subseteq Owner /\ unchecked' \subseteq Owner /\ mode' = mode /\ drift' \in [Owner -> 0 .. MaxDrift]
  BY <1>1, <1>2 DEF UsageIndInv, TypeOK, upkeepVars
<1> QED
  BY <1>1, <1>7, <1>8, <1>9, <1>10, <1>11, <1>12, Accounting

LEMMA ChargeStep ==
  ASSUME UsageIndInv, NEW n \in DOMAIN queue, Turn(n), Charge(n), UNCHANGED upkeepVars
  PROVE  UsageIndInv' /\ IdleStep /\ EnforcedStep
<1> DEFINE op == queue[n]
<1>1. /\ op.phase = "events_applied" /\ done = "nothing" /\ done' = "charged"
      /\ \A o \in Owner : Delta(op, o) > 0 => owner[o].there
      /\ owner' = [o \in Owner |-> Charged(op, o)]
      /\ UNCHANGED << of, queue, saved, drift, seen, sweeps, stops >>
  BY DEF Charge, In
<1>2. op \in Op /\ Shaped(op) /\ Meets(op, of, saved)
  BY Operations
<1>3. /\ owner \in [Owner -> Doc] /\ drift \in [Owner -> 0 .. MaxDrift]
      /\ \A o \in Owner : owner[o] \in Doc /\ owner[o].used \in Int /\ drift[o] \in Nat
  BY OwnerTypes
<1>4. InHand(queue) = {op}
  BY <1>1, OneInHand
<1>5. Balanced({op}, of, owner, drift) /\ TokensFit({op}, owner)
  BY <1>4 DEF UsageIndInv
<1> HIDE DEF op
<1>6. Token(op) \in Name \X Nat
  BY <1>2 DEF Token, Op
<1>7. ASSUME NEW o \in Owner
      PROVE  /\ Delta(op, o) \in Int /\ Cardinality(Has(o, of)) \in Nat /\ Cardinality(Had(op, o, of)) \in Nat
             /\ Cardinality(Has(o, of)) = Cardinality(Had(op, o, of)) + Delta(op, o)
  <2>1. \A a \in op.acts : of[a.event] = a.to
    BY <1>1, <1>2 DEF Meets
  <2> QED
    BY <1>2, <2>1, AllDone
<1>8. ASSUME NEW o \in Owner
      PROVE  /\ owner[o].used =
                  Cardinality(IF Token(op) \notin owner[o].tokens THEN Had(op, o, of) ELSE Has(o, of)) + drift[o]
             /\ ~ owner[o].there => owner[o] = NoDoc
  BY <1>1, <1>5 DEF Balanced, Unsettled
<1>9. ASSUME NEW o \in Owner
      PROVE  /\ owner'[o] \in Doc
             /\ owner[o].there => owner'[o].there
             /\ ~ owner'[o].there => owner'[o] = NoDoc
             /\ Delta(op, o) # 0 => Token(op) \in owner'[o].tokens
             /\ owner'[o].tokens \subseteq owner[o].tokens \cup {Token(op)}
             /\ Token(op) \in owner'[o].tokens => Token(op) \in owner[o].tokens \/ Delta(op, o) # 0
             /\ owner'[o].used = Cardinality(Has(o, of)) + drift[o]
  <2>1. owner'[o] = Charged(op, o)
    BY <1>1
  <2> DEFINE has == Cardinality(Has(o, of))
             had == Cardinality(Had(op, o, of))
  <2>2. /\ has \in Nat /\ had \in Nat /\ Delta(op, o) \in Int /\ has = had + Delta(op, o)
        /\ owner[o].used \in Int /\ drift[o] \in Nat /\ owner[o] \in Doc
    BY <1>3, <1>7
  <2>3. /\ Token(op) \notin owner[o].tokens => owner[o].used = had + drift[o]
        /\ Token(op) \in owner[o].tokens => owner[o].used = has + drift[o]
        /\ ~ owner[o].there => owner[o] = NoDoc
    BY <1>8
  <2> HIDE DEF has, had
  <2>4. CASE ~ owner[o].there
    <3>1. owner'[o] = owner[o] /\ owner[o] = NoDoc
      BY <2>1, <2>3, <2>4 DEF Charged
    <3>2. owner[o].used = 0 /\ owner[o].tokens = {}
      BY <3>1 DEF NoDoc
    <3>3. had + drift[o] = 0 /\ ~ (Delta(op, o) > 0)
      BY <1>1, <2>3, <2>4, <3>2
    <3>4. Delta(op, o) = 0 /\ has + drift[o] = 0
      BY <2>2, <3>3
    <3> QED
      BY <2>2, <2>4, <3>1, <3>2, <3>4 DEF has
  <2>5. CASE owner[o].there /\ Token(op) \in owner[o].tokens
    <3>1. owner'[o] = owner[o]
      BY <2>1, <2>5 DEF Charged
    <3> QED
      BY <2>2, <2>3, <2>5, <3>1 DEF has
  <2>6. CASE owner[o].there /\ Token(op) \notin owner[o].tokens /\ Delta(op, o) = 0
    <3>1. owner'[o] = owner[o]
      BY <2>1, <2>6 DEF Charged
    <3>2. has = had
      BY <2>2, <2>6
    <3> QED
      BY <2>2, <2>3, <2>6, <3>1, <3>2 DEF has
  <2>7. CASE owner[o].there /\ Token(op) \notin owner[o].tokens /\ Delta(op, o) # 0
    <3>1. owner[o].used + Delta(op, o) = has + drift[o] /\ ~ (owner[o].used + Delta(op, o) < 0)
      BY <2>2, <2>3, <2>7
    <3>2. owner'[o] = [owner[o] EXCEPT !.used = owner[o].used + Delta(op, o),
                                       !.tokens = owner[o].tokens \cup {Token(op)}]
      BY <2>1, <2>7, <3>1 DEF Charged
    <3>3. /\ owner'[o] \in Doc /\ owner'[o].there
          /\ owner'[o].used = owner[o].used + Delta(op, o)
          /\ owner'[o].tokens = owner[o].tokens \cup {Token(op)}
      <4>1. owner[o].tokens \cup {Token(op)} \in SUBSET (Name \X Nat)
        BY <1>6, <2>2 DEF Doc
      <4>2. owner[o].used + Delta(op, o) \in Int
        BY <2>2
      <4> QED
        BY <2>2, <2>7, <3>2, <4>1, <4>2 DEF Doc
    <3> QED
      BY <2>7, <3>1, <3>3 DEF has
  <2> QED
    BY <2>4, <2>5, <2>6, <2>7
<1>10. owner' \in [Owner -> Doc]
  <2>1. DOMAIN owner' = Owner /\ owner' = [o \in Owner |-> owner'[o]]
    BY <1>1
  <2> QED
    BY <1>9, <2>1
<1>11. ASSUME NEW o \in Owner PROVE Cardinality(Had(op, o, of)) = Cardinality(Has(o, of)) \/ Token(op) \in owner'[o].tokens
  BY <1>7, <1>9
<1>12. Balanced(InHand(queue), of, owner', drift')
  BY <1>1, <1>4, <1>9, <1>11 DEF Balanced, Unsettled
<1>13. TokensFit(InHand(queue), owner')
  BY <1>1, <1>4, <1>5, <1>9 DEF TokensFit
<1>14. DoneFits(InHand(queue), owner', done') /\ done' \in {"nothing", "charged", "queued", "cleared"}
  BY <1>1, <1>4, <1>9 DEF DoneFits
<1>15. /\ listed' \subseteq Owner /\ unchecked' \subseteq Owner /\ mode' = mode /\ drift' \in [Owner -> 0 .. MaxDrift]
       /\ \A o \in Owner : owner[o].there => owner'[o].there
  BY <1>1, <1>3, <1>9 DEF UsageIndInv, TypeOK, upkeepVars
<1> QED
  BY <1>1, <1>10, <1>12, <1>13, <1>14, <1>15, Accounting

LEMMA ClearTokensStep ==
  ASSUME UsageIndInv, NEW n \in DOMAIN queue, Turn(n), ClearTokens(n), UNCHANGED upkeepVars
  PROVE  UsageIndInv' /\ IdleStep /\ EnforcedStep
<1> DEFINE op == queue[n]
<1>1. /\ op.phase = "accounting_applied" /\ done' = "cleared"
      /\ owner' = [o \in Owner |-> IF Delta(op, o) = 0 THEN owner[o]
                                   ELSE [owner[o] EXCEPT !.tokens = @ \ {Token(op)}]]
      /\ UNCHANGED << of, queue, saved, drift, seen, sweeps, stops >>
  BY DEF ClearTokens, WithoutTokens, In
<1>2. owner \in [Owner -> Doc] /\ drift \in [Owner -> 0 .. MaxDrift]
  BY OwnerTypes
<1>3. /\ InHand(queue) = {op}
      /\ \A o \in Owner : \A t \in owner[o].tokens : t = Token(op) /\ Delta(op, o) # 0
  BY <1>1, OneInHand
<1>4. Balanced({op}, of, owner, drift)
  BY <1>3 DEF UsageIndInv
<1> HIDE DEF op
<1>5. ASSUME NEW o \in Owner
      PROVE  /\ owner'[o] \in Doc /\ owner'[o].tokens = {}
             /\ owner'[o].there = owner[o].there /\ owner'[o].used = owner[o].used
             /\ owner[o] = NoDoc => owner'[o] = NoDoc
  <2>1. owner[o] \in Doc
    BY <1>2
  <2>2. CASE Delta(op, o) = 0
    <3>1. owner'[o] = owner[o] /\ owner[o].tokens = {}
      BY <1>1, <1>3, <2>2
    <3> QED
      BY <2>1, <3>1
  <2>3. CASE Delta(op, o) # 0
    <3>1. owner'[o] = [owner[o] EXCEPT !.tokens = owner[o].tokens \ {Token(op)}]
      BY <1>1, <2>3
    <3>2. owner[o].tokens \ {Token(op)} = {}
      BY <1>3
    <3>3. owner'[o] = [owner[o] EXCEPT !.tokens = {}]
      BY <3>1, <3>2
    <3>4. /\ owner'[o] \in Doc /\ owner'[o].tokens = {}
          /\ owner'[o].there = owner[o].there /\ owner'[o].used = owner[o].used
      BY <2>1, <3>3 DEF Doc
    <3>5. [NoDoc EXCEPT !.tokens = {}] = NoDoc
      BY EmptyDoc DEF Doc
    <3>6. owner[o] = NoDoc => owner'[o] = NoDoc
      BY <3>3, <3>5
    <3> QED
      BY <3>4, <3>6
  <2> QED
    BY <2>2, <2>3
<1>6. owner' \in [Owner -> Doc]
  <2>1. DOMAIN owner' = Owner /\ owner' = [o \in Owner |-> owner'[o]]
    BY <1>1
  <2> QED
    BY <1>5, <2>1
<1>7. Balanced(InHand(queue), of, owner', drift')
  BY <1>1, <1>3, <1>4, <1>5 DEF Balanced, Unsettled
<1>8. TokensFit(InHand(queue), owner') /\ DoneFits(InHand(queue), owner', done')
  BY <1>1, <1>3, <1>5 DEF TokensFit, DoneFits
<1>9. /\ listed' \subseteq Owner /\ unchecked' \subseteq Owner /\ mode' = mode /\ drift' \in [Owner -> 0 .. MaxDrift]
      /\ \A o \in Owner : owner[o].there => owner'[o].there
      /\ done' \in {"nothing", "charged", "queued", "cleared"}
  BY <1>1, <1>2, <1>5 DEF UsageIndInv, TypeOK, upkeepVars
<1> QED
  BY <1>1, <1>6, <1>7, <1>8, <1>9, Accounting

-------------------------------------------------------------------------------
(***************************************************************************)
(* Operations leave the queue                                              *)
(***************************************************************************)
\* The charges w are right, and no charge is under way.
Settled(f, w, d) ==
  \A o \in Owner : /\ w[o].used = Cardinality(Has(o, f)) + d[o] /\ w[o].tokens = {}
                   /\ ~ w[o].there => w[o] = NoDoc

LEMMA Leaves ==
  ASSUME UsageIndInv, NEW n \in DOMAIN queue, Turn(n), mode # "reconciling",
         queue' = RemoveAt(queue, n), of' \in [Event -> Owner \cup {Gone}], owner' \in [Owner -> Doc],
         \A m \in DOMAIN queue \ {n} : Meets(queue[m], of', saved),
         \A e \in Event : of'[e] # Gone => e \in saved,
         Settled(of', owner', drift), done' = "nothing", stops' \in 0 .. MaxStops,
         unchecked' \subseteq Owner, UNCHANGED << saved, drift, seen, sweeps, mode, listed >>
  PROVE  /\ UsageIndInv'
         /\ \A m \in DOMAIN queue \ {n} : \E k \in DOMAIN queue' : queue'[k] = queue[m]
<1>1. queue \in Seq(Op) /\ QueueFits(queue, of, saved)
  BY DEF UsageIndInv, TypeOK
<1> DEFINE r == RemoveAt(queue, n)
<1>2. /\ r \in Seq(Op)
      /\ QueueFits(r, of, saved)
      /\ InHand(r) \subseteq InHand(queue)
      /\ queue[n].phase # "queued" => InHand(r) = {}
      /\ \A k \in DOMAIN r : \E m \in DOMAIN queue \ {n} : r[k] = queue[m]
      /\ \A m \in DOMAIN queue \ {n} : \E k \in DOMAIN r : r[k] = queue[m]
  BY <1>1, Dropped
<1>3. queue' = r
  OBVIOUS
<1> HIDE DEF r
<1>4. InHand(r) = {}
  BY <1>2, TurnTaken
<1>5. QueueFits(r, of', saved)
  <2>1. \A k \in DOMAIN r : Meets(r[k], of', saved)
    BY <1>2
  <2> QED
    BY <1>2, <2>1 DEF QueueFits
<1>6. queue' \in Seq(Op) /\ QueueFits(queue', of', saved') /\ InHand(queue') = {}
  BY <1>2, <1>3, <1>4, <1>5
<1>7. Typed'
  BY DEF UsageIndInv, TypeOK, Typed
<1>8. TypeOK'
  BY <1>6, <1>7 DEF QueueFits, Apart, Typed, TypeOK
<1>9. /\ (\A e \in Event : of[e] # Gone => e \in saved)'
      /\ Balanced(InHand(queue'), of', owner', drift') /\ TokensFit(InHand(queue'), owner')
      /\ DoneFits(InHand(queue'), owner', done')
  BY <1>6 DEF Settled, Balanced, TokensFit, DoneFits
<1>10. UsageIndInv'
  BY <1>6, <1>8, <1>9 DEF UsageIndInv
<1> QED
  BY <1>2, <1>3, <1>10

\* The other operations are still there: only the one that leaves matters.
LEMMA OthersStay ==
  ASSUME UsageIndInv, NEW n \in DOMAIN queue,
         \A m \in DOMAIN queue \ {n} : \E k \in DOMAIN queue' : queue'[k] = queue[m],
         queue[n].kind = "check" =>
           \/ ~ owner'[queue[n].owner].there
           \/ ~ StillStale(queue[n])
           \/ owner'[queue[n].owner].used <= queue[n].limit
           \/ FailCheck(n)
  PROVE  EnforcedStep
<1> SUFFICES ASSUME NEW m \in DOMAIN queue, queue[m].kind = "check",
                    \A k \in DOMAIN queue' : queue'[k].name # queue[m].name
             PROVE  m = n
  BY DEF EnforcedStep
<1> QED
  OBVIOUS

LEMMA Below == \A l \in Nat : Target(l) <= l /\ Target(l) \in Nat
BY DEF Target

\* What maybeDeleteEmptyOwner leaves
LEMMA EmptiedSettles ==
  ASSUME UsageIndInv, Settled(of, owner, drift), NEW op \in Op
  PROVE  /\ Emptied(op) \in [Owner -> Doc] /\ Settled(of, Emptied(op), drift)
         /\ \A o \in Owner : \/ Emptied(op)[o] = owner[o]
                             \/ /\ Emptied(op)[o] = NoDoc
                                /\ Stored(o) = {} /\ owner[o].tokens = {} /\ owner[o].used = 0
<1>1. /\ owner \in [Owner -> Doc] /\ op.owner \in Owner
      /\ \A o \in Owner : drift[o] \in Nat /\ owner[o].used \in Int
  BY OwnerTypes DEF Op
<1>2. NoDoc \in Doc /\ NoDoc.used = 0 /\ NoDoc.tokens = {}
  BY EmptyDoc
<1>3. CASE Emptied(op) = owner
  BY <1>1, <1>3
<1>4. CASE Emptied(op) # owner
  <2> DEFINE p == op.owner
  <2>1. owner[p].used <= 0 /\ Stored(p) = {} /\ Emptied(op) = [owner EXCEPT ![p] = NoDoc]
    BY <1>4 DEF Emptied
  <2>2. Cardinality(Has(p, of)) = 0
    <3>1. Has(p, of) = {}
      BY <2>1 DEF Stored, Has
    <3> QED
      BY <3>1, FS_EmptySet
  <2>3. owner[p].used = 0 /\ drift[p] = 0 /\ owner[p].tokens = {}
    BY <1>1, <2>1, <2>2 DEF Settled
  <2>4. Emptied(op) \in [Owner -> Doc] /\ Emptied(op)[p] = NoDoc
        /\ \A o \in Owner : o # p => Emptied(op)[o] = owner[o]
    BY <1>1, <1>2, <2>1
  <2>5. Settled(of, Emptied(op), drift)
    BY <1>1, <1>2, <2>2, <2>3, <2>4 DEF Settled
  <2> QED
    BY <2>1, <2>3, <2>4, <2>5
<1> QED
  BY <1>3, <1>4

LEMMA ApplySaveStep ==
  ASSUME UsageIndInv, NEW n \in DOMAIN queue, Turn(n), mode # "reconciling",
         ApplySave(n), UNCHANGED upkeepVars
  PROVE  UsageIndInv' /\ IdleStep /\ EnforcedStep
<1> DEFINE e == queue[n].event
           o == queue[n].owner
<1>1. /\ queue[n].kind = "save" /\ of' = [of EXCEPT ![e] = o]
      /\ owner' = [owner EXCEPT ![o].there = TRUE, ![o].used = @ + 1]
      /\ queue' = RemoveAt(queue, n)
      /\ UNCHANGED << saved, drift, seen, done, sweeps, stops >>
  BY DEF ApplySave, Drop
<1>2. queue[n] \in Op /\ Shaped(queue[n]) /\ Meets(queue[n], of, saved)
  BY Operations
<1>3. e \in Event /\ o \in Owner /\ e \in saved /\ of[e] = Gone /\ queue[n].phase = "queued"
  BY <1>1, <1>2 DEF Op, Shaped, Meets
<1>4. InHand(queue) = {}
  BY <1>3, TurnTaken
<1>5. /\ done = "nothing"
      /\ \A p \in Owner : owner[p].tokens = {} /\ owner[p].used = Cardinality(Has(p, of)) + drift[p]
                          /\ (~ owner[p].there => owner[p] = NoDoc)
  BY <1>4, NothingInHand
<1>6. /\ owner \in [Owner -> Doc] /\ Gone \notin Owner
      /\ \A p \in Owner : /\ owner[p] \in Doc /\ owner[p].used \in Int /\ drift[p] \in Nat
                          /\ Cardinality(Has(p, of)) \in Nat
  BY OwnerTypes, UsageAssumption
<1>7. of \in [Event -> Owner \cup {Gone}] /\ \A d \in Event : of[d] # Gone => d \in saved
  BY DEF UsageIndInv, TypeOK
<1>8. ASSUME NEW m \in DOMAIN queue \ {n} PROVE Meets(queue[m], of', saved)
  <2>1. /\ Apart(queue[m], queue[n]) /\ Apart(queue[n], queue[m])
        /\ queue[m] \in Op /\ Shaped(queue[m]) /\ Meets(queue[m], of, saved)
    BY <1>8, Operations DEF UsageIndInv, QueueFits
  <2>2. queue[m].kind = "save" => of'[queue[m].event] = of[queue[m].event]
    BY <1>1, <1>7, <2>1 DEF Apart, Shaped
  <2>3. \A a \in queue[m].acts : of'[a.event] = of[a.event]
    BY <1>1, <1>7, <2>1 DEF Apart, EventsOf, Op, Act
  <2> QED
    BY <2>1, <2>2, <2>3 DEF Meets
<1> HIDE DEF e, o
<1>9. of' \in [Event -> Owner \cup {Gone}] /\ \A d \in Event : of'[d] # Gone => d \in saved
  BY <1>1, <1>3, <1>7
<1>10. /\ owner'[o] = [owner[o] EXCEPT !.there = TRUE, !.used = owner[o].used + 1]
       /\ \A p \in Owner : p # o => owner'[p] = owner[p]
  BY <1>1, <1>3, <1>6
<1>11. /\ owner'[o] \in Doc /\ owner'[o].there
       /\ owner'[o].used = owner[o].used + 1 /\ owner'[o].tokens = owner[o].tokens
  <2>1. owner[o] \in Doc /\ owner[o].used + 1 \in Int
    BY <1>3, <1>6
  <2> QED
    BY <1>10, <2>1 DEF Doc
<1>12. owner' \in [Owner -> Doc]
  <2>1. DOMAIN owner' = Owner /\ owner' = [p \in Owner |-> owner'[p]]
    BY <1>1, <1>6
  <2> QED
    BY <1>6, <1>10, <1>11, <2>1
<1>13. Cardinality(Has(o, of')) = Cardinality(Has(o, of)) + 1
  <2>1. Has(o, of') = Has(o, of) \cup {e}
    BY <1>1, <1>3, <1>7 DEF Has
  <2>2. e \notin Has(o, of)
    BY <1>3, <1>6 DEF Has
  <2>3. IsFiniteSet(Has(o, of))
    BY FiniteEvents DEF Has
  <2> DEFINE S == Has(o, of)
  <2> HIDE DEF S
  <2>4. Cardinality(S \cup {e}) = Cardinality(S) + 1
    BY <2>2, <2>3, FS_AddElement DEF S
  <2> QED
    BY <2>1, <2>4 DEF S
<1>14. \A p \in Owner : p # o => Has(p, of') = Has(p, of)
  BY <1>1, <1>3, <1>6, <1>7 DEF Has
<1>15. Settled(of', owner', drift)
  <2> SUFFICES ASSUME NEW p \in Owner
               PROVE  /\ owner'[p].used = Cardinality(Has(p, of')) + drift[p] /\ owner'[p].tokens = {}
                      /\ ~ owner'[p].there => owner'[p] = NoDoc
    BY DEF Settled
  <2>1. CASE p = o
    BY <1>5, <1>6, <1>11, <1>13, <2>1
  <2>2. CASE p # o
    BY <1>5, <1>10, <1>14, <2>2
  <2> QED
    BY <2>1, <2>2
<1>16. /\ done' = "nothing" /\ stops' \in 0 .. MaxStops
       /\ unchecked' \subseteq Owner /\ UNCHANGED << mode, listed >>
  BY <1>1, <1>5 DEF UsageIndInv, TypeOK, upkeepVars
<1>17. UsageIndInv' /\ \A m \in DOMAIN queue \ {n} : \E k \in DOMAIN queue' : queue'[k] = queue[m]
  BY <1>1, <1>8, <1>9, <1>12, <1>15, <1>16, Leaves
<1>18. IdleStep
  BY <1>10, <1>11 DEF IdleStep
<1>19. EnforcedStep
  BY <1>1, <1>17, OthersStay
<1> QED
  BY <1>17, <1>18, <1>19

\* An operation that leaves the queue and at most an empty owner with it.
LEMMA LeavesAlone ==
  ASSUME UsageIndInv, NEW n \in DOMAIN queue, Turn(n), mode # "reconciling",
         queue' = RemoveAt(queue, n), Settled(of, owner, drift),
         owner' \in [Owner -> Doc], Settled(of, owner', drift),
         \A o \in Owner : owner[o].there /\ ~ owner'[o].there =>
           Stored(o) = {} /\ owner[o].tokens = {} /\ owner[o].used = 0,
         queue[n].kind = "check" =>
           \/ ~ owner'[queue[n].owner].there
           \/ ~ StillStale(queue[n])
           \/ owner'[queue[n].owner].used <= queue[n].limit
           \/ FailCheck(n),
         done' = "nothing", stops' \in 0 .. MaxStops,
         unchecked' \subseteq Owner, UNCHANGED << of, saved, drift, seen, sweeps, mode, listed >>
  PROVE  UsageIndInv' /\ IdleStep /\ EnforcedStep
<1>1. /\ of' \in [Event -> Owner \cup {Gone}]
      /\ \A e \in Event : of'[e] # Gone => e \in saved
      /\ \A m \in DOMAIN queue \ {n} : Meets(queue[m], of', saved)
  BY Operations DEF UsageIndInv, TypeOK
<1>2. Settled(of', owner', drift)
  OBVIOUS
<1>3. UsageIndInv' /\ \A m \in DOMAIN queue \ {n} : \E k \in DOMAIN queue' : queue'[k] = queue[m]
  BY <1>1, <1>2, Leaves
<1>4. EnforcedStep
  BY <1>3, OthersStay
<1> QED
  BY <1>3, <1>4 DEF IdleStep

LEMMA ApplyTouchStep ==
  ASSUME UsageIndInv, NEW n \in DOMAIN queue, Turn(n), mode # "reconciling",
         ApplyTouch(n), UNCHANGED upkeepVars
  PROVE  UsageIndInv' /\ IdleStep /\ EnforcedStep
<1>1. /\ queue[n].kind = "touch"
      /\ owner' = IF owner[IP].there THEN [owner EXCEPT ![IP].active = queue[n].stamp] ELSE owner
      /\ queue' = RemoveAt(queue, n)
      /\ UNCHANGED << of, saved, drift, seen, done, sweeps, stops >>
  BY DEF ApplyTouch, Drop
<1>2. queue[n] \in Op /\ Shaped(queue[n])
  BY Operations
<1>3. queue[n].phase = "queued" /\ queue[n].stamp \in 0 .. MaxSeen
  BY <1>1, <1>2 DEF Op, Shaped
<1>4. InHand(queue) = {} /\ done = "nothing"
  BY <1>3, TurnTaken, NothingInHand
<1>5. Settled(of, owner, drift)
  BY <1>4, NothingInHand DEF Settled
<1>6. owner \in [Owner -> Doc] /\ IP \in Owner
  BY OwnerTypes DEF Owner
<1>7. \A o \in Owner : /\ owner'[o].used = owner[o].used /\ owner'[o].tokens = owner[o].tokens
                       /\ owner'[o].there = owner[o].there /\ (~ owner[o].there => owner'[o] = owner[o])
                       /\ owner'[o] \in Doc
  <2> SUFFICES ASSUME NEW o \in Owner
               PROVE  /\ owner'[o].used = owner[o].used /\ owner'[o].tokens = owner[o].tokens
                      /\ owner'[o].there = owner[o].there /\ (~ owner[o].there => owner'[o] = owner[o])
                      /\ owner'[o] \in Doc
    OBVIOUS
  <2>1. owner[o] \in Doc
    BY <1>6
  <2>2. CASE o = IP /\ owner[IP].there
    <3>1. owner'[o] = [owner[o] EXCEPT !.active = queue[n].stamp]
      BY <1>1, <1>6, <2>2
    <3> QED
      BY <1>3, <2>1, <2>2, <3>1 DEF Doc
  <2>3. CASE ~ (o = IP /\ owner[IP].there)
    <3>1. owner'[o] = owner[o]
      BY <1>1, <1>6, <2>3
    <3> QED
      BY <2>1, <3>1
  <2> QED
    BY <2>2, <2>3
<1>8. owner' \in [Owner -> Doc]
  <2>1. DOMAIN owner' = Owner /\ owner' = [p \in Owner |-> owner'[p]]
    BY <1>1, <1>6
  <2> QED
    BY <1>7, <2>1
<1>9. Settled(of, owner', drift)
  BY <1>5, <1>7 DEF Settled
<1>10. /\ stops' \in 0 .. MaxStops /\ done' = "nothing"
       /\ unchecked' \subseteq Owner /\ UNCHANGED << mode, listed >>
  BY <1>1, <1>4 DEF UsageIndInv, TypeOK, upkeepVars
<1> QED
  BY <1>1, <1>5, <1>7, <1>8, <1>9, <1>10, LeavesAlone

LEMMA EndCheckStep ==
  ASSUME UsageIndInv, NEW n \in DOMAIN queue, Turn(n), mode # "reconciling",
         EndCheck(n), UNCHANGED upkeepVars
  PROVE  UsageIndInv' /\ IdleStep /\ EnforcedStep
<1> DEFINE op == queue[n]
<1>1. /\ op.kind = "check" /\ op.phase = "queued" /\ queue' = RemoveAt(queue, n)
      /\ \/ ~ owner[op.owner].there /\ owner' = owner
         \/ ~ StillStale(op) /\ owner' = owner
         \/ owner[op.owner].used <= StopAt(op) /\ owner' = Emptied(op)
      /\ UNCHANGED << of, saved, drift, seen, done, sweeps, stops >>
  BY DEF EndCheck, Checking, Drop
<1>2. op \in Op /\ op.owner \in Owner /\ op.limit \in Nat
  BY Operations DEF Op
<1>3. InHand(queue) = {} /\ done = "nothing"
  BY <1>1, TurnTaken, NothingInHand
<1>4. Settled(of, owner, drift)
  BY <1>3, NothingInHand DEF Settled
<1>5. StopAt(op) <= op.limit /\ StopAt(op) \in Nat
  BY <1>2, Below DEF StopAt
<1>6. owner \in [Owner -> Doc] /\ owner[op.owner].used \in Int
  BY <1>2, OwnerTypes
<1>7. /\ Emptied(op) \in [Owner -> Doc] /\ Settled(of, Emptied(op), drift)
      /\ \A o \in Owner : \/ Emptied(op)[o] = owner[o]
                          \/ /\ Emptied(op)[o] = NoDoc
                             /\ Stored(o) = {} /\ owner[o].tokens = {} /\ owner[o].used = 0
  BY <1>2, <1>4, EmptiedSettles
<1> HIDE DEF op
<1>8. owner' \in [Owner -> Doc] /\ Settled(of, owner', drift)
  BY <1>1, <1>4, <1>6, <1>7
<1>9. \A o \in Owner : owner[o].there /\ ~ owner'[o].there =>
        Stored(o) = {} /\ owner[o].tokens = {} /\ owner[o].used = 0
  BY <1>1, <1>7
<1>10. ~ NoDoc.there
  BY DEF NoDoc
<1>11. \/ ~ owner'[op.owner].there
       \/ ~ StillStale(op)
       \/ owner'[op.owner].used <= op.limit
  BY <1>1, <1>2, <1>5, <1>6, <1>7, <1>10
<1>12. /\ stops' \in 0 .. MaxStops /\ done' = "nothing"
       /\ unchecked' \subseteq Owner /\ UNCHANGED << mode, listed >>
  BY <1>1, <1>3 DEF UsageIndInv, TypeOK, upkeepVars
<1> QED
  BY <1>1, <1>4, <1>8, <1>9, <1>11, <1>12, LeavesAlone DEF op

\* A check that an error uses up goes, and leaves everything as it was.
LEMMA FailCheckStep ==
  ASSUME UsageIndInv, NEW n \in DOMAIN queue, mode # "reconciling", FailCheck(n)
  PROVE  UsageIndInv' /\ IdleStep /\ EnforcedStep
<1>1. /\ Turn(n) /\ queue[n].phase = "queued" /\ queue' = RemoveAt(queue, n)
      /\ stops < MaxStops /\ stops' = stops + 1 /\ unchecked' = unchecked \cup {queue[n].owner}
      /\ UNCHANGED << of, owner, saved, drift, seen, done, sweeps, mode, listed >>
  BY DEF FailCheck, Checking, Drop
<1>2. queue[n].owner \in Owner
  BY Operations DEF Op
<1>3. InHand(queue) = {} /\ done = "nothing"
  BY <1>1, TurnTaken, NothingInHand
<1>4. Settled(of, owner, drift) /\ owner \in [Owner -> Doc]
  BY <1>3, NothingInHand, OwnerTypes DEF Settled
<1>5. owner' = owner /\ owner' \in [Owner -> Doc] /\ Settled(of, owner', drift)
  BY <1>1, <1>4
<1>6. stops' \in 0 .. MaxStops /\ unchecked' \subseteq Owner /\ done' = "nothing"
  BY <1>1, <1>2, <1>3, UsageAssumption DEF UsageIndInv, TypeOK
<1> QED
  BY <1>1, <1>4, <1>5, <1>6, LeavesAlone

LEMMA FinishStep ==
  ASSUME UsageIndInv, NEW n \in DOMAIN queue, Turn(n), mode # "reconciling",
         Finish(n), UNCHANGED upkeepVars
  PROVE  UsageIndInv' /\ IdleStep /\ EnforcedStep
<1> DEFINE op == queue[n]
<1>1. /\ op.phase = "accounting_applied" /\ done = "cleared" /\ ~ Continues(op)
      /\ owner' = IF op.kind = "check" THEN Emptied(op) ELSE owner
      /\ queue' = RemoveAt(queue, n) /\ done' = "nothing"
      /\ UNCHANGED << of, saved, drift, seen, sweeps, stops >>
  BY DEF Finish, In, Drop
<1>2. op \in Op /\ op.owner \in Owner /\ op.limit \in Nat
  BY Operations DEF Op
<1>3. Settled(of, owner, drift)
  BY <1>1, Cleared DEF Settled, Balanced
<1>4. Target(op.limit) <= op.limit /\ Target(op.limit) \in Nat
  BY <1>2, Below
<1>5. owner \in [Owner -> Doc] /\ owner[op.owner].used \in Int
  BY <1>2, OwnerTypes
<1>6. /\ Emptied(op) \in [Owner -> Doc] /\ Settled(of, Emptied(op), drift)
      /\ \A o \in Owner : \/ Emptied(op)[o] = owner[o]
                          \/ /\ Emptied(op)[o] = NoDoc
                             /\ Stored(o) = {} /\ owner[o].tokens = {} /\ owner[o].used = 0
  BY <1>2, <1>3, EmptiedSettles
<1> HIDE DEF op
<1>7. owner' \in [Owner -> Doc] /\ Settled(of, owner', drift)
  BY <1>1, <1>3, <1>5, <1>6
<1>8. \A o \in Owner : owner[o].there /\ ~ owner'[o].there =>
        Stored(o) = {} /\ owner[o].tokens = {} /\ owner[o].used = 0
  BY <1>1, <1>6
<1>9. ~ NoDoc.there
  BY DEF NoDoc
<1>10. ASSUME op.kind = "check"
       PROVE  \/ ~ owner'[op.owner].there
              \/ ~ StillStale(op)
              \/ owner'[op.owner].used <= op.limit
  <2>1. ~ owner[op.owner].there \/ ~ StillStale(op) \/ owner[op.owner].used <= Target(op.limit)
    BY <1>1, <1>4, <1>5, <1>10 DEF Continues
  <2>2. owner'[op.owner] = owner[op.owner] \/ owner'[op.owner] = NoDoc
    BY <1>1, <1>2, <1>6, <1>10
  <2> QED
    BY <1>2, <1>4, <1>5, <1>9, <2>1, <2>2
<1>11. /\ stops' \in 0 .. MaxStops
       /\ unchecked' \subseteq Owner /\ UNCHANGED << mode, listed >>
  BY <1>1 DEF UsageIndInv, TypeOK, upkeepVars
<1> QED
  BY <1>1, <1>3, <1>7, <1>8, <1>10, <1>11, LeavesAlone DEF op

-------------------------------------------------------------------------------
(***************************************************************************)
(* A deletion fails                                                        *)
(***************************************************************************)
LEMMA FailDeletionStep ==
  ASSUME UsageIndInv, NEW n \in DOMAIN queue, mode # "reconciling",
         FailDeletion(n), UNCHANGED upkeepVars
  PROVE  UsageIndInv' /\ IdleStep /\ EnforcedStep
<1> DEFINE op == queue[n]
           comp == Compensation(op)
           r == RemoveAt(queue, n)
<1>1. /\ Turn(n) /\ op.kind = "delete" /\ ~ op.begun /\ stops < MaxStops
      /\ queue' = r \o (IF op.phase = "queued" \/ comp.acts = {} THEN << >> ELSE << comp >>)
      /\ stops' = stops + 1 /\ done' = "nothing"
      /\ UNCHANGED << of, owner, saved, drift, seen, sweeps >>
  BY DEF FailDeletion
<1>2. op \in Op /\ Shaped(op) /\ Meets(op, of, saved)
  BY Operations
<1>3. queue \in Seq(Op) /\ QueueFits(queue, of, saved)
  BY DEF UsageIndInv, TypeOK
<1>4. /\ r \in Seq(Op) /\ QueueFits(r, of, saved) /\ InHand(r) \subseteq InHand(queue)
      /\ op.phase # "queued" => InHand(r) = {}
      /\ \A k \in DOMAIN r : \E m \in DOMAIN queue \ {n} : r[k] = queue[m]
      /\ \A m \in DOMAIN queue \ {n} : \E k \in DOMAIN r : r[k] = queue[m]
  BY <1>3, Dropped
<1>5. stops' \in 0 .. MaxStops
  BY <1>1, UsageAssumption DEF UsageIndInv, TypeOK
<1>6. owner \in [Owner -> Doc]
  BY OwnerTypes
<1>7. op.phase # "queued" => /\ InHand(queue) = {op} /\ Balanced({op}, of, owner, drift) /\ TokensFit({op}, owner)
                            /\ \A o \in Owner : \A t \in owner[o].tokens :
                                 /\ t = Token(op) /\ Delta(op, o) # 0
                                 /\ op.phase \in {"events_applied", "accounting_applied"}
  BY <1>1, OneInHand DEF UsageIndInv
<1>8. \A a \in op.acts : /\ a.to = Gone
                         /\ (op.phase = "prepared" => of[a.event] \in {a.from, Gone})
                         /\ (op.phase \in {"events_applied", "accounting_applied"} => of[a.event] = Gone)
  BY <1>1, <1>2 DEF Shaped, Meets
<1>9. op.phase \in {"queued", "prepared", "events_applied", "accounting_applied"}
  BY <1>2 DEF Op, Phase
<1> HIDE DEF op
<1> DEFINE acts == {a \in op.acts : of[a.event] = Gone}
<1>10. /\ comp \in Op /\ comp.kind = op.kind /\ comp.name = op.name /\ comp.step = op.step /\ comp.acts = acts
       /\ comp.phase = (IF op.phase = "prepared" THEN "events_applied" ELSE op.phase)
  <2>1. comp = [op EXCEPT !.phase = IF op.phase = "prepared" THEN "events_applied" ELSE op.phase,
                          !.acts = acts, !.begun = TRUE]
    BY DEF Compensation
  <2>2. acts \in SUBSET Act
    BY <1>2 DEF Op
  <2> HIDE DEF comp, acts
  <2> QED
    BY <1>2, <1>9, <2>1, <2>2 DEF Op, Phase
<1>11. acts \subseteq op.acts /\ \A a \in acts : of[a.event] = Gone
  OBVIOUS
<1>12. \A a \in op.acts \ acts : of[a.event] = a.from \/ op.phase = "queued"
  BY <1>8, <1>9
<1> HIDE DEF comp, acts
<1>13. ASSUME NEW o \in Owner, op.phase # "queued" PROVE Had(comp, o, of) = Had(op, o, of)
  <2>1. ASSUME NEW e \in Had(comp, o, of) PROVE e \in Had(op, o, of)
    <3>1. CASE \E a \in acts : a.event = e /\ a.from = o
      BY <1>10, <1>11, <2>1, <3>1 DEF Had
    <3>2. CASE of[e] = o /\ e \notin EventsOf(comp)
      <4>1. CASE e \in EventsOf(op)
        <5>1. PICK a \in op.acts : a.event = e
          BY <4>1 DEF EventsOf
        <5>2. a \notin acts
          BY <1>10, <3>2, <5>1 DEF EventsOf
        <5>3. a.from = o
          BY <1>12, <1>13, <3>2, <5>1, <5>2
        <5> QED
          BY <2>1, <5>1, <5>3 DEF Had
      <4>2. CASE e \notin EventsOf(op)
        BY <2>1, <3>2, <4>2 DEF Had
      <4> QED
        BY <4>1, <4>2
    <3> QED
      BY <1>10, <2>1, <3>1, <3>2 DEF Had
  <2>2. ASSUME NEW e \in Had(op, o, of) PROVE e \in Had(comp, o, of)
    <3>1. CASE \E a \in op.acts : a.event = e /\ a.from = o
      <4>1. PICK a \in op.acts : a.event = e /\ a.from = o
        BY <3>1
      <4>2. CASE a \in acts
        BY <1>10, <2>2, <4>1, <4>2 DEF Had
      <4>3. CASE a \notin acts
        <5>1. of[e] = o
          BY <1>12, <1>13, <4>1, <4>3
        <5>2. e \notin EventsOf(comp)
          BY <1>2, <1>10, <1>11, <4>1, <4>3 DEF EventsOf, Shaped
        <5> QED
          BY <2>2, <5>1, <5>2 DEF Had
      <4> QED
        BY <4>2, <4>3
    <3>2. CASE of[e] = o /\ e \notin EventsOf(op)
      BY <1>10, <1>11, <2>2, <3>2 DEF Had, EventsOf
    <3> QED
      BY <2>2, <3>1, <3>2 DEF Had
  <2> QED
    BY <2>1, <2>2
<1>14. CASE op.phase = "queued" \/ comp.acts = {}
  <2>1. Settled(of, owner, drift)
    <3>1. CASE op.phase = "queued"
      BY <1>1, <3>1, TurnTaken, NothingInHand DEF Settled, op
    <3>2. CASE op.phase # "queued" /\ comp.acts = {}
      <4>1. \A o \in Owner : Had(op, o, of) = Has(o, of)
        <5>1. \A o \in Owner : Had(comp, o, of) = Has(o, of)
          BY <3>2 DEF Had, Has, EventsOf
        <5> QED
          BY <1>13, <3>2, <5>1
      <4>2. \A o \in Owner : owner[o].tokens = {}
        <5>1. CASE op.phase = "prepared"
          BY <1>7, <5>1
        <5>2. CASE op.phase # "prepared"
          <6>1. op.acts = {}
            BY <1>8, <1>9, <1>10, <3>2, <5>2 DEF acts
          <6>2. \A o \in Owner : Delta(op, o) = 0
            <7> SUFFICES ASSUME NEW o \in Owner PROVE Delta(op, o) = 0
              OBVIOUS
            <7> DEFINE A == {a \in op.acts : a.to = o}
                       B == {a \in op.acts : a.from = o}
            <7>1. A = {} /\ B = {}
              BY <6>1
            <7>2. Delta(op, o) = Cardinality(A) - Cardinality(B)
              BY DEF Delta
            <7> HIDE DEF A, B
            <7>3. Cardinality(A) = 0 /\ Cardinality(B) = 0
              BY <7>1, FS_EmptySet
            <7> QED
              BY <7>2, <7>3
          <6> QED
            BY <1>7, <3>2, <6>2
        <5> QED
          BY <5>1, <5>2
      <4> QED
        BY <1>7, <3>2, <4>1, <4>2 DEF Settled, Balanced
    <3> QED
      BY <1>14, <3>1, <3>2
  <2>2. queue' = RemoveAt(queue, n)
    <3>1. queue' = r \o << >>
      BY <1>1, <1>14
    <3>2. r \o << >> = r
      BY <1>4
    <3> QED
      BY <3>1, <3>2
  <2>3. Settled(of, owner', drift) /\ owner' = owner
    BY <1>1, <2>1
  <2>4. queue[n].kind # "check"
    BY <1>1 DEF op
  <2>5. /\ owner' \in [Owner -> Doc]
        /\ \A o \in Owner : owner[o].there /\ ~ owner'[o].there =>
             Stored(o) = {} /\ owner[o].tokens = {} /\ owner[o].used = 0
    BY <1>6, <2>3
  <2>6. unchecked' \subseteq Owner /\ UNCHANGED << mode, listed >>
    BY DEF UsageIndInv, TypeOK, upkeepVars
  <2> QED
    BY <1>1, <1>5, <2>1, <2>2, <2>3, <2>4, <2>5, <2>6, LeavesAlone
<1>15. CASE ~ (op.phase = "queued" \/ comp.acts = {})
  <2>1. queue' = r \o << comp >>
    BY <1>1, <1>15
  <2>2. comp.phase \in {"events_applied", "accounting_applied"}
    BY <1>9, <1>10, <1>15
  <2>3. EventsOf(comp) \subseteq EventsOf(op)
    BY <1>10, <1>11 DEF EventsOf
  <2>4. Shaped(comp)
    <3>1. IsFiniteSet(comp.acts)
      BY <1>2, <1>10, <1>11, FS_Subset DEF Shaped
    <3> QED
      BY <1>1, <1>2, <1>10, <1>11, <3>1 DEF Shaped
  <2>5. Meets(comp, of, saved)
    BY <1>1, <1>2, <1>8, <1>10, <1>11, <2>2, <2>3 DEF Meets
  <2>6. ASSUME NEW k \in DOMAIN r PROVE Apart(r[k], comp) /\ Apart(comp, r[k])
    <3>1. PICK m \in DOMAIN queue \ {n} : r[k] = queue[m]
      BY <1>4
    <3>2. Apart(queue[m], op) /\ Apart(op, queue[m])
      BY <1>3 DEF QueueFits, op
    <3> QED
      BY <1>1, <1>10, <1>15, <2>3, <3>1, <3>2 DEF Apart
  <2> HIDE DEF r
  <2>7. LET q == r \o << comp >> IN
        /\ q \in Seq(Op) /\ q = Append(r, comp)
        /\ QueueFits(q, of, saved)
        /\ InHand(q) = InHand(r) \cup (IF comp.phase = "queued" THEN {} ELSE {comp})
        /\ \A m \in DOMAIN r : m \in DOMAIN q /\ q[m] = r[m]
    BY <1>4, <1>10, <2>4, <2>5, <2>6, Queued
  <2>8. /\ queue' \in Seq(Op) /\ QueueFits(queue', of', saved') /\ InHand(queue') = {comp}
        /\ \A m \in DOMAIN r : m \in DOMAIN queue' /\ queue'[m] = r[m]
    BY <1>1, <1>4, <1>15, <2>1, <2>2, <2>7
  <2>9. Token(comp) = Token(op)
    BY <1>10 DEF Token
  <2>10. Balanced({comp}, of, owner, drift)
    <3> SUFFICES ASSUME NEW o \in Owner
                 PROVE  /\ owner[o].used =
                             Cardinality(IF Unsettled(comp, o, owner) THEN Had(comp, o, of) ELSE Has(o, of)) + drift[o]
                        /\ ~ owner[o].there => owner[o] = NoDoc
      BY DEF Balanced
    <3>1. /\ owner[o].used =
               Cardinality(IF Unsettled(op, o, owner) THEN Had(op, o, of) ELSE Has(o, of)) + drift[o]
          /\ ~ owner[o].there => owner[o] = NoDoc
      BY <1>7, <1>15 DEF Balanced
    <3>2. Unsettled(comp, o, owner) = Unsettled(op, o, owner)
      BY <1>9, <1>10, <1>15, <2>9 DEF Unsettled
    <3>3. Had(comp, o, of) = Had(op, o, of)
      BY <1>13, <1>15
    <3> QED
      BY <3>1, <3>2, <3>3
  <2>11. TokensFit({comp}, owner)
    <3> SUFFICES ASSUME NEW o \in Owner, NEW t \in owner[o].tokens
                 PROVE  Token(comp) = t /\ Delta(comp, o) # 0
      BY <2>2 DEF TokensFit
    <3>1. t = Token(op) /\ Delta(op, o) # 0 /\ op.phase \in {"events_applied", "accounting_applied"}
      BY <1>7, <1>15
    <3>2. comp.acts = op.acts
      BY <1>8, <1>10, <3>1 DEF acts
    <3>3. Delta(comp, o) = Delta(op, o)
      BY <3>2 DEF Delta
    <3> QED
      BY <2>9, <3>1, <3>3
  <2>12. DoneFits({comp}, owner, done')
    BY <1>1 DEF DoneFits
  <2>13. Typed'
    BY <1>1, <1>5 DEF UsageIndInv, TypeOK, Typed, upkeepVars
  <2>14. TypeOK'
    BY <2>8, <2>13 DEF QueueFits, Apart, Typed, TypeOK
  <2>15. /\ (\A e \in Event : of[e] # Gone => e \in saved)'
         /\ Balanced(InHand(queue'), of', owner', drift') /\ TokensFit(InHand(queue'), owner')
         /\ DoneFits(InHand(queue'), owner', done') /\ mode' # "reconciling"
    BY <1>1, <2>8, <2>10, <2>11, <2>12 DEF UsageIndInv, upkeepVars
  <2>16. UsageIndInv'
    BY <2>8, <2>14, <2>15 DEF UsageIndInv
  <2>17. IdleStep
    BY <1>1 DEF IdleStep
  <2>18. \A m \in DOMAIN queue \ {n} : \E k \in DOMAIN queue' : queue'[k] = queue[m]
    BY <1>4, <2>8
  <2>19. queue[n].kind # "check"
    BY <1>1 DEF op
  <2>20. EnforcedStep
    BY <2>18, <2>19, OthersStay
  <2> QED
    BY <2>16, <2>17, <2>20
<1> QED
  BY <1>14, <1>15

-------------------------------------------------------------------------------
(***************************************************************************)
(* The theorems                                                            *)
(***************************************************************************)
LEMMA UsageInit == Init => UsageIndInv
<1> SUFFICES ASSUME Init PROVE UsageIndInv
  OBVIOUS
<1>1. /\ of = [e \in Event |-> Gone] /\ saved = {} /\ done = "nothing"
      /\ seen = 0 /\ sweeps = 0 /\ stops = 0 /\ mode = "relay" /\ listed = {} /\ unchecked = {}
  BY DEF Init
<1>2. /\ MaxDrift \in Nat /\ MaxSeen \in Nat /\ MaxSweeps \in Nat /\ MaxStops \in Nat /\ Gone \notin Owner
      /\ owner = [o \in Owner |-> [NoDoc EXCEPT !.there = drift[o] > 0, !.used = drift[o]]]
  BY UsageAssumption DEF Init
<1>3. InHand(queue) = {} /\ DOMAIN queue = {} /\ queue \in Seq(Op)
  <2>1. queue = << >>
    BY DEF Init
  <2>2. DOMAIN queue = {} /\ queue \in Seq(Op)
    BY <2>1
  <2> QED
    BY <2>2 DEF InHand
<1>0. drift \in [Owner -> 0 .. MaxDrift] /\ \A o \in Owner : drift[o] \in Nat /\ drift[o] \in Int
  <2>1. drift \in [Owner -> 0 .. MaxDrift]
    BY DEF Init
  <2>2. MaxDrift \in Nat
    BY UsageAssumption
  <2> QED
    BY <2>1, <2>2
<1>4. QueueFits(queue, of, saved)
  BY <1>3 DEF QueueFits
<1>5. \A o \in Owner : Has(o, of) = {}
  BY <1>1, <1>2 DEF Has
<1>6. Cardinality({}) = 0
  BY FS_EmptySet
<1>7. NoDoc \in Doc /\ NoDoc.used = 0 /\ NoDoc.tokens = {} /\ NoDoc.there = FALSE
  BY EmptyDoc
<1>8. ASSUME NEW o \in Owner
      PROVE  /\ owner[o] \in Doc /\ owner[o].used = drift[o] /\ owner[o].tokens = {}
             /\ ~ owner[o].there => owner[o] = NoDoc
  <2>1. drift[o] \in Nat /\ drift[o] \in Int
    BY <1>0
  <2>2. owner[o] = [NoDoc EXCEPT !.there = drift[o] > 0, !.used = drift[o]]
    BY <1>2
  <2>3. NoDoc.tokens = {} /\ NoDoc.used = 0 /\ NoDoc.there = FALSE
    BY <1>7
  <2>4. CASE drift[o] > 0
    <3>1. (drift[o] > 0) = TRUE
      BY <2>4
    <3>2. owner[o] = [NoDoc EXCEPT !.there = TRUE, !.used = drift[o]]
      BY <2>2, <3>1
    <3> QED
      BY <1>7, <2>1, <2>3, <3>2 DEF Doc
  <2>5. CASE ~ (drift[o] > 0)
    <3>1. (drift[o] > 0) = FALSE /\ drift[o] = 0
      BY <2>1, <2>5
    <3>2. owner[o] = [NoDoc EXCEPT !.there = FALSE, !.used = 0]
      BY <2>2, <3>1
    <3>3. owner[o] = NoDoc
      BY <1>7, <2>3, <3>2 DEF Doc
    <3> QED
      BY <1>7, <2>3, <3>1, <3>3
  <2> QED
    BY <2>4, <2>5
<1>9. owner \in [Owner -> Doc]
  <2>1. DOMAIN owner = Owner /\ owner = [o \in Owner |-> owner[o]]
    BY <1>2
  <2> QED
    BY <1>8, <2>1
<1>10. Balanced(InHand(queue), of, owner, drift)
  <2>1. \A o \in Owner : drift[o] \in Nat /\ Cardinality(Has(o, of)) = 0
    BY <1>5, <1>6, <1>0
  <2>2. \A o \in Owner : owner[o].used = Cardinality(Has(o, of)) + drift[o]
    BY <1>8, <2>1
  <2> QED
    BY <1>3, <1>8, <2>2 DEF Balanced
<1>11. TokensFit(InHand(queue), owner) /\ DoneFits(InHand(queue), owner, done)
  BY <1>1, <1>3, <1>8 DEF TokensFit, DoneFits
<1>12. Typed
  <2>1. /\ of \in [Event -> Owner \cup {Gone}] /\ saved \subseteq Event /\ listed \subseteq Owner /\ unchecked \subseteq Owner
        /\ mode \in {"relay", "resuming", "reconciling"}
        /\ done \in {"nothing", "charged", "queued", "cleared"}
    BY <1>1
  <2>2. seen \in 0 .. MaxSeen /\ sweeps \in 0 .. MaxSweeps /\ stops \in 0 .. MaxStops
    BY <1>1, UsageAssumption
  <2> QED
    BY <1>9, <1>0, <2>1, <2>2 DEF Typed
<1>13. TypeOK
  BY <1>3, <1>4, <1>12, Types
<1> QED
  BY <1>1, <1>3, <1>4, <1>10, <1>11, <1>13 DEF UsageIndInv

LEMMA UsageStep == Steady /\ UsageIndInv /\ [Next]_vars => UsageIndInv' /\ IdleStep /\ EnforcedStep
<1> SUFFICES ASSUME Steady, UsageIndInv, [Next]_vars PROVE UsageIndInv' /\ IdleStep /\ EnforcedStep
  OBVIOUS
<1>1. CASE UNCHANGED vars
  <2>1. /\ stops' \in 0 .. MaxStops /\ done' \in {"nothing", done}
        /\ mode' \in {"relay", "resuming", "reconciling"} /\ listed' \subseteq Owner /\ unchecked' \subseteq Owner
        /\ (mode' = "reconciling" => InHand(queue) = {})
        /\ UNCHANGED << of, owner, queue, saved, drift, seen, sweeps >>
    BY <1>1 DEF vars, upkeepVars, UsageIndInv, TypeOK
  <2> QED
    BY <2>1, Unmoved
<1>2. CASE (Produce \/ Stop) /\ UNCHANGED upkeepVars
  <2>1. CASE Produce
    BY <1>2, <2>1, SaveStep, RequestDeletionStep, TouchStep, SweepStep DEF Produce
  <2>2. CASE Stop
    BY <1>2, <2>2, StopStep
  <2> QED
    BY <1>2, <2>1, <2>2
<1>3. CASE Works /\ Process /\ UNCHANGED upkeepVars
  <2>1. mode # "reconciling" /\ UNCHANGED upkeepVars
    BY <1>3 DEF Works
  <2>2. PICK n \in DOMAIN queue :
          /\ Turn(n)
          /\ \/ ApplySave(n) \/ ApplyTouch(n)
             \/ EndCheck(n) \/ CorrectUsage(n) \/ PrepareCheck(n) \/ PrepareDeletion(n)
             \/ RemoveEvents(n) \/ PromoteEvents(n) \/ EventsApplied(n)
             \/ CreateOwners(n) \/ Charge(n) \/ AccountingApplied(n)
             \/ QueueDestinations(n) \/ ClearTokens(n) \/ Continue(n) \/ Finish(n)
    BY <1>3 DEF Process
  <2>3. CASE ApplySave(n) \/ ApplyTouch(n) \/ EndCheck(n) \/ Finish(n)
    BY <2>1, <2>2, <2>3, ApplySaveStep, ApplyTouchStep, EndCheckStep, FinishStep
  <2>4. CASE PrepareCheck(n) \/ PrepareDeletion(n) \/ EventsApplied(n) \/ AccountingApplied(n) \/ Continue(n)
    BY <2>1, <2>2, <2>4, PrepareCheckStep, PrepareDeletionStep, EventsAppliedStep, AccountingAppliedStep,
       ContinueStep
  <2>5. CASE RemoveEvents(n) \/ PromoteEvents(n)
    BY <2>1, <2>2, <2>5, RemoveEventsStep, PromoteEventsStep
  <2>6. CASE CorrectUsage(n) \/ CreateOwners(n) \/ Charge(n) \/ ClearTokens(n)
    BY <2>1, <2>2, <2>6, CorrectUsageStep, CreateOwnersStep, ChargeStep, ClearTokensStep
  <2>7. CASE QueueDestinations(n)
    BY <2>1, <2>2, <2>7, QueueDestinationsStep
  <2> QED
    BY <2>2, <2>3, <2>4, <2>5, <2>6, <2>7
<1>4. CASE Works /\ (\E n \in DOMAIN queue : FailDeletion(n)) /\ UNCHANGED upkeepVars
  <2>1. mode # "reconciling" /\ UNCHANGED upkeepVars
    BY <1>4 DEF Works
  <2> QED
    BY <1>4, <2>1, FailDeletionStep
<1>5. CASE Works /\ \E n \in DOMAIN queue : FailCheck(n)
  <2>1. mode # "reconciling"
    BY <1>5 DEF Works
  <2> QED
    BY <1>5, <2>1, FailCheckStep
<1>6. CASE Upkeep
  BY <1>6, StopStep, ReconcileStep DEF Upkeep
<1> QED
  BY <1>1, <1>2, <1>3, <1>4, <1>5, <1>6 DEF Next

LEMMA UsageImplied == UsageIndInv => UsageInv
<1> SUFFICES ASSUME UsageIndInv PROVE UsageInv
  OBVIOUS
<1>1. ASSUME NEW n \in StartedWorkflows
      PROVE  /\ n \in DOMAIN queue /\ queue[n].phase # "queued"
             /\ queue[n] \in InHand(queue)
             /\ queue[n] \in Op /\ Shaped(queue[n]) /\ Meets(queue[n], of, saved)
  BY <1>1, Operations DEF StartedWorkflows, Started, InHand
<1>2. OneAtATime
  BY <1>1 DEF OneAtATime, UsageIndInv, QueueFits, Apart
<1>3. ASSUME NEW o \in Owner PROVE Has(o, of) = Stored(o)
  BY DEF Has, Stored
<1>4. UsageBalances
  <2> SUFFICES ASSUME NEW o \in Owner
               PROVE  /\ StartedWorkflows = {} => owner[o].used + 0 = Cardinality(Stored(o)) + drift[o]
                      /\ \A n \in StartedWorkflows :
                           owner[o].used + Uncharged(queue[n], o) = Cardinality(Stored(o)) + drift[o]
    BY DEF UsageBalances
  <2>1. /\ owner[o].used \in Int /\ drift[o] \in Nat /\ Cardinality(Stored(o)) \in Nat
    BY <1>3, OwnerTypes
  <2>2. ASSUME StartedWorkflows = {} PROVE owner[o].used + 0 = Cardinality(Stored(o)) + drift[o]
    <3>1. InHand(queue) = {}
      BY <2>2 DEF StartedWorkflows, Started, InHand
    <3>2. owner[o].used = Cardinality(Stored(o)) + drift[o]
      BY <1>3, <3>1, NothingInHand
    <3> QED
      BY <2>1, <3>2
  <2>3. ASSUME NEW n \in StartedWorkflows
        PROVE owner[o].used + Uncharged(queue[n], o) = Cardinality(Stored(o)) + drift[o]
    <3> DEFINE op == queue[n]
    <3>1. op \in InHand(queue) /\ op \in Op /\ Shaped(op) /\ Meets(op, of, saved)
      BY <1>1, <2>3
    <3>2. owner[o].used = Cardinality(IF Unsettled(op, o, owner) THEN Had(op, o, of) ELSE Has(o, of)) + drift[o]
      BY <3>1 DEF UsageIndInv, Balanced
    <3> HIDE DEF op
    <3>3. CASE Unsettled(op, o, owner)
      <4>1. \A a \in op.acts : of[a.event] \in {a.from, a.to}
        BY <3>1, <3>3 DEF Meets, Unsettled
      <4>2. /\ Cardinality(Has(o, of)) \in Nat /\ Cardinality(Had(op, o, of)) \in Nat
            /\ Cardinality(Come(op, o, of)) \in Nat /\ Cardinality(Left(op, o, of)) \in Nat
            /\ Cardinality(Has(o, of)) =
                 Cardinality(Had(op, o, of)) + Cardinality(Come(op, o, of)) - Cardinality(Left(op, o, of))
        BY <3>1, <4>1, HasHad
      <4>3. Uncharged(op, o) = Cardinality(Come(op, o, of)) - Cardinality(Left(op, o, of))
        BY <3>3 DEF Uncharged, Unsettled, Come, Left
      <4>4. owner[o].used = Cardinality(Had(op, o, of)) + drift[o]
        BY <3>2, <3>3
      <4>5. owner[o].used + Uncharged(op, o) = Cardinality(Has(o, of)) + drift[o]
        BY <2>1, <4>2, <4>3, <4>4
      <4> QED
        BY <1>3, <4>5 DEF op
    <3>4. CASE ~ Unsettled(op, o, owner)
      <4>1. Uncharged(op, o) = 0
        BY <3>4 DEF Uncharged, Unsettled
      <4>2. owner[o].used = Cardinality(Stored(o)) + drift[o]
        BY <1>3, <3>2, <3>4
      <4> QED
        BY <2>1, <4>1, <4>2 DEF op
    <3> QED
      BY <3>3, <3>4
  <2> QED
    BY <2>2, <2>3
<1>5. TokensAreOwned
  BY DEF UsageIndInv, TokensFit, InHand, TokensAreOwned
<1> QED
  BY <1>2, <1>4, <1>5 DEF UsageIndInv, UsageInv

LEMMA UsageAlways == Steady => (Spec => []UsageIndInv)
<1> SUFFICES ASSUME Steady PROVE Spec => []UsageIndInv
  OBVIOUS
<1>1. UsageIndInv /\ [Next]_vars => UsageIndInv'
  BY UsageStep
<1> QED
  BY <1>1, UsageInit, PTL DEF Spec

\* Every owner is charged for what it stores, one workflow at a time, and no
\* token outlives its workflow: EventSaver, prune-workflow.js,
\* pending-workflows.js and stored-owner-accounting.js together.
THEOREM ChargedOnce == Steady => (Spec => []UsageInv)
<1> SUFFICES ASSUME Steady PROVE Spec => []UsageInv
  OBVIOUS
<1>1. Spec => []UsageIndInv
  BY UsageAlways
<1> QED
  BY <1>1, UsageImplied, PTL

\* maybeDeleteEmptyOwner takes an owner only when nothing depends on it.
THEOREM IdleOwnersOnly == Steady => (Spec => OnlyIdleOwnersGo)
<1> SUFFICES ASSUME Steady PROVE Spec => OnlyIdleOwnersGo
  OBVIOUS
<1>1. Spec => []UsageIndInv
  BY UsageAlways
<1>2. UsageIndInv /\ [Next]_vars => IdleStep
  BY UsageStep
<1> QED
  BY <1>1, <1>2, PTL DEF Spec, OnlyIdleOwnersGo, IdleStep

\* processPruneCheck and finishOrContinue let a check go only when its owner is
\* within the limit, active again or gone; processPendingWorkflow uses one up
\* only before it has begun.
THEOREM ChecksAreKept == Steady => (Spec => ChecksEnforce)
<1> SUFFICES ASSUME Steady PROVE Spec => ChecksEnforce
  OBVIOUS
<1>1. Spec => []UsageIndInv
  BY UsageAlways
<1>2. UsageIndInv /\ [Next]_vars => EnforcedStep
  BY UsageStep
<1> QED
  BY <1>1, <1>2, PTL DEF Spec, ChecksEnforce, EnforcedStep
================================================================================
