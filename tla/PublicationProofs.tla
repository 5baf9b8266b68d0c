--------------------------- MODULE PublicationProofs ---------------------------
(***************************************************************************)
(* Nothing that was accepted is lost, nothing is removed without a reason, *)
(* and no message undoes what was there before it: for any events,         *)
(* addresses, deletions, number of messages and of failures.               *)
(***************************************************************************)
EXTENDS PublicationProps, SequenceTheorems, TLAPS

-------------------------------------------------------------------------------
(***************************************************************************)
(* The queue as a set: the order matters to nothing proved here.           *)
(***************************************************************************)
Ops == {queue[i] : i \in DOMAIN queue}

LEMMA OpKinds ==
  /\ \A o \in Op : /\ o.sub \in Sub \cup {None}
                   /\ Inserting(o) => o.sub \in Sub /\ o.insert \in Event
                   /\ ~ Inserting(o) => o.delete \subseteq Event
  /\ \A s \in Sub, e \in Event : LET o == [sub |-> s, insert |-> e] IN
       o \in Op /\ Inserting(o) /\ o.sub = s /\ o.insert = e
  /\ \A s \in Sub \cup {None}, S \in SUBSET Event : LET o == [sub |-> s, delete |-> S] IN
       o \in Op /\ ~ Inserting(o) /\ o.sub = s /\ o.delete = S
BY DEF Op, Inserting

LEMMA QueuedOps == \A e : Queued(e) <=> \E o \in Ops : Inserting(o) /\ o.insert = e
BY DEF Queued, Ops

LEMMA QueuedOpsNext == \A e : Queued(e)' <=> \E o \in Ops' : Inserting(o) /\ o.insert = e
BY DEF Queued, Ops

LEMMA OpsAt ==
  /\ queue \in Seq(Op) => \A o : o \in Ops <=> \E i \in 1 .. Len(queue) : queue[i] = o
  /\ queue' \in Seq(Op) => \A o : o \in Ops' <=> \E i \in 1 .. Len(queue') : queue'[i] = o
BY DEF Ops

\* An operation accepted somewhere in the queue joins the others.
LEMMA Accepting ==
  ASSUME queue \in Seq(Op), passed \in [Sub -> Nat],
         NEW s \in Sub, NEW o \in Op, Accept(s, o)
  PROVE  queue' \in Seq(Op) /\ Ops' = Ops \cup {o}
<1>1. PICK i \in Len(queue) - passed[s] .. Len(queue) :
        /\ i >= 0
        /\ queue' = SubSeq(queue, 1, i) \o << o >> \o SubSeq(queue, i + 1, Len(queue))
  BY DEF Accept
<1>2. i \in 0 .. Len(queue)
  BY <1>1
<1> DEFINE before == SubSeq(queue, 1, i)
           after == SubSeq(queue, i + 1, Len(queue))
<1>3. /\ before \in Seq(Op) /\ Len(before) = i
      /\ \A j \in 1 .. i : before[j] = queue[j]
  BY <1>2
<1>4. /\ after \in Seq(Op) /\ Len(after) = Len(queue) - i
      /\ \A j \in 1 .. Len(queue) - i : after[j] = queue[i + j]
  BY <1>2
<1>5. queue' = before \o << o >> \o after
  BY <1>1
<1> HIDE DEF before, after
<1>6. /\ queue' \in Seq(Op) /\ Len(queue') = Len(queue) + 1
      /\ \A j \in 1 .. i : queue'[j] = before[j]
      /\ queue'[i + 1] = o
      /\ \A j \in i + 2 .. Len(queue) + 1 : queue'[j] = after[j - (i + 1)]
  <2> DEFINE most == before \o << o >>
  <2>1. << o >> \in Seq(Op) /\ Len(<< o >>) = 1 /\ << o >>[1] = o
    OBVIOUS
  <2>2. /\ most \in Seq(Op) /\ Len(most) = i + 1 /\ most[i + 1] = o
        /\ \A j \in 1 .. i : most[j] = before[j]
    BY <1>2, <1>3, <2>1, ConcatProperties
  <2> HIDE DEF most
  <2>3. /\ most \o after \in Seq(Op) /\ Len(most \o after) = Len(queue) + 1
        /\ \A j \in 1 .. Len(queue) + 1 :
             (most \o after)[j] = IF j <= i + 1 THEN most[j] ELSE after[j - (i + 1)]
    <3>1. /\ most \o after \in Seq(Op) /\ Len(most \o after) = Len(most) + Len(after)
          /\ \A j \in 1 .. Len(most) + Len(after) :
               (most \o after)[j] = IF j <= Len(most) THEN most[j] ELSE after[j - Len(most)]
      <4>1. most \in Seq(Op) /\ after \in Seq(Op)
        BY <1>4, <2>2
      <4> HIDE DEF after
      <4> QED
        BY ONLY <4>1, ConcatProperties, Zenon
    <3>2. Len(most) = i + 1 /\ Len(most) + Len(after) = Len(queue) + 1
      BY <1>2, <1>4, <2>2
    <3> QED
      BY <3>1, <3>2
  <2>4. queue' = most \o after
    BY <1>5 DEF most
  <2> QED
    BY <1>2, <2>2, <2>3, <2>4
<1>7. \A j \in i + 2 .. Len(queue) + 1 : queue'[j] = queue[j - 1]
  <2> SUFFICES ASSUME NEW j \in i + 2 .. Len(queue) + 1 PROVE queue'[j] = queue[j - 1]
    OBVIOUS
  <2>1. j - (i + 1) \in 1 .. Len(queue) - i /\ i + (j - (i + 1)) = j - 1
    BY <1>2
  <2>2. after[j - (i + 1)] = queue[i + (j - (i + 1))]
    BY <1>4, <2>1
  <2> QED
    BY <1>6, <2>1, <2>2
<1>8. Ops' \subseteq Ops \cup {o}
  <2> SUFFICES ASSUME NEW j \in 1 .. Len(queue) + 1 PROVE queue'[j] \in Ops \cup {o}
    BY <1>6, OpsAt
  <2>1. CASE j <= i
    BY <1>2, <1>3, <1>6, <2>1, OpsAt
  <2>2. CASE j > i + 1
    BY <1>2, <1>7, <2>2, OpsAt
  <2> QED
    BY <1>2, <1>6, <2>1, <2>2
<1>9. Ops \subseteq Ops'
  <2> SUFFICES ASSUME NEW j \in 1 .. Len(queue) PROVE \E k \in 1 .. Len(queue') : queue'[k] = queue[j]
    BY <1>6, OpsAt
  <2>1. CASE j <= i
    <3>1. j \in 1 .. Len(queue') /\ queue'[j] = queue[j]
      BY <1>2, <1>3, <1>6, <2>1
    <3> QED
      BY <3>1
  <2>2. CASE j > i
    <3>1. j + 1 \in 1 .. Len(queue') /\ queue'[j + 1] = queue[j]
      BY <1>2, <1>6, <1>7, <2>2
    <3> QED
      BY <3>1
  <2> QED
    BY <1>2, <2>1, <2>2
<1>10. o \in Ops'
  BY <1>2, <1>6, OpsAt
<1> QED
  BY <1>6, <1>8, <1>9, <1>10

LEMMA Appending ==
  ASSUME queue \in Seq(Op), NEW o \in Op, queue' = Append(queue, o)
  PROVE  queue' \in Seq(Op) /\ Ops' = Ops \cup {o}
<1>1. /\ queue' \in Seq(Op) /\ Len(queue') = Len(queue) + 1 /\ queue'[Len(queue) + 1] = o
      /\ \A j \in 1 .. Len(queue) : queue'[j] = queue[j]
  OBVIOUS
<1>2. Ops' \subseteq Ops \cup {o}
  <2> SUFFICES ASSUME NEW j \in 1 .. Len(queue) + 1 PROVE queue'[j] \in Ops \cup {o}
    BY <1>1, OpsAt
  <2> QED
    BY <1>1, OpsAt
<1>3. Ops \cup {o} \subseteq Ops'
  BY <1>1, OpsAt
<1> QED
  BY <1>1, <1>2, <1>3

LEMMA Applying ==
  ASSUME queue \in Seq(Op), queue # << >>, queue' = Tail(queue)
  PROVE  queue' \in Seq(Op) /\ Head(queue) \in Op /\ Ops = Ops' \cup {Head(queue)}
<1>1. /\ queue' \in Seq(Op) /\ Len(queue') = Len(queue) - 1 /\ Len(queue) >= 1
      /\ \A j \in 1 .. Len(queue) - 1 : queue'[j] = queue[j + 1]
      /\ Head(queue) = queue[1] /\ queue[1] \in Op
  OBVIOUS
<1>2. Ops' \cup {Head(queue)} \subseteq Ops
  BY <1>1, OpsAt
<1>3. Ops \subseteq Ops' \cup {Head(queue)}
  <2> SUFFICES ASSUME NEW j \in 2 .. Len(queue) PROVE \E k \in 1 .. Len(queue') : queue'[k] = queue[j]
    BY <1>1, OpsAt
  <2>1. j - 1 \in 1 .. Len(queue') /\ queue'[j - 1] = queue[j]
    BY <1>1
  <2> QED
    BY <2>1
<1> QED
  BY <1>1, <1>2, <1>3

\* Stamps that were passed are counted for those that write.
LEMMA Counted ==
  ASSUME passed \in [Sub -> Nat], NEW s, NEW i \in Nat
  PROVE  /\ Counting(s, i) \in [Sub -> Nat]
         /\ \A t \in Sub : Counting(s, i)[t] > 0 => t # s /\ (passed[t] > 0 \/ t \in Writing)
BY DEF Counting

-------------------------------------------------------------------------------
(***************************************************************************)
(* The inductive invariant.                                                *)
(***************************************************************************)
\* A key holds an event of that key; a message has an event once it came.
Placed ==
  /\ \A r \in DOMAIN stored : stored[r] # None => Ref[stored[r]] = r
  /\ \A s \in Sub : pc[s] = "none" <=> event[s] = None

\* What a handler is about to show is kept.
Relayable == \A s \in Sub : pc[s] = "relay" => Kept(event[s])

\* Whatever is going to be removed may be.
Warranted(o) ==
  \A e \in o.delete : (o.sub = None /\ e \in late) \/ (o.sub \in Sub /\ MayRemove(o.sub, e))
Justified ==
  /\ \A s \in Sub : \A e \in hits[s] : MayRemove(s, e)
  /\ due \subseteq late
  /\ \A o \in Ops : ~ Inserting(o) => Warranted(o)

\* No event in S that its author's deletion s names has been there from the first.
Spares(s, S) == \A e \in Targets[event[s]] \cap known[s] : Author[e] = Author[event[s]] => e \notin S

\* What the checks of a message excluded stays excluded: of the events that it
\* found some may go, and none comes.
Undeleted(s) == \A d \in Deletion \cap known[s] : event[s] \in Targets[d] \ Deletion => Author[d] # Author[event[s]]
Latest(s) == \A f \in known[s] : << f, event[s] >> \notin Newer
Checked ==
  /\ \A s \in Sub : /\ known[s] \subseteq Stored
                    /\ pc[s] \in {"find", "check", "select", "remove"} => event[s] \in Deletion
                    /\ pc[s] \in {"check", "select"} => event[s] \notin Keyed /\ Spares(s, Private)
                    /\ pc[s] = "select" => Spares(s, Deletion)
                    /\ pc[s] \in {"version", "save"} => Undeleted(s)
                    /\ pc[s] = "save" => s \in blind \/ Latest(s)
  /\ \A o \in Ops : Inserting(o) => /\ event[o.sub] = o.insert /\ Undeleted(o.sub)
                                    /\ o.sub \in blind \/ Latest(o.sub)

PublicationIndInv == TypeOK /\ Placed /\ AcceptedIsKept /\ Relayable /\ Justified /\ Checked

-------------------------------------------------------------------------------
(***************************************************************************)
(* A step of a handler that leaves index and queue alone.                  *)
(***************************************************************************)
LEMMA Moves ==
  ASSUME PublicationIndInv, UNCHANGED << event, stored, known, queue, due, late, gone >>,
         blind \subseteq blind', blind' \subseteq Sub, NEW s \in Sub, InFlight(s),
         pc' = [pc EXCEPT ![s] = pc'[s]], pc'[s] \in Handling \cup Answers \cup {"lost"},
         hits' \in [Sub -> SUBSET Event], passed' \in [Sub -> Nat], live' \subseteq Event,
         \A t \in Sub : hits'[t] # {} => pc'[t] = "remove",
         \A t \in Sub : \A e \in hits'[t] : MayRemove(t, e),
         \A t \in Sub : passed'[t] > 0 => pc'[t] \in {"remove", "save"},
         \A e \in live' : Kept(e),
         pc'[s] \in {"relay", "ok", "duplicate"} => Kept(event[s]),
         pc'[s] \in {"find", "check", "select", "remove"} => event[s] \in Deletion,
         pc'[s] \in {"check", "select"} => event[s] \notin Keyed /\ Spares(s, Private),
         pc'[s] = "select" => Spares(s, Deletion),
         pc'[s] \in {"version", "save"} => Undeleted(s),
         pc'[s] = "save" => s \in blind' \/ Latest(s)
  PROVE  PublicationIndInv'
<1> USE DEF PublicationIndInv
<1>1. /\ UNCHANGED << Stored, Ops >>
      /\ \A e : Kept(e)' <=> Kept(e)
      /\ \A t, e : MayRemove(t, e)' <=> MayRemove(t, e)
      /\ \A t : (Undeleted(t)' <=> Undeleted(t)) /\ (Latest(t)' <=> Latest(t))
      /\ \A t, S : Spares(t, S)' <=> Spares(t, S)
  BY DEF Stored, Ops, Kept, Queued, MayRemove, Undeleted, Latest, Spares
<1>2. \A t \in Sub : t # s => pc'[t] = pc[t]
  BY DEF TypeOK
<1>3. TypeOK'
  <2>1. pc' \in [Sub -> {"none", "lost"} \cup Handling \cup Answers]
    <3> DEFINE Pc == {"none", "lost"} \cup Handling \cup Answers
    <3>1. pc \in [Sub -> Pc] /\ pc'[s] \in Pc
      BY DEF TypeOK
    <3> HIDE DEF Pc
    <3>2. [pc EXCEPT ![s] = pc'[s]] \in [Sub -> Pc]
      BY <3>1
    <3> QED
      BY <3>2 DEF Pc
  <2>2. \A t \in Sub : passed'[t] > 0 => t \in Writing'
    BY DEF Writing
  <2> QED
    BY <1>1, <2>1, <2>2 DEF TypeOK
<1>4. Placed'
  <2>1. pc[s] # "none" /\ pc'[s] # "none"
    BY DEF InFlight, Handling, Answers
  <2> QED
    BY <1>2, <2>1 DEF Placed
<1>5. AcceptedIsKept' /\ Relayable'
  BY <1>1, <1>2 DEF AcceptedIsKept, Relayable
<1>6. Justified'
  BY <1>1 DEF Justified, Warranted
<1>7. Checked'
  <2>1. \A t \in Sub : t # s => pc'[t] = pc[t] /\ (t \in blind => t \in blind')
    BY <1>2
  <2> QED
    BY <1>1, <2>1 DEF Checked
<1> QED
  BY <1>3, <1>4, <1>5, <1>6, <1>7

\* What the event of a message that is being handled is.
LEMMA Handled ==
  ASSUME PublicationIndInv, NEW s \in Sub, InFlight(s)
  PROVE  event[s] \in Event
BY DEF PublicationIndInv, TypeOK, Placed, InFlight, Handling

\* The more recent of two versions is under their key, if it is stored.
LEMMA NewerIsFound ==
  ASSUME PublicationIndInv, NEW s \in Sub, event[s] \in Event, ~ Outdated(event[s])
  PROVE  Latest(s)
<1> SUFFICES ASSUME NEW f \in known[s], << f, event[s] >> \in Newer PROVE FALSE
  BY DEF Latest
<1>1. f \in Stored /\ stored[Ref[f]] = f
  BY DEF PublicationIndInv, Checked, TypeOK
<1>2. Ref[f] = Ref[event[s]]
  BY PublicationAssumption
<1> QED
  BY <1>1, <1>2 DEF Outdated

LEMMA Looks ==
  ASSUME PublicationIndInv, NEW s \in Sub,
         \/ Ready(s) \/ Search(s) \/ FindPrivate(s) \/ FindForeign(s)
         \/ CheckDeleted(s) \/ CheckVersion(s) \/ MissVersion(s)
  PROVE  PublicationIndInv'
<1> USE DEF Goto
<1>1. /\ UNCHANGED << event, stored, known, queue, due, late, gone, hits, passed, live >>
      /\ blind \subseteq blind' /\ blind' \subseteq blind \cup {s}
      /\ pc[s] \in {"ready", "search", "find", "check", "deleted", "version"}
      /\ pc' = [pc EXCEPT ![s] = pc'[s]]
      /\ pc'[s] \in {"relay", "search", "retry", "duplicate", "find", "check", "select", "deleted",
                     "refused", "version", "save"}
  BY DEF Ready, Search, FindPrivate, FindForeign, CheckDeleted, CheckVersion, MissVersion, Quiet, Same,
         PublicationIndInv, TypeOK
<1>2. InFlight(s) /\ event[s] \in Event /\ pc'[s] \in Handling \cup Answers \cup {"lost"}
  BY <1>1, Handled DEF InFlight, Handling, Answers
<1>3. \A t \in Sub : /\ hits[t] # {} => pc'[t] = "remove"
                     /\ \A e \in hits[t] : MayRemove(t, e)
                     /\ passed[t] > 0 => pc'[t] \in {"remove", "save"}
  BY <1>1 DEF PublicationIndInv, TypeOK, Justified, Writing
<1>4. \A e \in live : Kept(e)
  BY DEF PublicationIndInv, AcceptedIsKept
<1>5. known[s] \subseteq Stored
  BY DEF PublicationIndInv, Checked
<1>6. pc'[s] \in {"relay", "ok", "duplicate"} => Kept(event[s])
  BY <1>1 DEF Ready, Search, FindPrivate, FindForeign, CheckDeleted, CheckVersion, MissVersion, Kept,
              PublicationIndInv, TypeOK
<1>7. pc'[s] \in {"find", "check", "select", "remove"} => event[s] \in Deletion
  BY <1>1 DEF Ready, Search, FindPrivate, FindForeign, CheckDeleted, CheckVersion, MissVersion,
              PublicationIndInv, TypeOK, Checked
<1>8. /\ pc'[s] \in {"check", "select"} => event[s] \notin Keyed /\ Spares(s, Private)
      /\ pc'[s] = "select" => Spares(s, Deletion)
  <2>1. CASE FindPrivate(s)
    <3>1. pc'[s] \in {"check", "refused"} /\ (pc'[s] = "check" => Own(event[s]) \cap Private = {})
      BY <2>1 DEF FindPrivate, PublicationIndInv, TypeOK
    <3> QED
      BY <1>5, <2>1, <3>1 DEF FindPrivate, Own, Spares
  <2>2. CASE FindForeign(s)
    <3>1. /\ pc[s] = "check" /\ pc'[s] \in {"select", "refused"}
          /\ pc'[s] = "select" => Targets[event[s]] \cap Stored \subseteq Own(event[s]) \ Deletion
      BY <2>2 DEF FindForeign, PublicationIndInv, TypeOK
    <3>2. event[s] \notin Keyed /\ Spares(s, Private)
      BY <3>1 DEF PublicationIndInv, Checked
    <3> QED
      BY <1>5, <3>1, <3>2 DEF Spares
  <2>3. CASE Ready(s) \/ Search(s) \/ CheckDeleted(s) \/ CheckVersion(s) \/ MissVersion(s)
    BY <1>1, <2>3 DEF Ready, Search, CheckDeleted, CheckVersion, MissVersion, PublicationIndInv, TypeOK
  <2> QED
    BY <2>1, <2>2, <2>3
<1>9. pc'[s] \in {"version", "save"} => Undeleted(s)
  <2>1. CASE CheckDeleted(s)
    <3>1. pc'[s] # "refused" => ~ Disowned(event[s])
      BY <2>1 DEF CheckDeleted, PublicationIndInv, TypeOK
    <3> QED
      BY <1>5, <3>1 DEF Disowned, Undeleted
  <2>2. CASE CheckVersion(s) \/ MissVersion(s)
    BY <2>2 DEF CheckVersion, MissVersion, PublicationIndInv, Checked
  <2>3. CASE Ready(s) \/ Search(s) \/ FindPrivate(s) \/ FindForeign(s)
    BY <1>1, <2>3 DEF Ready, Search, FindPrivate, FindForeign, PublicationIndInv, TypeOK
  <2> QED
    BY <2>1, <2>2, <2>3
<1>10. pc'[s] = "save" => s \in blind' \/ Latest(s)
  <2>1. CASE MissVersion(s)
    BY <2>1 DEF MissVersion
  <2>2. CASE ~ MissVersion(s)
    <3>1. pc'[s] = "save" => ~ Outdated(event[s])
      BY <1>1, <2>2 DEF Ready, Search, FindPrivate, FindForeign, CheckDeleted, CheckVersion,
                        PublicationIndInv, TypeOK
    <3> QED
      BY <1>2, <3>1, NewerIsFound
  <2> QED
    BY <2>1, <2>2
<1>11. /\ hits' \in [Sub -> SUBSET Event] /\ passed' \in [Sub -> Nat] /\ live' \subseteq Event
       /\ blind' \subseteq Sub
  BY <1>1 DEF PublicationIndInv, TypeOK
<1> QED
  BY <1>1, <1>2, <1>3, <1>4, <1>6, <1>7, <1>8, <1>9, <1>10, <1>11, Moves

\* A deletion goes on with what it may remove: by the key of all that it names, or
\* as the author of what two searches before have not found, or not yet.
LEMMA Finds ==
  ASSUME PublicationIndInv, NEW s \in Sub, FindKeyed(s) \/ Select(s)
  PROVE  PublicationIndInv'
<1>1. /\ Same /\ UNCHANGED << queue, passed, live >> /\ pc[s] \in {"find", "select"}
      /\ pc' = [pc EXCEPT ![s] = pc'[s]] /\ pc'[s] \in {"remove", "refused"}
  BY DEF FindKeyed, Select, Goto, PublicationIndInv, TypeOK
<1>2. /\ event[s] \in Deletion /\ event[s] \in Event /\ hits[s] = {} /\ ~ passed[s] > 0
      /\ Targets[event[s]] \subseteq Event /\ hits \in [Sub -> SUBSET Event]
  <2>1. event[s] \in Deletion /\ hits[s] = {} /\ ~ passed[s] > 0 /\ hits \in [Sub -> SUBSET Event]
    BY <1>1 DEF PublicationIndInv, Checked, TypeOK, Writing
  <2> QED
    BY <2>1, PublicationAssumption
<1>3. /\ hits' \in [Sub -> SUBSET Event]
      /\ \A t \in Sub : t # s => hits'[t] = hits[t]
      /\ pc'[s] = "refused" => hits'[s] = {}
      /\ \A e \in hits'[s] : MayRemove(s, e)
  <2>1. CASE FindKeyed(s)
    <3> DEFINE found == {e \in Targets[event[s]] \cap Stored \cap Private : Key[e] = Author[event[s]]}
    <3>1. found \in SUBSET Event /\ event[s] \in Keyed /\ \A e \in found : MayRemove(s, e)
      BY <1>2, <2>1 DEF FindKeyed, MayRemove
    <3>2. \/ hits' = [hits EXCEPT ![s] = found] /\ pc'[s] = "remove"
          \/ hits' = hits /\ pc'[s] = "refused"
      BY <2>1 DEF FindKeyed, Goto, PublicationIndInv, TypeOK
    <3> HIDE DEF found
    <3> QED
      BY <1>2, <3>1, <3>2
  <2>2. CASE Select(s)
    <3>1. hits' = [hits EXCEPT ![s] = Own(event[s])] /\ pc'[s] = "remove" /\ pc[s] = "select"
      BY <2>2 DEF Select, Goto, PublicationIndInv, TypeOK
    <3>2. Own(event[s]) \in SUBSET Event
      BY <1>2 DEF Own
    <3>3. event[s] \notin Keyed /\ Spares(s, Private) /\ Spares(s, Deletion)
      BY <3>1 DEF PublicationIndInv, Checked
    <3>4. \A e \in Own(event[s]) : MayRemove(s, e)
      BY <1>2, <3>3 DEF Own, Spares, MayRemove
    <3> QED
      BY <1>2, <3>1, <3>2, <3>4
  <2> QED
    BY <2>1, <2>2
<1>4. \A t \in Sub : /\ hits'[t] # {} => pc'[t] = "remove"
                     /\ \A e \in hits'[t] : MayRemove(t, e)
                     /\ passed[t] > 0 => pc'[t] \in {"remove", "save"}
  BY <1>1, <1>2, <1>3 DEF PublicationIndInv, TypeOK, Justified, Writing
<1>5. passed' \in [Sub -> Nat] /\ live' \subseteq Event /\ \A e \in live' : Kept(e)
  BY <1>1 DEF PublicationIndInv, TypeOK, AcceptedIsKept
<1>6. InFlight(s) /\ pc'[s] \in Handling \cup Answers \cup {"lost"}
  BY <1>1 DEF InFlight, Handling, Answers
<1>7. /\ UNCHANGED << event, stored, known, due, late, gone >>
      /\ blind \subseteq blind' /\ blind' \subseteq Sub
  BY <1>1 DEF Same, PublicationIndInv, TypeOK
<1> QED
  BY <1>1, <1>2, <1>3, <1>4, <1>5, <1>6, <1>7, Moves

LEMMA Broadcasts ==
  ASSUME PublicationIndInv, NEW s \in Sub, Broadcast(s)
  PROVE  PublicationIndInv'
<1>1. /\ Same /\ UNCHANGED << queue, hits, passed >> /\ pc[s] = "relay"
      /\ pc' = [pc EXCEPT ![s] = pc'[s]] /\ pc'[s] \in {"ok", "retry"}
      /\ live' \subseteq live \cup {event[s]}
  BY DEF Broadcast, Goto, PublicationIndInv, TypeOK
<1>2. InFlight(s) /\ event[s] \in Event /\ Kept(event[s])
  BY <1>1, Handled DEF InFlight, Handling, PublicationIndInv, Relayable
<1>3. \A t \in Sub : /\ hits[t] # {} => pc'[t] = "remove"
                     /\ \A e \in hits[t] : MayRemove(t, e)
                     /\ passed[t] > 0 => pc'[t] \in {"remove", "save"}
  <2>1. hits[s] = {} /\ ~ passed[s] > 0 /\ \A t \in Sub : t # s => pc'[t] = pc[t]
    BY <1>1 DEF PublicationIndInv, TypeOK, Writing
  <2> QED
    BY <2>1 DEF PublicationIndInv, TypeOK, Justified, Writing
<1>4. /\ hits' \in [Sub -> SUBSET Event] /\ passed' \in [Sub -> Nat]
      /\ live' \subseteq Event /\ \A e \in live' : Kept(e)
  BY <1>1, <1>2 DEF PublicationIndInv, TypeOK, AcceptedIsKept
<1>5. /\ pc'[s] \in Handling \cup Answers \cup {"lost"}
      /\ UNCHANGED << event, stored, known, due, late, gone >>
      /\ blind \subseteq blind' /\ blind' \subseteq Sub
  BY <1>1 DEF Answers, Same, PublicationIndInv, TypeOK
<1> QED
  BY <1>1, <1>2, <1>3, <1>4, <1>5, Moves

LEMMA Failures ==
  ASSUME PublicationIndInv, NEW s \in Sub, Fail(s) \/ Stop(s)
  PROVE  PublicationIndInv'
<1>1. /\ Same /\ UNCHANGED << queue, live >> /\ InFlight(s)
      /\ pc' = [pc EXCEPT ![s] = pc'[s]] /\ pc'[s] \in {"error", "lost"}
      /\ hits' = [hits EXCEPT ![s] = {}] /\ passed' = [passed EXCEPT ![s] = 0]
  BY DEF Fail, Stop, Settle, Goto, InFlight, PublicationIndInv, TypeOK
<1>2. \A t \in Sub : /\ hits'[t] # {} => pc'[t] = "remove"
                     /\ \A e \in hits'[t] : MayRemove(t, e)
                     /\ passed'[t] > 0 => pc'[t] \in {"remove", "save"}
  BY <1>1 DEF PublicationIndInv, TypeOK, Justified, Writing
<1>3. /\ hits' \in [Sub -> SUBSET Event] /\ passed' \in [Sub -> Nat]
      /\ live' \subseteq Event /\ \A e \in live' : Kept(e)
  BY <1>1 DEF PublicationIndInv, TypeOK, AcceptedIsKept
<1>4. /\ pc'[s] \in Handling \cup Answers \cup {"lost"}
      /\ UNCHANGED << event, stored, known, due, late, gone >>
      /\ blind \subseteq blind' /\ blind' \subseteq Sub
  BY <1>1 DEF Answers, Same, PublicationIndInv, TypeOK
<1> QED
  BY <1>1, <1>2, <1>3, <1>4, Moves

-------------------------------------------------------------------------------
(***************************************************************************)
(* The other steps.                                                        *)
(***************************************************************************)
LEMMA Submissions ==
  ASSUME PublicationIndInv, NEW s \in Sub, NEW e \in Event,
         Receive(s, e) \/ Refuse(s, e) \/ Block(s, e)
  PROVE  PublicationIndInv'
<1> USE DEF PublicationIndInv
<1>1. PICK p \in {"ready", "expired", "refused", "blocked"} : Submit(s, e, p)
  BY DEF Receive, Refuse, Block
<1>2. /\ UNCHANGED << hits, passed, blind, stored, queue, due, late, live, gone, Stored, Ops >>
      /\ pc[s] = "none" /\ pc' = [pc EXCEPT ![s] = p] /\ event' = [event EXCEPT ![s] = e]
      /\ event[s] = None
      /\ known' \in [Sub -> SUBSET Event]
      /\ \A t \in Sub : t # s => known'[t] = known[t] /\ event'[t] = event[t] /\ pc'[t] = pc[t]
      /\ known'[s] \subseteq Stored /\ pc'[s] = p
  <2>1. Stored \subseteq Event
    BY DEF TypeOK, Stored
  <2> QED
    BY <1>1, <2>1 DEF Submit, Goto, TypeOK, Placed, Stored, Ops
<1>3. \A t \in Sub : \A x : MayRemove(t, x) => t # s /\ MayRemove(t, x)'
  <2> SUFFICES ASSUME NEW t \in Sub, NEW x, MayRemove(t, x) PROVE t # s /\ MayRemove(t, x)'
    OBVIOUS
  <2>1. t # s
    BY <1>2, PublicationAssumption DEF MayRemove
  <2> QED
    BY <1>2, <2>1 DEF MayRemove
<1>4. TypeOK'
  <2>1. pc' \in [Sub -> {"none", "lost"} \cup Handling \cup Answers]
    BY <1>2 DEF TypeOK, Handling, Answers
  <2>2. event' \in [Sub -> Event \cup {None}]
    BY <1>2 DEF TypeOK
  <2>3. \A t \in Sub : (hits'[t] # {} => pc'[t] = "remove") /\ (passed'[t] > 0 => t \in Writing')
    BY <1>2 DEF TypeOK, Writing
  <2> QED
    BY <1>2, <2>1, <2>2, <2>3 DEF TypeOK
<1>5. Placed'
  <2>1. pc'[s] # "none" /\ event'[s] # None
    BY <1>2, PublicationAssumption DEF TypeOK
  <2> QED
    BY <1>2, <2>1 DEF Placed
<1>6. AcceptedIsKept' /\ Relayable'
  <2>1. \A x : Kept(x)' <=> Kept(x)
    BY <1>2 DEF Kept, Queued
  <2> QED
    BY <1>2, <2>1 DEF AcceptedIsKept, Relayable
<1>7. Justified'
  <2>1. \A o \in Ops : Warranted(o) => Warranted(o)'
    BY <1>2, <1>3 DEF Warranted
  <2> QED
    BY <1>2, <1>3, <2>1 DEF Justified
<1>8. Checked'
  <2>1. \A o \in Ops : Inserting(o) => o.sub # s /\ o.sub \in Sub
    <3>1. \A o \in Ops : o \in Op
      BY OpsAt DEF TypeOK
    <3>2. \A o \in Ops : Inserting(o) => o.sub \in Sub /\ o.insert \in Event /\ event[o.sub] = o.insert
      BY <3>1, OpKinds DEF Checked
    <3> QED
      BY <1>2, <3>2, PublicationAssumption
  <2>2. \A t \in Sub : t # s => /\ (Undeleted(t)' <=> Undeleted(t)) /\ (Latest(t)' <=> Latest(t))
                                /\ \A S : Spares(t, S)' <=> Spares(t, S)
    BY <1>2 DEF Undeleted, Latest, Spares
  <2> QED
    BY <1>2, <2>1, <2>2 DEF Checked
<1> QED
  BY <1>4, <1>5, <1>6, <1>7, <1>8

\* A write to the queue.
LEMMA Writes ==
  ASSUME PublicationIndInv, NEW s \in Sub, RemoveHits(s) \/ Save(s)
  PROVE  PublicationIndInv'
<1> USE DEF PublicationIndInv
<1>1. /\ Same /\ UNCHANGED << live, Stored >> /\ pc[s] \in {"remove", "save"}
      /\ pc' = [pc EXCEPT ![s] = pc'[s]] /\ pc'[s] \in {"save", "relay", "error"}
      /\ hits' = [hits EXCEPT ![s] = {}]
      /\ pc[s] = "remove" => pc'[s] # "relay"
      /\ pc[s] = "save" => pc'[s] # "save"
  BY DEF RemoveHits, Save, Goto, TypeOK, Same, Stored
<1>2. InFlight(s) /\ event[s] \in Event
  BY <1>1, Handled DEF InFlight, Handling
<1>3. \/ UNCHANGED queue /\ passed' = [passed EXCEPT ![s] = 0] /\ pc'[s] # "relay"
      \/ \E o \in Op : /\ Accept(s, o)
                       /\ \/ ~ Inserting(o) /\ o.delete = hits[s] /\ o.sub = s /\ pc[s] = "remove"
                          \/ Inserting(o) /\ o.insert = event[s] /\ o.sub = s /\ pc[s] = "save"
  <2>1. hits[s] \in SUBSET Event
    BY DEF TypeOK
  <2> QED
    BY <1>2, <2>1, OpKinds DEF RemoveHits, Save, Goto, TypeOK
<1> DEFINE Joins ==
             /\ queue' \in Seq(Op) /\ Ops \subseteq Ops'
             /\ \A o \in Ops' \ Ops :
                  \/ ~ Inserting(o) /\ o.delete = hits[s] /\ o.sub = s
                  \/ Inserting(o) /\ o.insert = event[s] /\ o.sub = s /\ pc[s] = "save"
             /\ pc'[s] = "relay" => \E o \in Ops' : Inserting(o) /\ o.insert = event[s]
           Passes ==
             /\ passed' \in [Sub -> Nat]
             /\ \A t \in Sub : passed'[t] > 0 => t # s /\ (passed[t] > 0 \/ t \in Writing)
<1>4. Joins
  <2>1. CASE UNCHANGED queue /\ pc'[s] # "relay"
    BY <2>1 DEF Ops, TypeOK
  <2>2. ASSUME NEW o \in Op, Accept(s, o),
               \/ ~ Inserting(o) /\ o.delete = hits[s] /\ o.sub = s /\ pc[s] = "remove"
               \/ Inserting(o) /\ o.insert = event[s] /\ o.sub = s /\ pc[s] = "save"
        PROVE  Joins
    <3>1. queue' \in Seq(Op) /\ Ops' = Ops \cup {o}
      BY <2>2, Accepting DEF TypeOK
    <3> QED
      BY <1>1, <2>2, <3>1
  <2> QED
    BY <1>3, <2>1, <2>2
<1>5. Passes
  <2>1. CASE passed' = [passed EXCEPT ![s] = 0]
    BY <2>1 DEF TypeOK
  <2>2. ASSUME NEW o \in Op, Accept(s, o) PROVE Passes
    <3>1. PICK i \in Nat : passed' = Counting(s, i)
      BY <2>2 DEF Accept, TypeOK
    <3> QED
      BY <3>1, Counted DEF TypeOK
  <2> QED
    BY <1>3, <2>1, <2>2
<1>6. TypeOK'
  <2>1. pc' \in [Sub -> {"none", "lost"} \cup Handling \cup Answers]
    <3> DEFINE Pc == {"none", "lost"} \cup Handling \cup Answers
    <3>1. pc \in [Sub -> Pc]
      BY DEF TypeOK
    <3>2. pc'[s] \in Pc
      BY <1>1 DEF Handling, Answers
    <3> HIDE DEF Pc
    <3>3. [pc EXCEPT ![s] = pc'[s]] \in [Sub -> Pc]
      BY <3>1, <3>2
    <3> QED
      BY <1>1, <3>3 DEF Pc
  <2>2. \A t \in Sub : (hits'[t] # {} => pc'[t] = "remove") /\ (passed'[t] > 0 => t \in Writing')
    BY <1>1, <1>5 DEF TypeOK, Writing
  <2>3. hits' \in [Sub -> SUBSET Event]
    BY <1>1 DEF TypeOK
  <2> QED
    BY <1>1, <1>4, <1>5, <2>1, <2>2, <2>3 DEF TypeOK, Same
<1>7. Placed'
  BY <1>1 DEF Placed, Same, TypeOK
<1>8. AcceptedIsKept' /\ Relayable'
  <2>1. \A e : Kept(e) => Kept(e)'
    BY <1>1, <1>4, QueuedOps, QueuedOpsNext DEF Kept, Same
  <2>2. pc'[s] = "relay" => Kept(event[s])'
    BY <1>1, <1>4, QueuedOpsNext DEF Kept, Same
  <2> QED
    BY <1>1, <2>1, <2>2 DEF AcceptedIsKept, Relayable, Same, TypeOK
<1>9. Justified'
  <2>1. \A t, e : MayRemove(t, e)' <=> MayRemove(t, e)
    BY <1>1 DEF MayRemove, Same
  <2>2. \A o \in Ops' : ~ Inserting(o) => Warranted(o)'
    BY <1>1, <1>4, <2>1 DEF Justified, Warranted, Same
  <2>3. \A t \in Sub : \A e \in hits'[t] : MayRemove(t, e)'
    BY <1>1, <2>1 DEF Justified, TypeOK
  <2> QED
    BY <1>1, <2>2, <2>3 DEF Justified, Same
<1>10. Checked'
  <2>1. /\ \A t : (Undeleted(t)' <=> Undeleted(t)) /\ (Latest(t)' <=> Latest(t))
        /\ \A t, S : Spares(t, S)' <=> Spares(t, S)
    BY <1>1 DEF Undeleted, Latest, Spares, Same
  <2>2. pc'[s] = "save" => Undeleted(s) /\ Latest(s)
    <3>1. pc'[s] = "save" => event[s] \in Deletion
      BY <1>1 DEF Checked
    <3> QED
      BY <3>1, PublicationAssumption DEF Undeleted, Latest
  <2>3. \A o \in Ops' : Inserting(o) => /\ event[o.sub] = o.insert /\ Undeleted(o.sub)
                                        /\ o.sub \in blind \/ Latest(o.sub)
    BY <1>1, <1>4 DEF Checked
  <2>4. \A t \in Sub : t # s => pc'[t] = pc[t]
    BY <1>1 DEF TypeOK
  <2> QED
    BY <1>1, <2>1, <2>2, <2>3, <2>4 DEF Checked, Same
<1> QED
  BY <1>6, <1>7, <1>8, <1>9, <1>10

\* What an operation does to the index.
LEMMA Afterwards ==
  ASSUME PublicationIndInv, Apply \/ Consume
  PROVE  LET o == Head(queue) IN
         /\ o \in Ops /\ o \in Op /\ Ops = Ops' \cup {o} /\ queue' \in Seq(Op)
         /\ stored' \in [DOMAIN stored -> Event \cup {None}]
         /\ \A r \in DOMAIN stored : stored'[r] # None => Ref[stored'[r]] = r
         /\ Inserting(o) => /\ o.insert \in Stored' /\ Stored' \subseteq Stored \cup {o.insert}
                            /\ stored' = [stored EXCEPT ![Ref[o.insert]] = o.insert]
         /\ ~ Inserting(o) => /\ Stored' \subseteq Stored
                              /\ \A e \in Stored \ Stored' : e \in o.delete
<1> DEFINE o == Head(queue)
<1>1. o \in Ops /\ o \in Op /\ Ops = Ops' \cup {o} /\ queue' \in Seq(Op)
  BY Applying DEF Apply, Consume, Served, PublicationIndInv, TypeOK
<1>2. stored' = After(o) \/ (~ Inserting(o) /\ UNCHANGED stored)
  BY DEF Apply, Consume
<1> HIDE DEF o
<1>3. /\ DOMAIN stored = {Ref[e] : e \in Event}
      /\ stored \in [DOMAIN stored -> Event \cup {None}]
      /\ \A r \in DOMAIN stored : stored[r] # None => Ref[stored[r]] = r
      /\ None \notin Event
  BY PublicationAssumption DEF PublicationIndInv, TypeOK, Placed
<1>4. CASE Inserting(o)
  <2>1. o.insert \in Event /\ Ref[o.insert] \in DOMAIN stored
    BY <1>1, <1>3, <1>4, OpKinds
  <2>2. stored' = [stored EXCEPT ![Ref[o.insert]] = o.insert]
    BY <1>2, <1>4 DEF After
  <2>3. /\ stored' \in [DOMAIN stored -> Event \cup {None}]
        /\ \A r \in DOMAIN stored : stored'[r] # None => Ref[stored'[r]] = r
        /\ stored'[Ref[o.insert]] = o.insert
    BY <1>3, <2>1, <2>2
  <2>4. o.insert \in Stored' /\ Stored' \subseteq Stored \cup {o.insert}
    BY <1>3, <2>1, <2>2, <2>3 DEF Stored
  <2> QED
    BY <1>1, <1>4, <2>2, <2>3, <2>4 DEF o
<1>5. CASE ~ Inserting(o) /\ UNCHANGED stored
  BY <1>1, <1>3, <1>5 DEF o, Stored
<1>6. CASE ~ Inserting(o) /\ stored' = After(o)
  <2> DEFINE Freed == {Ref[e] : e \in Current(o.delete)}
  <2>1. stored' = [r \in DOMAIN stored |-> IF r \in Freed THEN None ELSE stored[r]]
    BY <1>6 DEF After
  <2>2. /\ stored' \in [DOMAIN stored -> Event \cup {None}]
        /\ \A r \in DOMAIN stored : stored'[r] # None => Ref[stored'[r]] = r
        /\ Stored' \subseteq Stored
    BY <1>3, <2>1 DEF Stored
  <2>3. ASSUME NEW e \in Stored, e \notin Stored' PROVE e \in o.delete
    <3>1. PICK r \in DOMAIN stored : stored[r] = e /\ e # None
      BY DEF Stored
    <3>2. r \in Freed
      BY <2>1, <2>3, <3>1 DEF Stored
    <3>3. PICK x \in o.delete : stored[Ref[x]] = x /\ Ref[x] = r
      BY <3>2 DEF Current
    <3> QED
      BY <3>1, <3>3
  <2> QED
    BY <1>1, <1>6, <2>2, <2>3 DEF o
<1> QED
  BY <1>2, <1>4, <1>5, <1>6

LEMMA Applications ==
  ASSUME PublicationIndInv, Apply \/ Consume
  PROVE  PublicationIndInv'
<1> USE DEF PublicationIndInv
<1> DEFINE o == Head(queue)
<1>1. /\ o \in Ops /\ o \in Op /\ Ops = Ops' \cup {o} /\ queue' \in Seq(Op)
      /\ stored' \in [DOMAIN stored -> Event \cup {None}]
      /\ \A r \in DOMAIN stored : stored'[r] # None => Ref[stored'[r]] = r
      /\ Inserting(o) => o.insert \in Stored' /\ Stored' \subseteq Stored \cup {o.insert}
  BY Afterwards
<1> HIDE DEF o
<1>2. /\ UNCHANGED << event, pc, hits, passed, blind, due, late, live >>
      /\ gone' = gone \cup (Stored \ Stored')
      /\ known' = [s \in Sub |-> IF Unsettled(s) THEN known[s] \cap Stored' ELSE {}]
  BY DEF Apply, Consume, Served
<1>3. \A s \in Sub : known'[s] \subseteq known[s] /\ known'[s] \subseteq Stored'
  BY <1>2
<1>4. TypeOK'
  <2>1. known' \in [Sub -> SUBSET Event]
    BY <1>2 DEF TypeOK
  <2>2. stored' \in [{Ref[e] : e \in Event} -> Event \cup {None}]
    BY <1>1 DEF TypeOK
  <2>3. \A e \in Stored' : stored'[Ref[e]] = e
    <3>1. DOMAIN stored' = DOMAIN stored
      BY <1>1
    <3> QED
      BY <1>1, <3>1 DEF Stored
  <2>4. gone' \subseteq Event
    BY <1>2 DEF TypeOK, Stored
  <2> QED
    BY <1>1, <1>2, <2>1, <2>2, <2>3, <2>4 DEF TypeOK, Writing
<1>5. Placed'
  BY <1>1, <1>2 DEF Placed
<1>6. AcceptedIsKept' /\ Relayable'
  <2>1. ASSUME NEW e, Kept(e) PROVE Kept(e)'
    <3>1. CASE e \in Ephemeral \/ e \in Stored \cup gone
      BY <1>2, <3>1 DEF Kept
    <3>2. CASE Queued(e)
      <4>1. PICK x \in Ops : Inserting(x) /\ x.insert = e
        BY <3>2, QueuedOps
      <4>2. CASE x = o
        BY <1>1, <4>1, <4>2 DEF Kept
      <4>3. CASE x # o
        BY <1>1, <4>1, <4>3, QueuedOpsNext DEF Kept
      <4> QED
        BY <4>2, <4>3
    <3> QED
      BY <2>1, <3>1, <3>2 DEF Kept
  <2> QED
    BY <1>2, <2>1 DEF AcceptedIsKept, Relayable
<1>7. Justified'
  <2>1. \A t \in Sub : \A e : MayRemove(t, e) => MayRemove(t, e)'
    BY <1>2, <1>3 DEF MayRemove
  <2>2. \A x \in Ops : Warranted(x) => Warranted(x)'
    BY <1>2, <2>1 DEF Warranted
  <2> QED
    BY <1>1, <1>2, <2>1, <2>2 DEF Justified
<1>8. Checked'
  <2>1. \A s \in Sub : /\ (Undeleted(s) => Undeleted(s)') /\ (Latest(s) => Latest(s)')
                       /\ \A S : Spares(s, S) => Spares(s, S)'
    BY <1>2, <1>3 DEF Undeleted, Latest, Spares
  <2>2. \A x \in Ops : Inserting(x) => x.sub \in Sub
    <3>1. \A x \in Ops : x \in Op
      BY OpsAt DEF TypeOK
    <3> QED
      BY <3>1, OpKinds
  <2> QED
    BY <1>1, <1>2, <1>3, <2>1, <2>2 DEF Checked
<1> QED
  BY <1>4, <1>5, <1>6, <1>7, <1>8

\* Time, and the job that drops what expired.
LEMMA Sweeps ==
  ASSUME PublicationIndInv, SweepFinds \/ SweepQueues \/ \E e \in Event : Expire(e)
  PROVE  PublicationIndInv'
<1> USE DEF PublicationIndInv
<1>1. /\ UNCHANGED << event, pc, hits, known, blind, stored, live, gone, Stored >>
      /\ late \subseteq late' /\ late' \subseteq Event /\ due' \subseteq late'
      /\ due \subseteq Event /\ due' \subseteq Event
  BY DEF SweepFinds, SweepQueues, Expire, Stored, Justified, TypeOK
<1>2. /\ queue' \in Seq(Op) /\ Ops \subseteq Ops'
      /\ \A o \in Ops' \ Ops : ~ Inserting(o) /\ o.sub = None /\ o.delete \subseteq late
      /\ passed' \in [Sub -> Nat] /\ \A t \in Sub : passed'[t] > 0 => t \in Writing
  <2>1. CASE SweepFinds \/ \E e \in Event : Expire(e)
    BY <2>1 DEF SweepFinds, Expire, Ops, TypeOK
  <2>2. CASE SweepQueues
    <3> DEFINE o == [sub |-> None, delete |-> due]
    <3>1. o \in Op /\ ~ Inserting(o) /\ o.sub = None /\ o.delete = due /\ due \subseteq late
      BY <1>1, OpKinds DEF Justified
    <3>2. queue' = Append(queue, o) /\ passed' = Counting(None, Len(queue)) /\ Len(queue) \in Nat
      BY <2>2 DEF SweepQueues, TypeOK
    <3> HIDE DEF o
    <3>3. queue' \in Seq(Op) /\ Ops' = Ops \cup {o}
      BY <3>1, <3>2, Appending DEF TypeOK
    <3>4. passed' \in [Sub -> Nat] /\ \A t \in Sub : passed'[t] > 0 => t \in Writing
      BY <3>2, Counted DEF TypeOK
    <3> QED
      BY <3>1, <3>3, <3>4
  <2> QED
    BY <2>1, <2>2
<1>3. TypeOK'
  BY <1>1, <1>2 DEF TypeOK, Writing
<1>4. Placed'
  BY <1>1 DEF Placed
<1>5. AcceptedIsKept' /\ Relayable'
  <2>1. \A e : Kept(e) => Kept(e)'
    BY <1>1, <1>2, QueuedOps, QueuedOpsNext DEF Kept
  <2> QED
    BY <1>1, <2>1 DEF AcceptedIsKept, Relayable
<1>6. Justified'
  <2>1. \A t, e : MayRemove(t, e)' <=> MayRemove(t, e)
    BY <1>1 DEF MayRemove
  <2>2. \A o \in Ops : Warranted(o) => Warranted(o)'
    BY <1>1, <2>1 DEF Warranted
  <2>3. \A o \in Ops' \ Ops : Warranted(o)'
    BY <1>1, <1>2 DEF Warranted
  <2> QED
    BY <1>1, <2>1, <2>2, <2>3 DEF Justified
<1>7. Checked'
  <2>1. /\ \A t : (Undeleted(t)' <=> Undeleted(t)) /\ (Latest(t)' <=> Latest(t))
        /\ \A t, S : Spares(t, S)' <=> Spares(t, S)
    BY <1>1 DEF Undeleted, Latest, Spares
  <2> QED
    BY <1>1, <1>2, <2>1 DEF Checked
<1> QED
  BY <1>3, <1>4, <1>5, <1>6, <1>7

LEMMA PublicationStep == PublicationIndInv /\ [Next]_vars => PublicationIndInv'
<1> SUFFICES ASSUME PublicationIndInv, [Next]_vars PROVE PublicationIndInv'
  OBVIOUS
<1>1. CASE UNCHANGED vars
  <2>1. /\ UNCHANGED << event, pc, hits, passed, known, blind, stored, queue, due, late, live, gone >>
        /\ UNCHANGED << Stored, Ops >>
    BY <1>1 DEF vars, Stored, Ops
  <2>2. /\ \A e : Kept(e)' <=> Kept(e)
        /\ \A t, e : MayRemove(t, e)' <=> MayRemove(t, e)
        /\ \A t : (Undeleted(t)' <=> Undeleted(t)) /\ (Latest(t)' <=> Latest(t))
        /\ \A t, S : Spares(t, S)' <=> Spares(t, S)
    BY <2>1 DEF Kept, Queued, MayRemove, Undeleted, Latest, Spares
  <2>3. TypeOK' /\ Placed' /\ AcceptedIsKept' /\ Relayable'
    BY <2>1, <2>2 DEF PublicationIndInv, TypeOK, Writing, Placed, AcceptedIsKept, Relayable
  <2>4. Justified' /\ Checked'
    BY <2>1, <2>2 DEF PublicationIndInv, Justified, Warranted, Checked
  <2> QED
    BY <2>3, <2>4 DEF PublicationIndInv
<1>2. CASE Next
  BY <1>2, Looks, Finds, Writes, Broadcasts, Failures, Submissions, Applications, Sweeps DEF Next, Step
<1> QED
  BY <1>1, <1>2

LEMMA PublicationInit == Init => PublicationIndInv
<1> SUFFICES ASSUME Init PROVE PublicationIndInv
  OBVIOUS
<1>1. PICK e \in (Event \ Ephemeral) \cup {None} :
        /\ stored = [r \in {Ref[f] : f \in Event} |-> IF e # None /\ Ref[e] = r THEN e ELSE None]
        /\ live = {e} \ {None}
  BY DEF Init
<1>2. /\ event = [s \in Sub |-> None] /\ pc = [s \in Sub |-> "none"]
      /\ hits = [s \in Sub |-> {}] /\ passed = [s \in Sub |-> 0] /\ known = [s \in Sub |-> {}]
      /\ blind = {} /\ queue = << >> /\ due = {} /\ late = {} /\ gone = {} /\ Ops = {}
  BY DEF Init, Ops
<1>3. /\ stored \in [{Ref[f] : f \in Event} -> Event \cup {None}]
      /\ \A r \in DOMAIN stored : stored[r] # None => stored[r] = e /\ Ref[e] = r
      /\ e # None => stored[Ref[e]] = e /\ e \in Stored
      /\ None \notin Event
  BY <1>1, PublicationAssumption DEF Stored
<1>4. TypeOK
  <2>1. \A x \in Stored : stored[Ref[x]] = x
    BY <1>3 DEF Stored
  <2>2. queue \in Seq(Op)
    BY <1>2
  <2>3. live \subseteq Event
    BY <1>1
  <2> QED
    BY <1>2, <1>3, <2>1, <2>2, <2>3 DEF TypeOK
<1>5. Placed
  BY <1>2, <1>3 DEF Placed
<1>6. AcceptedIsKept /\ Relayable
  BY <1>1, <1>2, <1>3 DEF AcceptedIsKept, Relayable, Kept
<1>7. Justified /\ Checked
  BY <1>2 DEF Justified, Checked
<1> QED
  BY <1>4, <1>5, <1>6, <1>7 DEF PublicationIndInv

-------------------------------------------------------------------------------
(***************************************************************************)
(* What clients are promised.                                              *)
(***************************************************************************)
\* Only an operation of the queue changes the index.
LEMMA OnlyApplied == [Next]_vars => Apply \/ UNCHANGED << stored, Stored >>
<1> SUFFICES ASSUME [Next]_vars PROVE Apply \/ UNCHANGED stored
  BY DEF Stored
<1>1. ASSUME NEW s \in Sub, NEW e \in Event, Receive(s, e) \/ Refuse(s, e) \/ Block(s, e)
      PROVE  UNCHANGED stored
  BY <1>1 DEF Receive, Refuse, Block, Submit
<1>2. ASSUME NEW s \in Sub, Step(s) \/ MissVersion(s) \/ Fail(s) \/ Stop(s) PROVE UNCHANGED stored
  BY <1>2 DEF Step, MissVersion, Fail, Stop, Ready, Search, FindKeyed, FindPrivate, FindForeign, Select, CheckDeleted,
              CheckVersion, RemoveHits, Save, Broadcast, Quiet, Same
<1> QED
  BY <1>1, <1>2 DEF Next, Consume, SweepFinds, SweepQueues, Expire, vars

\* Whatever was answered with OK or shown to subscribers is stored, queued, or
\* was stored once, wherever handlers, processor and job stand and whatever
\* failed (event-handler.js, saver/mdb/index.js).
THEOREM AcceptedStays == Spec => []PublicationInv
<1>1. PublicationIndInv => PublicationInv
  BY DEF PublicationIndInv, PublicationInv
<1> QED
  BY <1>1, PublicationInit, PublicationStep, PTL DEF Spec

\* No interleaving of handlers, the processor and the expiry job removes an
\* event that nobody replaced, asked to delete, and that has not expired
\* (pending-workflows.js).
THEOREM RemovalsJustified == Spec => RemovedForAReason
<1>1. PublicationIndInv /\ [Next]_vars =>
        [\A e \in Stored \ Stored' :
           LET s == Head(queue).sub IN
           \/ stored'[Ref[e]] \in Event
           \/ s = None /\ e \in late
           \/ s \in Sub /\ MayRemove(s, e)]_vars
  <2> SUFFICES ASSUME PublicationIndInv, [Next]_vars, NEW e \in Stored, e \notin Stored'
               PROVE  LET s == Head(queue).sub IN
                      \/ stored'[Ref[e]] \in Event
                      \/ s = None /\ e \in late
                      \/ s \in Sub /\ MayRemove(s, e)
    OBVIOUS
  <2>1. Apply
    BY OnlyApplied
  <2> DEFINE o == Head(queue)
  <2>2. CASE Inserting(o)
    <3>1. o \in Op /\ stored' = [stored EXCEPT ![Ref[o.insert]] = o.insert]
      BY <2>1, <2>2, Afterwards
    <3>2. stored[Ref[e]] = e /\ Ref[e] \in DOMAIN stored /\ o.insert \in Event
      <4>1. stored \in [{Ref[x] : x \in Event} -> Event \cup {None}] /\ stored[Ref[e]] = e /\ e \in Event
        <5>1. stored \in [{Ref[x] : x \in Event} -> Event \cup {None}] /\ stored[Ref[e]] = e
          BY DEF PublicationIndInv, TypeOK
        <5>2. e \in Event
          BY <5>1 DEF Stored
        <5> QED
          BY <5>1, <5>2
      <4> HIDE DEF o
      <4>2. o.insert \in Event
        BY <2>2, <3>1, OpKinds
      <4> QED
        BY <4>1, <4>2
    <3>3. stored'[Ref[e]] # e
      <4>1. DOMAIN stored' = DOMAIN stored
        BY <3>1
      <4> QED
        BY <3>2, <4>1 DEF Stored
    <3> QED
      BY <3>1, <3>2, <3>3
  <2>3. CASE ~ Inserting(o)
    <3>1. o \in Ops /\ e \in o.delete
      BY <2>1, <2>3, Afterwards
    <3> QED
      BY <2>3, <3>1 DEF PublicationIndInv, Justified, Warranted
  <2> QED
    BY <2>2, <2>3
<1> QED
  BY <1>1, PublicationInit, PublicationStep, PTL DEF Spec, RemovedForAReason

\* A message that passed its checks long ago still undoes nothing that was in
\* the index before it came (saver/mdb/index.js).
THEOREM PastRespected == Spec => PastIsRespected
<1>1. PublicationIndInv /\ [Next]_vars =>
        [\A e \in Stored' \ Stored :
           LET s == Head(queue).sub IN
           /\ << stored[Ref[e]], e >> \in Newer /\ s \notin blind => stored[Ref[e]] \notin known[s]
           /\ \A d \in Deletion \cap known[s] : e \in Targets[d] \ Deletion => Author[d] # Author[e]]_vars
  <2> SUFFICES ASSUME PublicationIndInv, [Next]_vars, NEW e \in Stored', e \notin Stored
               PROVE  LET s == Head(queue).sub IN
                      /\ << stored[Ref[e]], e >> \in Newer /\ s \notin blind => stored[Ref[e]] \notin known[s]
                      /\ \A d \in Deletion \cap known[s] :
                           e \in Targets[d] \ Deletion => Author[d] # Author[e]
    OBVIOUS
  <2>1. Apply
    BY OnlyApplied
  <2> DEFINE o == Head(queue)
  <2>2. Inserting(o) /\ o.insert = e /\ o \in Ops
    BY <2>1, Afterwards
  <2>3. event[o.sub] = e /\ Undeleted(o.sub) /\ (o.sub \in blind \/ Latest(o.sub))
    BY <2>2 DEF PublicationIndInv, Checked
  <2> QED
    BY <2>3 DEF Undeleted, Latest
<1> QED
  BY <1>1, PublicationInit, PublicationStep, PTL DEF Spec, PastIsRespected

-------------------------------------------------------------------------------
(***************************************************************************)
(* Nobody is told OK for what subscribers miss.                            *)
(***************************************************************************)
\* A message whose event was written, and that has not been told OK.
Unconfirmed(e) == \E s \in Sub : event[s] = e /\ pc[s] \in {"relay", "retry", "error", "lost"}

\* That of an event that is only queued counts as well.
Covered == \A e : e \in Stored \/ Queued(e) => e \in live \/ Unconfirmed(e)

\* Such a message ends with OK only after its broadcast.
LEMMA CoverStays ==
  ASSUME PublicationIndInv, NEW s \in Sub, UNCHANGED event, live \subseteq live', InFlight(s),
         pc' = [pc EXCEPT ![s] = pc'[s]],
         pc[s] = "relay" => pc'[s] \in {"retry", "lost"} \/ event[s] \in live',
         NEW e, e \in live \/ Unconfirmed(e)
  PROVE  e \in live' \/ Unconfirmed(e)'
<1>1. CASE e \in live
  BY <1>1
<1>2. CASE Unconfirmed(e)
  <2>1. PICK t \in Sub : event[t] = e /\ pc[t] \in {"relay", "retry", "error", "lost"}
    BY <1>2 DEF Unconfirmed
  <2>2. CASE t = s
    <3>1. pc[s] = "relay"
      BY <2>1, <2>2 DEF InFlight, Handling
    <3> QED
      BY <2>1, <2>2, <3>1 DEF Unconfirmed
  <2>3. CASE t # s
    <3>1. pc'[t] = pc[t]
      BY <2>3 DEF PublicationIndInv, TypeOK
    <3> QED
      BY <2>1, <3>1 DEF Unconfirmed
  <2> QED
    BY <2>2, <2>3
<1> QED
  BY <1>1, <1>2

LEMMA CoveredStep == PublicationIndInv /\ Covered /\ [Next]_vars => Covered'
<1> SUFFICES ASSUME PublicationIndInv, Covered, [Next]_vars PROVE Covered'
  OBVIOUS
<1>1. ASSUME NEW s \in Sub, Step(s) \/ MissVersion(s) \/ Fail(s) \/ Stop(s) PROVE Covered'
  <2>1. /\ UNCHANGED << event, stored, Stored >> /\ InFlight(s)
        /\ pc' = [pc EXCEPT ![s] = pc'[s]]
    BY <1>1 DEF Step, MissVersion, Fail, Stop, Ready, Search, FindKeyed, FindPrivate, FindForeign, Select,
                CheckDeleted, CheckVersion, RemoveHits, Save, Broadcast, Quiet, Same, Goto, Stored, InFlight, Handling, PublicationIndInv, TypeOK
  <2>2. live \subseteq live' /\ (pc[s] = "relay" => pc'[s] \in {"retry", "lost"} \/ event[s] \in live')
    BY <1>1 DEF Step, MissVersion, Fail, Stop, Ready, Search, FindKeyed, FindPrivate, FindForeign, Select,
                CheckDeleted, CheckVersion, RemoveHits, Save, Broadcast, Quiet, Goto, Handling, PublicationIndInv, TypeOK
  <2>3. ASSUME NEW e, Queued(e)', ~ Queued(e) PROVE Unconfirmed(e)'
    <3>1. RemoveHits(s) \/ Save(s)
      BY <1>1, <2>3 DEF Step, MissVersion, Fail, Stop, Ready, Search, FindKeyed, FindPrivate, FindForeign, Select,
                        CheckDeleted, CheckVersion, Broadcast, Quiet, Queued
    <3>2. PICK o \in Op : Accept(s, o) /\ (Inserting(o) => o.insert = event[s] /\ pc[s] = "save")
      <4>1. hits[s] \in SUBSET Event /\ event[s] \in Event
        BY <2>1, Handled DEF PublicationIndInv, TypeOK
      <4>2. ~ UNCHANGED queue
        BY <2>3 DEF Queued
      <4> QED
        BY <3>1, <4>1, <4>2, OpKinds DEF RemoveHits, Save
    <3>3. Ops' = Ops \cup {o}
      BY <3>2, Accepting DEF PublicationIndInv, TypeOK
    <3>4. Inserting(o) /\ o.insert = e
      BY <2>3, <3>3, QueuedOps, QueuedOpsNext
    <3>5. pc'[s] \in {"relay", "error"}
      BY <3>1, <3>2, <3>4 DEF RemoveHits, Save, Goto, PublicationIndInv, TypeOK
    <3> QED
      BY <2>1, <3>2, <3>4, <3>5 DEF Unconfirmed
  <2> QED
    BY <2>1, <2>2, <2>3, CoverStays DEF Covered
<1>2. ASSUME NEW s \in Sub, NEW e \in Event, Receive(s, e) \/ Refuse(s, e) \/ Block(s, e)
      PROVE  Covered'
  <2>1. PICK p : Submit(s, e, p)
    BY <1>2 DEF Receive, Refuse, Block
  <2>2. /\ UNCHANGED << queue, live, Stored >> /\ pc[s] = "none"
        /\ \A t \in Sub : t # s => event'[t] = event[t] /\ pc'[t] = pc[t]
    BY <2>1 DEF Submit, Goto, Stored, PublicationIndInv, TypeOK
  <2>3. ASSUME NEW f, Unconfirmed(f) PROVE Unconfirmed(f)'
    BY <2>2, <2>3 DEF Unconfirmed
  <2> QED
    BY <2>2, <2>3 DEF Covered, Queued
<1>3. CASE Apply \/ Consume
  <2>1. UNCHANGED << event, pc, live >>
    BY <1>3 DEF Apply, Consume, Served
  <2>2. ASSUME NEW e, (e \in Stored \/ Queued(e))' PROVE e \in Stored \/ Queued(e)
    BY <1>3, <2>2, Afterwards, QueuedOps, QueuedOpsNext
  <2> QED
    BY <2>1, <2>2 DEF Covered, Unconfirmed
<1>4. CASE SweepFinds \/ SweepQueues \/ \E e \in Event : Expire(e)
  <2>1. UNCHANGED << event, pc, live, Stored >>
    BY <1>4 DEF SweepFinds, SweepQueues, Expire, Stored
  <2>2. ASSUME NEW e, Queued(e)' PROVE Queued(e)
    <3>1. CASE UNCHANGED queue
      BY <2>2, <3>1 DEF Queued
    <3>2. CASE SweepQueues
      <4> DEFINE o == [sub |-> None, delete |-> due]
      <4>1. o \in Op /\ ~ Inserting(o)
        BY OpKinds DEF PublicationIndInv, TypeOK
      <4>2. queue' = Append(queue, o)
        BY <3>2 DEF SweepQueues
      <4> HIDE DEF o
      <4>3. Ops' = Ops \cup {o}
        BY <4>1, <4>2, Appending DEF PublicationIndInv, TypeOK
      <4> QED
        BY <2>2, <4>1, <4>3, QueuedOps, QueuedOpsNext
    <3> QED
      BY <1>4, <3>1, <3>2 DEF SweepFinds, Expire
  <2> QED
    BY <2>1, <2>2 DEF Covered, Unconfirmed
<1>5. CASE UNCHANGED vars
  BY <1>5 DEF vars, Covered, Unconfirmed, Stored, Queued
<1> QED
  BY <1>1, <1>2, <1>3, <1>4, <1>5 DEF Next

LEMMA CoveredInit == Init => Covered
<1> SUFFICES ASSUME Init PROVE Covered
  OBVIOUS
<1>1. queue = << >> /\ Stored \subseteq live
  BY DEF Init, Stored
<1> QED
  BY <1>1 DEF Covered, Queued

\* A stored event that subscribers never got has a message that is still being
\* handled, or whose sender was not told OK, for any number of messages of one
\* event, of failures and of processes that stop (event-handler.js:83-121).
THEOREM MissedIsTold == Spec => []SeenOrTold
<1>1. Covered => SeenOrTold
  BY DEF Covered, SeenOrTold, Unconfirmed, InFlight, Handling
<1> QED
  BY <1>1, PublicationInit, PublicationStep, CoveredInit, CoveredStep, PTL DEF Spec
================================================================================
