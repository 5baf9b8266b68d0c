--------------------------- MODULE ManifestPoolProofs ---------------------------
(***************************************************************************)
(* Theorems about the manifest pool, for every number of savers, events,   *)
(* authors, deletions and stops.  Three inductive invariants carry them:   *)
(* Control (shapes, and who works on what), OutcomeInv and TokensInv, all  *)
(* of ManifestPoolInv.  Most steps are first reduced to what they may      *)
(* change at all (UpsertMoves, JobMoves, CallMoves and CallTouches).       *)
(***************************************************************************)
EXTENDS ManifestLedgerInv, FiniteSetTheorems, TLAPS

\* Nothing is under way in the initial states.
LEMMA ControlInit == Init => Control
<1> SUFFICES ASSUME Init PROVE Control
  OBVIOUS
<1> USE DEF Init, CountersInit, ReservationsInit
<1>1. TokensOK
  BY DEF TokensOK, Scope
<1>2. ReservationsOK
  BY DEF ReservationsOK, NoCall, Call, CallStep, Outcome, Terminal, Scope, Live
<1>3. PoolOK
  BY PoolAssumption DEF PoolOK, Phase, SaverPc, NoPage, Unread
<1>4. PcOK /\ DocKnown /\ CurOwned /\ CallsOwned /\ VisitOwned
  BY ActorAssumption DEF Processor, Job, OpKey, PcOK, DocKnown, CurOwned, CallsOwned, VisitOwned, SaverPc, Actor, NoCall,
    NoPage, UpsertPc, DeletionPc, JobPc
<1> QED
  BY <1>1, <1>2, <1>3, <1>4 DEF Control, ShapeOK

\* What a caller starts from and what it starts.
LEMMA CallTypes ==
  /\ NoCall \in Call /\ NoCall.step = "off"
  /\ \A r \in Reservation :
       /\ Finalize(r) \in Call /\ Finalize(r).step = "read" /\ Finalize(r).r = r
       /\ \A t \in Terminal : /\ Cancel(r, t) \in Call
                              /\ Cancel(r, t).step = "read"
                              /\ Cancel(r, t).r = r
BY DEF NoCall, Finalize, Cancel, Call, CallStep, Outcome, Terminal, Scope

\* The author's counter of an existing document is a counter.
LEMMA AuthorScopeType == \A r \in Reservation : doc[r] \in Doc => AuthorScope(r) \in Author
BY EventAssumption DEF AuthorScope, Doc

\* Recording a rejection scope changes nothing else in a document.
LEMMA RejectKeeps ==
  ASSUME NEW r \in Reservation, doc \in [Reservation -> Doc \cup {None}], doc[r] \in Doc,
         Reject(r)
  PROVE  /\ doc' \in [Reservation -> Doc \cup {None}]
         /\ doc'[r] \in Doc /\ doc'[r].event = doc[r].event
         /\ doc'[r].reserved = doc[r].reserved
         /\ \A q \in Reservation : q # r => doc'[q] = doc[q]
<1>1. doc' = [doc EXCEPT ![r] = [doc[r] EXCEPT !.rejection = TRUE]]
  BY DEF Reject
<1>2. /\ [doc[r] EXCEPT !.rejection = TRUE] \in Doc
      /\ [doc[r] EXCEPT !.rejection = TRUE].event = doc[r].event
      /\ [doc[r] EXCEPT !.rejection = TRUE].reserved = doc[r].reserved
  BY DEF Doc
<1> QED
  BY <1>1, <1>2

\* Steps of save() and reserveManifestCapacity keep the control invariant.
LEMMA ControlSaver ==
  ASSUME Control, NEW r \in Reservation, Saver(r) \/ SaverCrash(r)
  PROVE  Control'
<1> USE DEF counterVars, reservationVars, queueVars, Goto, Patch, Invoke
<1>0. /\ TokensOK /\ ReservationsOK /\ PoolOK /\ PcOK /\ DocKnown
      /\ CurOwned /\ CallsOwned /\ VisitOwned
  BY DEF Control, ShapeOK
<1>1. ASSUME NEW e \in Event, BeginSave(r, e) PROVE Control'
  BY <1>1, <1>0, EventAssumption, ActorAssumption
    DEF BeginSave, Reserved, AtLeastZero, Live, Doc, Control, ShapeOK, TokensOK, ReservationsOK,
      PoolOK, PcOK, DocKnown, CurOwned, CallsOwned, VisitOwned, Processor, Job, Actor, SaverPc
<1>2. CASE SaverGlobal(r) \/ SaverAuthor(r)
  <2>1. PICK s \in Scope, next \in SaverPc, refused \in SaverPc :
          Reserve(r, s, next, refused) /\ pc[r] \in {"global", "author"}
    <3>1. AuthorScope(r) \in Scope
      BY <1>2, <1>0, AuthorScopeType DEF SaverGlobal, SaverAuthor, DocKnown, Scope
    <3> QED
      BY <1>2, <3>1 DEF SaverGlobal, SaverAuthor, Scope, SaverPc
  <2>2. TokensOK'
    BY <2>1, <1>0 DEF Reserve, ReserveCounter, Charge, TokensOK
  <2>3. ReservationsOK'
    BY <2>1, <1>0 DEF Reserve, ReservationsOK
  <2>4. PICK l \in SaverPc : pc' = [pc EXCEPT ![r] = l]
    BY <2>1 DEF Reserve
  <2>5. PoolOK' /\ PcOK'
    BY <2>1, <2>4, <1>0, ActorAssumption DEF Reserve, PoolOK, PcOK, Actor, Processor, Job
  <2>6. DocKnown'
    BY <2>1, <2>4, <1>0, ActorAssumption DEF Reserve, DocKnown, PoolOK, Actor
  <2>7. (CurOwned /\ CallsOwned /\ VisitOwned)'
    BY <2>1, <2>4, <1>0, ActorAssumption
      DEF Reserve, CurOwned, CallsOwned, VisitOwned, PoolOK, Actor, Processor, Job
  <2> QED
    BY <2>2, <2>3, <2>5, <2>6, <2>7 DEF Control, ShapeOK
<1>3. CASE SaverMark(r)
  BY <1>3, <1>0, ActorAssumption
    DEF SaverMark, Live, Control, ShapeOK, TokensOK, ReservationsOK,
      PoolOK, PcOK, DocKnown, CurOwned, CallsOwned, VisitOwned, Processor, Job, Actor, SaverPc
<1>4. CASE SaverReject(r)
  <2>1. Reject(r) /\ doc[r] \in Doc /\ doc \in [Reservation -> Doc \cup {None}]
    BY <1>4, <1>0 DEF SaverReject, DocKnown, ReservationsOK
  <2>2. /\ doc' \in [Reservation -> Doc \cup {None}] /\ doc'[r] \in Doc
        /\ \A q \in Reservation : q # r => doc'[q] = doc[q]
    BY <2>1, RejectKeeps
  <2>3. PICK l \in {"done", "cancel"}, c \in Call, t \in {"rejected", "cancel_required"} :
          /\ pc' = [pc EXCEPT ![r] = l] /\ call' = [call EXCEPT ![r] = c]
          /\ state' = [state EXCEPT ![r] = t]
          /\ c.step # "off" => l = "cancel" /\ c.r = r
    <3>1. CASE pc[r] = "rejectGlobal" /\ Patch(r, "rejected") /\ Goto(r, "done") /\ call' = call
      BY <3>1, <1>0 DEF ReservationsOK, CallsOwned, Actor
    <3>2. CASE Patch(r, "cancel_required") /\ Invoke(r, Cancel(r, "rejected")) /\ Goto(r, "cancel")
      BY <3>2, CallTypes DEF Terminal
    <3> QED
      BY <3>1, <3>2, <1>4 DEF SaverReject
  <2>4. /\ pc[r] \in {"rejectGlobal", "rejectAuthor"}
        /\ UNCHANGED << counterVars, delta, settled, event, queueVars,
                        cur, todo, page, visit, seen, aborts >>
    BY <1>4 DEF SaverReject
  <2>5. TokensOK' /\ ReservationsOK'
    BY <2>2, <2>3, <2>4, <1>0 DEF TokensOK, ReservationsOK, Terminal, Live, Actor
  <2>6. PoolOK' /\ PcOK'
    BY <2>3, <2>4, <1>0, ActorAssumption DEF PoolOK, PcOK, Actor, Processor, Job, SaverPc
  <2>7. DocKnown'
    BY <2>2, <2>3, <2>4, <1>0 DEF DocKnown, PoolOK, ReservationsOK, Actor
  <2>8. (CurOwned /\ CallsOwned /\ VisitOwned)'
    BY <2>3, <2>4, <1>0, ActorAssumption
      DEF ReservationsOK, CurOwned, CallsOwned, VisitOwned, PoolOK, Actor, Processor, Job
  <2> QED
    BY <2>5, <2>6, <2>7, <2>8 DEF Control, ShapeOK
<1>5. CASE SaverEnqueue(r)
  <2>1. PICK l \in {"done", "cancel"}, c \in Call :
          /\ pc' = [pc EXCEPT ![r] = l] /\ call' = [call EXCEPT ![r] = c]
          /\ c.step # "off" => l = "cancel" /\ c.r = r
    <3>1. CASE call' = call /\ Goto(r, "done")
      BY <3>1, <1>5, <1>0 DEF SaverEnqueue, ReservationsOK, CallsOwned, Actor
    <3>2. CASE Invoke(r, Cancel(r, "cancelled")) /\ Goto(r, "cancel")
      BY <3>2, CallTypes DEF Terminal
    <3> QED
      BY <3>1, <3>2, <1>5 DEF SaverEnqueue
  <2>2. /\ pc[r] = "enqueue"
        /\ phase' = [phase EXCEPT ![r] = "queued"]
        /\ ahead' = [ahead EXCEPT ![r] = Queued]
        /\ UNCHANGED << counterVars, reservationVars, event, requested, selected,
                        cur, todo, page, visit, seen, aborts >>
    BY <1>5 DEF SaverEnqueue, Enqueue
  <2>3. TokensOK' /\ ReservationsOK'
    BY <2>1, <2>2, <1>0 DEF TokensOK, ReservationsOK, Actor
  <2>4. PoolOK' /\ PcOK'
    BY <2>1, <2>2, <1>0, ActorAssumption
      DEF Queued, PoolOK, PcOK, Actor, Processor, Job, SaverPc, Phase, OpKey
  <2>5. DocKnown'
    BY <2>1, <2>2, <1>0 DEF DocKnown, PoolOK, OpKey, Actor
  <2>6. (CurOwned /\ CallsOwned /\ VisitOwned)'
    BY <2>1, <2>2, <1>0, ActorAssumption
      DEF ReservationsOK, CurOwned, CallsOwned, VisitOwned, PoolOK, Actor, Processor, Job, OpKey
  <2> QED
    BY <2>3, <2>4, <2>5, <2>6 DEF Control, ShapeOK
<1>6. CASE SaverEnqueueFails(r) \/ SaverCancelled(r) \/ SaverCrash(r)
  <2>1. PICK l \in SaverPc, c \in Call :
          /\ pc' = [pc EXCEPT ![r] = l] /\ call' = [call EXCEPT ![r] = c]
          /\ c.step # "off" => l = "cancel" /\ c.r = r
          /\ pc[r] \notin {"idle", "done", "crashed"}
          /\ UNCHANGED << counterVars, reservationVars, event, queueVars,
                          cur, todo, page, visit, seen >>
          /\ aborts' = aborts
    BY <1>6, CallTypes DEF SaverEnqueueFails, SaverCancelled, SaverCrash, SaverPc, Terminal
  <2> QED
    BY <2>1, <1>0, ActorAssumption
      DEF Control, ShapeOK, TokensOK, ReservationsOK,
        PoolOK, PcOK, DocKnown, CurOwned, CallsOwned, VisitOwned, Processor, Job, Actor
<1> QED
  BY <1>1, <1>2, <1>3, <1>4, <1>5, <1>6 DEF Saver
-------------------------------------------------------------------------------
\* A run that is under way is about a reservation whose document exists.
LEMMA CallHolds ==
  ASSUME Control, NEW a \in Actor, call[a].step # "off"
  PROVE  /\ call[a] \in Call /\ call[a].r \in Reservation
         /\ doc[call[a].r] \in Doc /\ AuthorScope(call[a].r) \in Author
<1>0. ReservationsOK /\ PcOK /\ DocKnown /\ CurOwned /\ CallsOwned /\ VisitOwned
  BY DEF Control, ShapeOK
<1>1. call[a] \in Call
  BY <1>0 DEF ReservationsOK
<1>2. call[a].r \in Reservation /\ doc[call[a].r] \in Doc
  <2>1. CASE a \in Reservation
    BY <2>1, <1>0 DEF CallsOwned, DocKnown
  <2>2. CASE a = Processor
    BY <2>2, <1>0 DEF CallsOwned, CurOwned, DocKnown, UpsertPc
  <2>3. CASE a = Job
    BY <2>3, <1>0 DEF CallsOwned, VisitOwned, DocKnown
  <2> QED
    BY <2>1, <2>2, <2>3 DEF Actor
<1> QED
  BY <1>1, <1>2, AuthorScopeType

\* A fresh copy of the document only decides the next step and its counter.
LEMMA WithCopyType ==
  ASSUME NEW c \in Call, AuthorScope(c.r) \in Author,
         NEW flags \in SUBSET Scope, NEW amount \in Amount \cup {None}
  PROVE  /\ WithCopy(c, flags, amount) \in Call
         /\ WithCopy(c, flags, amount).r = c.r
         /\ WithCopy(c, flags, amount).step \in {"settle", "state"}
         /\ WithCopy(c, flags, amount).step = "state" => {Global, AuthorScope(c.r)} \subseteq flags
BY DEF WithCopy, Call, CallStep, Scope

\* What a step of finalize or cancel does to the actor's own record.
LEMMA CallMoves ==
  ASSUME Control, NEW a \in Actor, CallNext(a)
  PROVE  \E c \in Call : /\ call' = [call EXCEPT ![a] = c]
                         /\ c.r = call[a].r /\ call[a].step # "off"
<1> DEFINE c == call[a]
<1>1. c.step # "off"
  BY DEF CallNext, CallRead, CallSettle, CallFlag, CallState, CallClear
<1>2. /\ c \in Call /\ c.r \in Reservation /\ doc[c.r] \in Doc /\ AuthorScope(c.r) \in Author
      /\ delta[c.r] \in Amount \cup {None} /\ settled[c.r] \in SUBSET Scope
      /\ call \in [Actor -> Call] /\ settled \in [Reservation -> SUBSET Scope]
  BY <1>1, CallHolds DEF Control, ShapeOK, ReservationsOK
<1>3. \A l \in CallStep : /\ [c EXCEPT !.step = l] \in Call
                         /\ [c EXCEPT !.step = l].r = c.r
  BY <1>2 DEF Call
<1>4. CASE CallRead(a)
  <2>1. /\ WithCopy(c, settled[c.r], delta[c.r]) \in Call
        /\ WithCopy(c, settled[c.r], delta[c.r]).r = c.r
    BY <1>2, WithCopyType
  <2> QED
    BY <1>1, <1>3, <1>4, <2>1 DEF CallRead, CallStep
<1>5. CASE CallSettle(a)
  BY <1>1, <1>2, <1>3, <1>5 DEF CallSettle, CallStep
<1>6. CASE CallFlag(a)
  <2>1. c.scope \in Scope
    BY <1>2 DEF Call
  <2>2. settled'[c.r] \in SUBSET Scope
    BY <1>2, <1>6, <2>1 DEF CallFlag
  <2>3. /\ WithCopy(c, settled'[c.r], delta[c.r]) \in Call
        /\ WithCopy(c, settled'[c.r], delta[c.r]).r = c.r
    BY <1>2, <2>2, WithCopyType
  <2> QED
    BY <1>1, <1>6, <2>3 DEF CallFlag
<1>7. CASE CallState(a)
  BY <1>1, <1>2, <1>3, <1>7 DEF CallState, CallStep
<1>8. CASE CallClear(a)
  <2>1. /\ [c EXCEPT !.scope = AuthorScope(c.r)] \in Call
        /\ [c EXCEPT !.scope = AuthorScope(c.r)].r = c.r
    BY <1>2 DEF Call, Scope
  <2> QED
    BY <1>1, <1>3, <1>8, <2>1 DEF CallClear, CallStep
<1> QED
  BY <1>4, <1>5, <1>6, <1>7, <1>8 DEF CallNext

\* What it does to everything else.
LEMMA CallTouches ==
  ASSUME Control, NEW a \in Actor, CallNext(a)
  PROVE  /\ TokensOK' /\ doc' = doc /\ delta' = delta
         /\ settled' \in [Reservation -> SUBSET Scope]
         /\ \/ state' = state
            \/ \E t \in Terminal : state' = [state EXCEPT ![call[a].r] = t]
<1> DEFINE c == call[a]
<1>1. c \in Call /\ c.r \in Reservation
  BY CallHolds DEF CallNext, CallRead, CallSettle, CallFlag, CallState, CallClear
<1>2. c.scope \in Scope /\ c.outcome \in Outcome /\ c.terminal \in Terminal
  BY <1>1 DEF Call
<1>3. TokensOK /\ settled \in [Reservation -> SUBSET Scope]
  BY DEF Control, ShapeOK, ReservationsOK
<1>4. CASE CallRead(a)
  BY <1>3, <1>4 DEF CallRead, counterVars, reservationVars, TokensOK
<1>5. CASE CallSettle(a)
  BY <1>1, <1>2, <1>3, <1>5
    DEF CallSettle, SettleCounter, Charge, counterVars, reservationVars, TokensOK
<1>6. CASE CallFlag(a)
  BY <1>1, <1>2, <1>3, <1>6 DEF CallFlag, counterVars, TokensOK
<1>7. CASE CallState(a)
  BY <1>1, <1>2, <1>3, <1>7 DEF CallState, counterVars, TokensOK
<1>8. CASE CallClear(a)
  BY <1>1, <1>2, <1>3, <1>8 DEF CallClear, ClearSettlement, reservationVars, TokensOK
<1> QED
  BY <1>4, <1>5, <1>6, <1>7, <1>8 DEF CallNext

\* So steps of finalize and cancel keep the control invariant.
LEMMA ControlCall ==
  ASSUME Control, NEW a \in Actor, CallNext(a), UNCHANGED << event, queueVars, workVars >>
  PROVE  Control'
<1>0. /\ ReservationsOK /\ PoolOK /\ PcOK /\ DocKnown
      /\ CurOwned /\ CallsOwned /\ VisitOwned
  BY DEF Control, ShapeOK
<1>1. PICK c \in Call : /\ call' = [call EXCEPT ![a] = c]
                        /\ c.r = call[a].r /\ call[a].step # "off"
  BY CallMoves
<1>2. call[a].r \in Reservation /\ doc[call[a].r] \in Doc
  BY <1>1, CallHolds
<1>3. ReservationsOK'
  BY <1>0, <1>1, <1>2, CallTouches DEF ReservationsOK
<1>4. PoolOK' /\ PcOK' /\ CurOwned' /\ VisitOwned'
  BY <1>0 DEF PoolOK, PcOK, CurOwned, VisitOwned, queueVars, workVars
<1>5. DocKnown'
  BY <1>0, <1>2, CallTouches DEF DocKnown, ReservationsOK, queueVars, workVars
<1>6. CallsOwned'
  BY <1>0, <1>1 DEF CallsOwned, ReservationsOK, Actor, queueVars, workVars
<1> QED
  BY <1>3, <1>4, <1>5, <1>6, CallTouches DEF Control, ShapeOK
-------------------------------------------------------------------------------
\* What every step of an upsert may do: move on, start or end a settlement,
\* patch its reservation and advance its operation.
UpsertMoves ==
  LET l == pc'[Processor]
      c == call'[Processor]
  IN /\ pc[Processor] \in UpsertPc \ {"remove"}
     /\ l \in UpsertPc /\ pc' = [pc EXCEPT ![Processor] = l]
     /\ c \in Call /\ call' = [call EXCEPT ![Processor] = c]
     /\ c.step # "off" => l \in {"cancel", "settling"} /\ c.r = cur
     /\ c = call[Processor] \/ c.step \in {"off", "read"}
     /\ state'[cur] \in {state[cur]} \cup Live
     /\ state' = [state EXCEPT ![cur] = state'[cur]]
     /\ delta'[cur] \in Amount \cup {None}
     /\ delta' = [delta EXCEPT ![cur] = delta'[cur]]
     /\ phase'[cur] \in Phase \ {"none", "gone"}
     /\ phase' = [phase EXCEPT ![cur] = phase'[cur]]
     /\ doc' = doc \/ Reject(cur)
     /\ event' \in [Ref -> Event \cup {None}]
     /\ UNCHANGED << counterVars, settled, ahead, requested, selected,
                     cur, todo, page, visit, seen, aborts >>

\* Such a step keeps the control invariant.
LEMMA UpsertMovesControl ==
  ASSUME Control, UpsertMoves
  PROVE  Control'
<1>0. /\ TokensOK /\ ReservationsOK /\ PoolOK /\ PcOK /\ DocKnown
      /\ CurOwned /\ CallsOwned /\ VisitOwned
  BY DEF Control, ShapeOK
<1>1. cur \in Reservation /\ cur \in OpKey /\ doc[cur] \in Doc
  BY <1>0 DEF UpsertMoves, CurOwned, DocKnown, OpKey, UpsertPc
<1>2. /\ doc' \in [Reservation -> Doc \cup {None}] /\ doc'[cur] \in Doc
      /\ \A q \in Reservation : q # cur => doc'[q] = doc[q]
  <2>1. CASE doc' = doc
    BY <2>1, <1>0, <1>1 DEF ReservationsOK
  <2>2. CASE Reject(cur)
    BY <2>2, <1>0, <1>1, RejectKeeps DEF ReservationsOK
  <2> QED
    BY <2>1, <2>2 DEF UpsertMoves
<1>3. TokensOK' /\ ReservationsOK'
  BY <1>0, <1>1, <1>2 DEF UpsertMoves, TokensOK, ReservationsOK, counterVars
<1>4. PoolOK' /\ PcOK'
  BY <1>0, <1>1, ActorAssumption DEF UpsertMoves, PoolOK, PcOK, Actor, Processor, Job
<1>5. DocKnown'
  BY <1>0, <1>1, <1>2, ActorAssumption
    DEF UpsertMoves, DocKnown, PoolOK, ReservationsOK, Actor, Processor, OpKey
<1>6. (CurOwned /\ CallsOwned /\ VisitOwned)'
  BY <1>0, <1>1, ActorAssumption
    DEF UpsertMoves, CurOwned, CallsOwned, VisitOwned, PoolOK, ReservationsOK, Actor, Processor, Job,
      UpsertPc, DeletionPc
<1> QED
  BY <1>3, <1>4, <1>5, <1>6 DEF Control, ShapeOK

\* Every step of processManifestUpsert is of that form.
LEMMA UpsertStepMoves ==
  ASSUME Control, Upsert
  PROVE  UpsertMoves
<1> USE DEF counterVars, reservationVars, queueVars, Then, At, Patch, Invoke
<1>0. /\ ReservationsOK /\ PoolOK /\ PcOK /\ DocKnown /\ CurOwned /\ CallsOwned
  BY DEF Control, ShapeOK
<1>1. pc[Processor] \in UpsertPc \ {"remove"}
  BY DEF Upsert, UpsertOpen, UpsertCheck, PatchOp, UpsertApply, UpsertApplied, UpsertFinalize,
    UpsertFinalized, UpsertFailed, UpsertCompensate, UpsertCancelled, UpsertPc
<1>2. /\ cur \in Reservation /\ cur \in OpKey /\ doc[cur] \in Doc
      /\ phase[cur] \in Phase \ {"none", "gone"} /\ delta[cur] \in Amount \cup {None}
  BY <1>0, <1>1 DEF CurOwned, DocKnown, OpKey, UpsertPc, ReservationsOK, PoolOK
<1>3. /\ state = [q \in Reservation |-> state[q]]
      /\ delta = [q \in Reservation |-> delta[q]]
      /\ phase = [o \in OpKey |-> phase[o]]
      /\ pc = [a \in Actor |-> pc[a]] /\ Processor \in Actor
      /\ call = [a \in Actor |-> call[a]]
      /\ call[Processor] \in Call
      /\ call[Processor].step # "off" =>
            pc[Processor] \in {"cancel", "settling"} /\ call[Processor].r = cur
      /\ event \in [Ref -> Event \cup {None}]
  BY <1>0, <1>2 DEF ReservationsOK, PoolOK, Actor, CallsOwned
<1>4. Candidate \in Event /\ RefOf[Candidate] \in Ref /\ Current \in Event \cup {None}
  BY <1>0, <1>2, EventAssumption DEF Candidate, Current, Doc, PoolOK
<1>5. Nothing \in Amount /\ Actual \in Amount
  BY <1>4, EventAssumption DEF Nothing, Actual, Amount
<1>6. /\ NoCall \in Call /\ NoCall.step = "off"
      /\ Finalize(cur) \in Call /\ Finalize(cur).r = cur
      /\ Cancel(cur, "cancelled") \in Call /\ Cancel(cur, "cancelled").r = cur
      /\ Cancel(cur, "rejected") \in Call /\ Cancel(cur, "rejected").r = cur
  BY <1>2, CallTypes DEF Terminal
<1>16. /\ Finalize(cur).step = "read"
       /\ Cancel(cur, "cancelled").step = "read" /\ Cancel(cur, "rejected").step = "read"
  BY <1>2, CallTypes DEF Terminal
<1> USE <1>1, <1>2, <1>3, <1>6, <1>16 DEF UpsertMoves
<1>7. CASE UpsertOpen
  BY <1>7 DEF UpsertOpen, UpsertPc
<1>8. CASE UpsertCheck
  BY <1>8, <1>5 DEF UpsertCheck, MarkAndCancel, UpsertPc, Live
<1>9. CASE \/ PatchOp("phase1", "prepared", "apply")
           \/ PatchOp("phase2", "event_applied", "finalize")
           \/ PatchOp("phase3", "accounting_applied", "remove")
  BY <1>9 DEF PatchOp, UpsertPc, Phase
<1>10. CASE UpsertApply
  BY <1>10, <1>4, <1>5 DEF UpsertApply, MarkAndCancel, UpsertPc, Live
<1>11. CASE UpsertApplied
  BY <1>11 DEF UpsertApplied, UpsertPc, Live
<1>12. CASE UpsertFinalize
  BY <1>12 DEF UpsertFinalize, UpsertPc
<1>13. CASE UpsertFinalized \/ UpsertCancelled
  BY <1>13 DEF UpsertFinalized, UpsertCancelled, UpsertPc
<1>14. CASE UpsertFailed
  BY <1>14 DEF UpsertFailed, UpsertPc
<1>15. CASE UpsertCompensate
  BY <1>15, <1>5 DEF UpsertCompensate, MarkAndCancel, UpsertPc, Live
<1> QED
  BY <1>7, <1>8, <1>9, <1>10, <1>11, <1>12, <1>13, <1>14, <1>15 DEF Upsert
-------------------------------------------------------------------------------
\* Steps of processDeletion keep the control invariant.
LEMMA ControlDelete ==
  ASSUME Control, Delete
  PROVE  Control' /\ pc[Processor] \in DeletionPc /\ UNCHANGED << reservationVars, call, page, visit >>
<1> USE DEF counterVars, reservationVars, queueVars, Then, At
<1>0. /\ TokensOK /\ ReservationsOK /\ PoolOK /\ PcOK /\ DocKnown
      /\ CurOwned /\ CallsOwned /\ VisitOwned
  BY DEF Control, ShapeOK
<1>1. pc[Processor] \in DeletionPc
  BY DEF Delete, DeletionSelect, DeletionBegin, DeletionDelete, PatchOp, DeletionAccount,
    DeletionAccounted, DeletionClear, DeletionFinish, DeletionPc
<1>2. /\ cur \in Deletion /\ cur \in OpKey /\ phase[cur] \in Phase \ {"none", "gone"}
      /\ selected[cur] \in SUBSET Event /\ Touched(cur) \in SUBSET Scope
  <2>1. cur \in Deletion /\ cur \in OpKey /\ phase[cur] \in Phase \ {"none", "gone"}
    BY <1>0, <1>1 DEF CurOwned, PoolOK, OpKey, DeletionPc
  <2>2. selected[cur] \in SUBSET Event
    BY <1>0, <2>1 DEF PoolOK
  <2> QED
    BY <2>1, <2>2, EventAssumption DEF Touched, Scope
<1>3. /\ event \in [Ref -> Event \cup {None}] /\ phase \in [OpKey -> Phase]
      /\ requested \in [Deletion -> SUBSET Event] /\ selected \in [Deletion -> SUBSET Event]
      /\ todo \in [{Processor, Job} -> SUBSET Scope]
      /\ pc = [a \in Actor |-> pc[a]] /\ Processor \in Actor
  BY <1>0 DEF PoolOK, Actor
<1>4. TokensOK'
  <2>1. CASE DeletionSelect \/ DeletionDelete \/ DeletionAccounted
             \/ PatchOp("deleted", "events_deleted", "rebegin")
    BY <2>1, <1>0 DEF DeletionSelect, DeletionDelete, DeletionAccounted, PatchOp, TokensOK
  <2>2. CASE DeletionBegin("begin", "delete") \/ DeletionBegin("rebegin", "account")
    BY <2>2, <1>0, <1>2 DEF DeletionBegin, BeginManifestMutation, TokensOK, Scope
  <2>3. ASSUME NEW s \in Scope, DeletionAccount(s) PROVE TokensOK'
    BY <2>3, <1>0, <1>2 DEF DeletionAccount, AccountOnce, Charge, TokensOK
  <2>4. ASSUME NEW s \in Scope, DeletionClear(s) PROVE TokensOK'
    BY <2>4, <1>0, <1>2 DEF DeletionClear, ClearAccounting, TokensOK
  <2>5. CASE DeletionFinish
    BY <2>5, <1>0, <1>2 DEF DeletionFinish, FinishManifestMutation, TokensOK, Scope
  <2> QED
    BY <2>1, <2>2, <2>3, <2>4, <2>5 DEF Delete
<1>5. /\ UNCHANGED << reservationVars, call, ahead, requested, cur, page, visit, seen, aborts >>
      /\ pc'[Processor] \in DeletionPc \cup {"remove"}
      /\ pc' = [pc EXCEPT ![Processor] = pc'[Processor]]
      /\ phase'[cur] \in Phase \ {"none", "gone"}
      /\ phase' = [phase EXCEPT ![cur] = phase'[cur]]
      /\ event' \in [Ref -> Event \cup {None}]
      /\ selected' \in [Deletion -> SUBSET Event]
      /\ todo' \in [{Processor, Job} -> SUBSET Scope]
  <2>1. CASE DeletionSelect
    BY <2>1, <1>2, <1>3 DEF DeletionSelect, DeletionPc, Phase
  <2>2. CASE DeletionBegin("begin", "delete") \/ DeletionBegin("rebegin", "account")
    BY <2>2, <1>1, <1>2, <1>3 DEF DeletionBegin, DeletionPc
  <2>3. CASE DeletionDelete
    BY <2>3, <1>2, <1>3 DEF DeletionDelete, DeletionPc
  <2>4. CASE PatchOp("deleted", "events_deleted", "rebegin")
    BY <2>4, <1>2, <1>3 DEF PatchOp, DeletionPc, Phase
  <2>5. ASSUME NEW s \in Scope, DeletionAccount(s) \/ DeletionClear(s)
        PROVE  /\ UNCHANGED << reservationVars, call, queueVars, event, cur, page, visit, seen, aborts, pc >>
               /\ todo' \in [{Processor, Job} -> SUBSET Scope]
    BY <2>5, <1>3 DEF DeletionAccount, DeletionClear, Visit
  <2>6. CASE DeletionAccounted
    BY <2>6, <1>2, <1>3 DEF DeletionAccounted, DeletionPc, Phase
  <2>7. CASE DeletionFinish
    BY <2>7, <1>2, <1>3 DEF DeletionFinish
  <2> QED
    BY <2>1, <2>2, <2>3, <2>4, <2>5, <2>6, <2>7, <1>1, <1>2, <1>3 DEF Delete
<1>6. ReservationsOK'
  BY <1>0, <1>5 DEF ReservationsOK
<1>7. PoolOK' /\ PcOK'
  BY <1>0, <1>2, <1>5, ActorAssumption
    DEF PoolOK, PcOK, Actor, Processor, Job, UpsertPc
<1>8. DocKnown'
  BY <1>0, <1>2, <1>5, ActorAssumption, PoolAssumption
    DEF DocKnown, PoolOK, Actor, Processor, OpKey
<1>9. (CurOwned /\ CallsOwned /\ VisitOwned)'
  BY <1>0, <1>1, <1>2, <1>5, ActorAssumption
    DEF CurOwned, CallsOwned, VisitOwned, PoolOK, Actor, Processor, Job, UpsertPc, DeletionPc
<1> QED
  BY <1>1, <1>4, <1>5, <1>6, <1>7, <1>8, <1>9 DEF Control, ShapeOK

\* Taking, removing and dropping an operation.
LEMMA ControlQueue ==
  ASSUME Control, (\E o \in OpKey : Take(o)) \/ Remove \/ ProcessorAbort
  PROVE  Control'
<1> USE DEF counterVars, reservationVars, queueVars, Then, At, Invoke
<1>0. /\ TokensOK /\ ReservationsOK /\ PoolOK /\ PcOK /\ DocKnown
      /\ CurOwned /\ CallsOwned /\ VisitOwned
  BY DEF Control, ShapeOK
<1>1. ASSUME NEW o \in OpKey, Take(o) PROVE Control'
  <2>1. phase[o] \notin {"none", "gone"} /\ pc[Processor] = "idle" /\ cur' = o
    BY <1>1 DEF Take, Started, Queued
  <2>2. /\ pc'[Processor] \in IF o \in Reservation THEN UpsertPc ELSE DeletionPc
        /\ pc' = [pc EXCEPT ![Processor] = pc'[Processor]]
    <3> HIDE DEF Then
    <3>1. PICK l : /\ Then(l)
                   /\ o \in Reservation => l = "open"
                   /\ o \notin Reservation => l \in {"select", "begin", "rebegin", "clear"}
      <4>1. CASE o \in Reservation
        <5>1. Then("open")
          BY <1>1, <4>1, PoolAssumption DEF Take
        <5> QED
          BY <5>1, <4>1
      <4>2. CASE o \notin Reservation
        <5>1. \E l \in {"select", "begin", "rebegin", "clear"} : Then(l)
          BY <1>1, <4>2 DEF Take, OpKey
        <5> QED
          BY <5>1, <4>2
      <4> QED
        BY <4>1, <4>2
    <3> QED
      BY <3>1, <1>0 DEF Then, PoolOK, Actor, UpsertPc, DeletionPc
  <2>3. \A d \in Deletion : Touched(d) \in SUBSET Scope
    BY <1>0, EventAssumption DEF PoolOK, Touched, Scope
  <2>4. todo' \in [{Processor, Job} -> SUBSET Scope]
    BY <1>1, <1>0, <2>3 DEF Take, PoolOK
  <2>5. UNCHANGED << counterVars, reservationVars, call, event, queueVars, page, visit, seen, aborts >>
    BY <1>1 DEF Take
  <2>6. TokensOK' /\ ReservationsOK' /\ PcOK'
    BY <1>0, <2>2, <2>5, ActorAssumption
      DEF PoolOK, PcOK, TokensOK, ReservationsOK, Actor, Processor, Job
  <2>8. pc' \in [Actor -> SaverPc \cup UpsertPc \cup DeletionPc \cup JobPc] /\ cur' \in OpKey
    BY <1>0, <2>1, <2>2 DEF PoolOK, Actor
  <2>9. PoolOK'
    BY <1>0, <2>4, <2>5, <2>8 DEF PoolOK
  <2>7. (DocKnown /\ CurOwned /\ CallsOwned /\ VisitOwned)'
    BY <1>0, <2>1, <2>2, <2>5, ActorAssumption, PoolAssumption
      DEF DocKnown, CurOwned, CallsOwned, VisitOwned, PoolOK, Actor, Processor, Job, OpKey,
        UpsertPc, DeletionPc
  <2> QED
    BY <2>6, <2>7, <2>9 DEF Control, ShapeOK
<1>2. ASSUME Remove PROVE Control'
  <2>1. cur \in OpKey
    BY <1>2, <1>0 DEF Remove, CurOwned
  <2>2. TokensOK' /\ ReservationsOK' /\ PcOK' /\ PoolOK'
    BY <1>2, <1>0, <2>1, ActorAssumption
      DEF Remove, TokensOK, ReservationsOK, PcOK, PoolOK, Actor, Processor, Job, Phase, SaverPc
  <2>3. (DocKnown /\ CurOwned /\ CallsOwned /\ VisitOwned)'
    BY <1>2, <1>0, <2>1, ActorAssumption
      DEF Remove, DocKnown, CurOwned, CallsOwned, VisitOwned, PoolOK, Actor, Processor, Job, OpKey,
        UpsertPc, DeletionPc
  <2> QED
    BY <2>2, <2>3 DEF Control, ShapeOK
<1>3. ASSUME ProcessorAbort PROVE Control'
  <2>1. TokensOK' /\ ReservationsOK' /\ PcOK' /\ PoolOK'
    BY <1>3, <1>0, CallTypes, ActorAssumption, PoolAssumption
      DEF ProcessorAbort, TokensOK, ReservationsOK, PcOK, PoolOK, Actor, Processor, Job, SaverPc
  <2>2. (DocKnown /\ CurOwned /\ CallsOwned /\ VisitOwned)'
    BY <1>3, <1>0, CallTypes, ActorAssumption
      DEF ProcessorAbort, DocKnown, CurOwned, CallsOwned, VisitOwned, PoolOK, ReservationsOK, Actor,
        Processor, Job, UpsertPc, DeletionPc
  <2> QED
    BY <2>1, <2>2 DEF Control, ShapeOK
<1> QED
  BY <1>1, <1>2, <1>3

\* queueDeleteEventsWithAccounting keeps the control invariant.
LEMMA ControlRequest ==
  ASSUME Control, NEW d \in Deletion, NEW S \in SUBSET Event, RequestDeletion(d, S)
  PROVE  Control'
BY PoolAssumption
  DEF Control, ShapeOK, TokensOK, ReservationsOK, PoolOK, PcOK, DocKnown, CurOwned, CallsOwned,
    VisitOwned, RequestDeletion, Enqueue, Queued, Phase, OpKey,
    counterVars, reservationVars, workVars
-------------------------------------------------------------------------------
\* The job settles what is under way in its copy, or what no producer holds.
Settleable(c) ==
  /\ c.step = "read"
  /\ \/ page[c.r] \notin {"absent", "preparing", "reserved"}
     \/ ~InFlight(c.r)
     \/ "slow_handoff" \in Faults

\* What every step of the job but JobRetire may do: move on, start or end a
\* settlement, and change its own copies.
JobMoves ==
  LET l == pc'[Job]
      c == call'[Job]
  IN /\ l \in {"idle"} \cup JobPc /\ pc' = [pc EXCEPT ![Job] = l]
     /\ c \in Call /\ call' = [call EXCEPT ![Job] = c]
     /\ c.step # "off" => l = "calling" /\ c.r = visit'
     /\ c = call[Job] \/ c.step = "off" \/ Settleable(c)
     /\ l \in {"inspect", "search", "calling", "terminal"} =>
          visit' \in Reservation /\ page'[visit'] # "absent"
     /\ visit' \in Reservation \cup {None}
     /\ page' \in [Reservation -> Live \cup Terminal \cup {"absent"}]
     /\ \A r \in Reservation : page'[r] \in {"absent", page[r], state[r]}
     /\ todo' \in [{Processor, Job} -> SUBSET Scope]
     /\ seen' \in [Ref -> Event \cup {None, "unread"}]
     /\ aborts' \in 0..MaxAborts
     /\ TokensOK'
     /\ UNCHANGED << reservationVars, event, queueVars, cur >>

\* A step of that form keeps the control invariant.
LEMMA JobMovesControl ==
  ASSUME Control, JobMoves
  PROVE  Control'
<1>0. /\ ReservationsOK /\ PoolOK /\ PcOK /\ DocKnown
      /\ CurOwned /\ CallsOwned /\ VisitOwned
  BY DEF Control, ShapeOK
<1>1. TokensOK' /\ ReservationsOK'
  BY <1>0 DEF JobMoves, ReservationsOK, reservationVars
<1>2. PcOK'
  BY <1>0, ActorAssumption DEF JobMoves, PoolOK, PcOK, Actor, Processor, Job
<1>5. pc' \in [Actor -> SaverPc \cup UpsertPc \cup DeletionPc \cup JobPc]
  BY <1>0 DEF JobMoves, PoolOK, SaverPc
<1>6. PoolOK'
  BY <1>0, <1>5 DEF JobMoves, PoolOK, queueVars
<1>3. DocKnown'
  BY <1>0, ActorAssumption DEF JobMoves, DocKnown, PoolOK, Actor, Job, reservationVars, queueVars
<1>4. (CurOwned /\ CallsOwned /\ VisitOwned)'
  BY <1>0, ActorAssumption
    DEF JobMoves, CurOwned, CallsOwned, VisitOwned, PoolOK, ReservationsOK, Actor, Processor, Job,
      queueVars
<1> QED
  BY <1>1, <1>2, <1>3, <1>4, <1>6 DEF Control, ShapeOK

\* Every step of the job but the retiring of a document is of that form.
LEMMA JobStepMoves ==
  ASSUME Control, JobStep \/ JobAbort, ~JobRetire
  PROVE  JobMoves
<1> USE DEF counterVars, reservationVars, queueVars, JobAt, JobThen, Invoke
<1>0. /\ TokensOK /\ ReservationsOK /\ PoolOK /\ PcOK /\ DocKnown /\ CallsOwned /\ VisitOwned
  BY DEF Control, ShapeOK
<1>1. /\ state \in [Reservation -> Live \cup Terminal \cup {"absent"}]
      /\ page \in [Reservation -> Live \cup Terminal \cup {"absent"}]
      /\ NoPage \in [Reservation -> Live \cup Terminal \cup {"absent"}]
      /\ \A r \in Reservation : NoPage[r] = "absent"
      /\ visit \in Reservation \cup {None}
      /\ todo \in [{Processor, Job} -> SUBSET Scope]
      /\ seen \in [Ref -> Event \cup {None, "unread"}]
      /\ Unread \in [Ref -> Event \cup {None, "unread"}]
      /\ event \in [Ref -> Event \cup {None}]
      /\ aborts \in 0..MaxAborts
      /\ pc = [a \in Actor |-> pc[a]] /\ Job \in Actor /\ pc[Job] \in {"idle"} \cup JobPc
      /\ call = [a \in Actor |-> call[a]] /\ call[Job] \in Call
      /\ call[Job].step # "off" => pc[Job] = "calling" /\ call[Job].r = visit
      /\ pc[Job] \in {"inspect", "search", "calling", "terminal"} =>
            visit \in Reservation /\ page[visit] # "absent"
  BY <1>0 DEF ReservationsOK, PoolOK, PcOK, CallsOwned, VisitOwned, Actor, NoPage, Unread
<1>15. pc = [pc EXCEPT ![Job] = pc[Job]] /\ call = [call EXCEPT ![Job] = call[Job]]
  BY <1>1
<1>2. /\ NoCall \in Call /\ NoCall.step = "off"
      /\ \A r \in Reservation :
           /\ Finalize(r) \in Call /\ Finalize(r).r = r
           /\ Cancel(r, "cancelled") \in Call /\ Cancel(r, "cancelled").r = r
           /\ Cancel(r, "rejected") \in Call /\ Cancel(r, "rejected").r = r
           /\ Finalize(r).step = "read" /\ Cancel(r, "cancelled").step = "read"
           /\ Cancel(r, "rejected").step = "read"
  BY CallTypes DEF Terminal
<1>3. \A r \in Reservation : page[r] # "absent" => AuthorScope(r) \in Author
  BY <1>0, AuthorScopeType DEF DocKnown
<1>4. TokensOK'
  <2>1. ASSUME NEW s \in Scope, JobTerminal(s) PROVE TokensOK'
    BY <2>1, <1>0 DEF JobTerminal, ClearSettlement, TokensOK
  <2>2. ASSUME NEW s \in Scope, JobReconcile(s) PROVE TokensOK'
    BY <2>2, <1>0 DEF JobReconcile, ReconcileCounter, TokensOK
  <2>3. CASE JobSnapshot
    BY <2>3, <1>0 DEF JobSnapshot, TokensOK
  <2>4. CASE JobReconciled \/ JobAbort
    BY <2>4, <1>0 DEF JobReconciled, JobAbort, JobRest, TokensOK
  <2>5. ASSUME UNCHANGED counterVars PROVE TokensOK'
    BY <2>5, <1>0 DEF TokensOK
  <2>6. /\ JobStart \/ JobFinish \/ JobInspect \/ JobSkip \/ JobCancelOrphan \/ JobCalled
               => UNCHANGED counterVars
        /\ \A r \in Reservation : JobVisit(r) => UNCHANGED counterVars
        /\ \A x \in Ref : JobScan(x) => UNCHANGED counterVars
    BY DEF JobStart, JobFinish, JobInspect, JobSkip, JobCancelOrphan, JobCalled, JobVisit, JobScan
  <2> QED
    BY <2>1, <2>2, <2>3, <2>4, <2>5, <2>6 DEF JobStep
<1> USE <1>1, <1>2, <1>4 DEF JobMoves
<1>5. CASE JobStart
  BY <1>5 DEF JobStart, JobPc
<1>6. ASSUME NEW r \in Reservation, JobVisit(r) PROVE JobMoves
  BY <1>6, <1>3 DEF JobVisit, JobPc, Scope, Settleable
<1>7. CASE JobInspect
  BY <1>7 DEF JobInspect, JobPc, Settleable
<1>8. CASE JobSkip
  BY <1>8 DEF JobSkip, Visited, JobPc
<1>9. CASE JobCancelOrphan
  BY <1>9 DEF JobCancelOrphan, JobPc, Settleable
<1>10. CASE JobCalled
  BY <1>10 DEF JobCalled, Visited, JobPc
<1>11. ASSUME NEW s \in Scope, JobTerminal(s) \/ JobReconcile(s) PROVE JobMoves
  <2>1. /\ UNCHANGED << reservationVars, call, event, queueVars, pc, cur, page, visit, seen, aborts >>
        /\ todo' \in [{Processor, Job} -> SUBSET Scope]
    BY <1>11, <1>1 DEF JobTerminal, JobReconcile, Visit
  <2>2. /\ pc'[Job] = pc[Job] /\ call'[Job] = call[Job] /\ page' = page /\ visit' = visit
        /\ seen' = seen /\ aborts' = aborts
    BY <2>1
  <2> QED
    BY <1>15, <2>1, <2>2
<1>12. CASE JobFinish
  BY <1>12 DEF JobFinish
<1>13. CASE JobSnapshot
  BY <1>13 DEF JobSnapshot, JobPc
<1>14. ASSUME NEW x \in Ref, JobScan(x) PROVE JobMoves
  BY <1>14 DEF JobScan, JobPc
<1>16. CASE JobReconciled
  BY <1>16 DEF JobReconciled, JobRest
<1>17. CASE JobAbort
  BY <1>17, PoolAssumption DEF JobAbort, JobRest
<1> QED
  BY <1>5, <1>6, <1>7, <1>8, <1>9, <1>10, <1>11, <1>12, <1>13, <1>14, <1>16, <1>17 DEF JobStep

\* A document is retired only when nobody is going to use it.
LEMMA ControlRetire ==
  ASSUME Control, JobRetire
  PROVE  Control'
<1> USE DEF counterVars, reservationVars, queueVars, JobAt, JobThen, Visited, Patch
<1>0. /\ TokensOK /\ ReservationsOK /\ PoolOK /\ PcOK /\ DocKnown
      /\ CurOwned /\ CallsOwned /\ VisitOwned
  BY DEF Control, ShapeOK
<1>1. visit \in Reservation /\ pc[Job] = "terminal"
  BY <1>0 DEF JobRetire, VisitOwned
<1>2. TokensOK' /\ ReservationsOK'
  BY <1>0, <1>1 DEF JobRetire, TokensOK, ReservationsOK
<1>3. PoolOK' /\ PcOK'
  BY <1>0, <1>1, ActorAssumption DEF JobRetire, PoolOK, PcOK, Actor, Processor, Job, JobPc
<1>4. DocKnown'
  <2>1. CASE UNCHANGED reservationVars
    BY <2>1, <1>0, <1>1, ActorAssumption DEF JobRetire, DocKnown, PoolOK, Actor, Job
  <2>2. CASE ~InFlight(visit) /\ visit \notin Queued /\ Patch(visit, "absent")
             /\ doc' = [doc EXCEPT ![visit] = None]
    BY <2>2, <1>0, <1>1, ActorAssumption
      DEF JobRetire, DocKnown, PoolOK, ReservationsOK, Actor, Job, InFlight, Queued, OpKey
  <2> QED
    BY <2>1, <2>2 DEF JobRetire
<1>5. (CurOwned /\ CallsOwned /\ VisitOwned)'
  BY <1>0, <1>1, ActorAssumption
    DEF JobRetire, CurOwned, CallsOwned, VisitOwned, PoolOK, Actor, Processor, Job
<1> QED
  BY <1>2, <1>3, <1>4, <1>5 DEF Control, ShapeOK

-------------------------------------------------------------------------------
\* The control invariant is inductive.
LEMMA ControlStep == Control /\ [Next]_vars => Control'
<1> SUFFICES ASSUME Control, [Next]_vars PROVE Control'
  OBVIOUS
<1>1. ASSUME NEW r \in Reservation, Saver(r) \/ SaverCrash(r) PROVE Control'
  BY <1>1, ControlSaver
<1>2. CASE Settlement
  BY <1>2, ControlCall DEF Settlement
<1>3. CASE ProcessorStep \/ ProcessorAbort
  BY <1>3, ControlDelete, ControlQueue, UpsertStepMoves, UpsertMovesControl DEF ProcessorStep
<1>4. CASE JobStep \/ JobAbort
  BY <1>4, JobStepMoves, JobMovesControl, ControlRetire
<1>5. ASSUME NEW d \in Deletion, NEW S \in SUBSET Event, RequestDeletion(d, S) PROVE Control'
  BY <1>5, ControlRequest
<1>6. CASE UNCHANGED vars
  BY <1>6
    DEF vars, counterVars, reservationVars, queueVars, workVars, Control, ShapeOK, TokensOK,
      ReservationsOK, PoolOK, PcOK, DocKnown, CurOwned, CallsOwned, VisitOwned
<1> QED
  BY <1>1, <1>2, <1>3, <1>4, <1>5, <1>6 DEF Next

\* Every variable keeps its shape, whatever the interleaving and wherever an
\* actor stops: no step of the code uses a reservation document, an operation or
\* a page entry that another step has already disposed of.
THEOREM Shape == Spec => []ShapeOK
<1>1. Control => ShapeOK
  BY DEF Control
<1> QED
  BY ControlInit, ControlStep, <1>1, PTL DEF Spec
-------------------------------------------------------------------------------
\* Only the upsert of a winner and deletions write the events index.
LEMMA NewestStep ==
  ASSUME Control, [Next]_vars
  PROVE  \A x \in Ref : event[x] # None /\ event'[x] # None => Rank[event[x]] <= Rank[event'[x]]
<1>0. /\ event \in [Ref -> Event \cup {None}] /\ PcOK /\ DocKnown /\ CurOwned
      /\ Rank \in [Event -> Nat]
  BY PoolAssumption DEF Control, ShapeOK, PoolOK
<1>1. ASSUME event' = event
      PROVE  \A x \in Ref : event[x] # None /\ event'[x] # None => Rank[event[x]] <= Rank[event'[x]]
  BY <1>0, <1>1
<1>2. CASE UpsertApply
  <2>1. cur \in Reservation /\ doc[cur] \in Doc
    BY <1>0, <1>2 DEF UpsertApply, At, CurOwned, DocKnown, UpsertPc
  <2>2. Candidate \in Event /\ RefOf[Candidate] \in Ref
    BY <2>1, EventAssumption DEF Candidate, Doc
  <2>3. CASE Wins(Current, Candidate)
    BY <1>1, <1>2, <2>3 DEF UpsertApply
  <2>4. CASE ~Wins(Current, Candidate)
    BY <1>0, <1>2, <2>2, <2>4 DEF UpsertApply, Current, Wins
  <2> QED
    BY <2>3, <2>4
<1>3. CASE DeletionDelete
  BY <1>0, <1>3 DEF DeletionDelete
<1>4. CASE ~UpsertApply /\ ~DeletionDelete
  <2>1. event' = event
    <3>1. ASSUME NEW r \in Reservation, Saver(r) \/ SaverCrash(r) PROVE event' = event
      BY <3>1 DEF Saver, SaverCrash, BeginSave, SaverGlobal, SaverAuthor, Reserve, SaverMark,
        SaverReject, SaverEnqueue, SaverEnqueueFails, SaverCancelled
    <3>2. CASE Settlement
      BY <3>2 DEF Settlement
    <3>3. CASE Upsert
      BY <3>3, <1>4 DEF Upsert, UpsertOpen, UpsertCheck, PatchOp, UpsertApplied, UpsertFinalize,
        UpsertFinalized, UpsertFailed, UpsertCompensate, UpsertCancelled
    <3>4. CASE Delete
      BY <3>4, <1>4 DEF Delete, DeletionSelect, DeletionBegin, PatchOp, DeletionAccount,
        DeletionAccounted, DeletionClear, DeletionFinish
    <3>5. CASE Remove \/ ProcessorAbort \/ \E o \in OpKey : Take(o)
      BY <3>5 DEF Remove, ProcessorAbort, Take
    <3>6. CASE JobStep \/ JobAbort
      BY <3>6 DEF JobStep, JobAbort, JobRest, JobStart, JobFinish, JobVisit, JobInspect, JobSkip,
        JobCancelOrphan, JobCalled, JobTerminal, JobReconcile, JobRetire, JobSnapshot,
        JobReconciled, JobScan
    <3>7. CASE UNCHANGED vars
      BY <3>7 DEF vars
    <3>8. ASSUME NEW d \in Deletion, NEW S \in SUBSET Event, RequestDeletion(d, S) PROVE event' = event
      BY <3>8 DEF RequestDeletion
    <3> QED
      BY <3>1, <3>2, <3>3, <3>4, <3>5, <3>6, <3>7, <3>8 DEF Next, ProcessorStep
  <2> QED
    BY <1>1, <2>1
<1> QED
  BY <1>2, <1>3, <1>4

\* The stored version of a manifest never gets older (currentWins), for any
\* number of savers, events and addresses and any placement of failures.
THEOREM Newest == Spec => NewestManifestWins
<1>1. Control /\ [Next]_vars =>
        [\A x \in Ref : event[x] # None /\ event'[x] # None
           => Rank[event[x]] <= Rank[event'[x]]]_vars
  BY NewestStep
<1> QED
  BY ControlInit, ControlStep, <1>1, PTL DEF Spec, NewestManifestWins

-------------------------------------------------------------------------------
\* At the start no counter holds a token.
LEMMA OutcomeInit == Init => OutcomeInv
BY ControlInit DEF Init, CountersInit, OutcomeInv, Exclusive, NotYetIn

\* A step that leaves the tokens and the savers alone.
LEMMA OutcomeFrame ==
  ASSUME OutcomeInv, UNCHANGED << reservationTokens, settlementTokens >>,
         \A r \in Reservation : pc'[r] = pc[r] \/ pc'[r] \notin {"idle", "global", "author"}
                                             \/ pc[r] = "idle"
  PROVE  Exclusive' /\ NotYetIn'
BY DEF OutcomeInv, Exclusive, NotYetIn, NotAsked

\* A step that settles a reservation, or forgets that it was settled.
LEMMA OutcomeSettles ==
  ASSUME OutcomeInv, NEW s \in Scope, NEW r \in Reservation, NEW o \in Outcome,
         UNCHANGED pc, NEW reserved, NEW actual,
         SettleCounter(s, r, o, reserved, actual) \/ ClearSettlement(s, r, o)
  PROVE  Exclusive' /\ NotYetIn'
<1>0. TokensOK /\ Exclusive /\ NotYetIn
  BY DEF OutcomeInv, Control, ShapeOK
<1>1. CASE SettleCounter(s, r, o, reserved, actual) /\ r \in reservationTokens[s]
             /\ <<r, o>> \notin settlementTokens[s]
  <2>1. /\ reservationTokens' = [reservationTokens EXCEPT ![s] = @ \ {r}]
        /\ settlementTokens' = [settlementTokens EXCEPT ![s] = @ \cup {<<r, o>>}]
    BY <1>1 DEF SettleCounter
  <2>2. Exclusive'
    BY <1>0, <1>1, <2>1 DEF Exclusive, TokensOK, Outcome
  <2>3. NotYetIn'
    BY <1>0, <1>1, <2>1 DEF NotYetIn, NotAsked, TokensOK, Outcome
  <2> QED
    BY <2>2, <2>3
<1>2. CASE SettleCounter(s, r, o, reserved, actual)
             /\ ~(r \in reservationTokens[s] /\ <<r, o>> \notin settlementTokens[s])
  BY <1>0, <1>2 DEF SettleCounter, counterVars, Exclusive, NotYetIn, NotAsked
<1>3. CASE ClearSettlement(s, r, o)
  BY <1>0, <1>3 DEF ClearSettlement, Exclusive, NotYetIn, NotAsked, TokensOK
<1> QED
  BY <1>1, <1>2, <1>3

\* A saver asks each counter once, before anything has been settled there.
LEMMA OutcomeSaver ==
  ASSUME OutcomeInv, NEW r \in Reservation, Saver(r) \/ SaverCrash(r)
  PROVE  Exclusive' /\ NotYetIn'
<1>0. TokensOK /\ PoolOK /\ PcOK /\ DocKnown /\ Exclusive /\ NotYetIn
  BY DEF OutcomeInv, Control, ShapeOK
<1>1. ASSUME NEW s \in Scope, NEW next, NEW refused, Reserve(r, s, next, refused), NotAsked(r, s),
             next \notin {"idle", "global"}, next = "author" => s = Global,
             refused \notin {"idle", "global", "author"}
      PROVE  Exclusive' /\ NotYetIn'
  <2>1. CASE UNCHANGED counterVars /\ Goto(r, refused)
    BY <1>0, <1>1, <2>1, OutcomeFrame DEF counterVars, Goto, PoolOK, Actor
  <2>2. CASE /\ reservationTokens' = [reservationTokens EXCEPT ![s] = @ \cup {r}]
             /\ settlementTokens' = settlementTokens /\ Goto(r, next)
    <3>1. Exclusive'
      BY <1>0, <1>1, <2>2 DEF Exclusive, NotYetIn, TokensOK
    <3>2. NotYetIn'
      BY <1>0, <1>1, <2>2 DEF NotYetIn, NotAsked, TokensOK, Goto, PoolOK, Actor
    <3> QED
      BY <3>1, <3>2
  <2> QED
    BY <1>1, <2>1, <2>2 DEF Reserve, ReserveCounter
<1>2. CASE SaverGlobal(r)
  BY <1>1, <1>2 DEF SaverGlobal, NotAsked, Scope
<1>3. CASE SaverAuthor(r)
  <2>1. AuthorScope(r) \in Author /\ AuthorScope(r) # Global
    BY <1>0, <1>3, AuthorScopeType, GlobalAssumption DEF SaverAuthor, DocKnown
  <2> QED
    BY <1>1, <1>3, <2>1 DEF SaverAuthor, NotAsked, Scope
<1>4. CASE ~SaverGlobal(r) /\ ~SaverAuthor(r)
  <2>1. /\ UNCHANGED << reservationTokens, settlementTokens >>
        /\ \A q \in Reservation : pc'[q] = pc[q] \/ pc'[q] \notin {"idle", "global", "author"}
                                                  \/ pc[q] = "idle"
    BY <1>0, <1>4
      DEF Saver, SaverCrash, BeginSave, SaverMark, SaverReject, SaverEnqueue, SaverEnqueueFails,
        SaverCancelled, counterVars, Goto, PoolOK, Actor
  <2> QED
    BY <2>1, OutcomeFrame
<1> QED
  BY <1>2, <1>3, <1>4

\* Steps of the processor and of the queue touch neither tokens of reservations
\* nor the savers.
LEMMA ProcessorLeaves ==
  ASSUME Control, \/ ProcessorStep \/ ProcessorAbort
                  \/ \E d \in Deletion, S \in SUBSET Event : RequestDeletion(d, S)
  PROVE  /\ UNCHANGED << reservationTokens, settlementTokens, settled >>
         /\ \A r \in Reservation : pc'[r] = pc[r]
<1>0. PoolOK
  BY DEF Control, ShapeOK
<1>1. CASE Upsert
  BY <1>0, <1>1, UpsertStepMoves, ActorAssumption DEF UpsertMoves, counterVars, PoolOK, Actor
<1>2. CASE Delete
  <2>1. UNCHANGED << reservationTokens, settlementTokens, settled >>
    BY <1>2 DEF Delete, DeletionSelect, DeletionBegin, DeletionDelete, PatchOp, DeletionAccount,
      DeletionAccounted, DeletionClear, DeletionFinish, BeginManifestMutation, AccountOnce, Charge,
      ClearAccounting, FinishManifestMutation, counterVars, reservationVars
  <2>2. \E l : Then(l) \/ pc' = pc
    BY <1>2 DEF Delete, DeletionSelect, DeletionBegin, DeletionDelete, PatchOp, DeletionAccount,
      DeletionAccounted, DeletionClear, DeletionFinish
  <2> QED
    BY <1>0, <2>1, <2>2, ActorAssumption DEF Then, PoolOK, Actor
<1>3. CASE Remove \/ ProcessorAbort \/ \E o \in OpKey : Take(o)
  BY <1>0, <1>3, ActorAssumption
    DEF Remove, ProcessorAbort, Take, Then, counterVars, reservationVars, PoolOK, Actor
<1>4. ASSUME NEW d \in Deletion, NEW S \in SUBSET Event, RequestDeletion(d, S)
      PROVE  UNCHANGED << reservationTokens, settlementTokens, settled, pc >>
  BY <1>4 DEF RequestDeletion, counterVars, reservationVars, workVars
<1> QED
  BY <1>1, <1>2, <1>3, <1>4 DEF ProcessorStep

\* Steps of the job leave the savers where they are.
LEMMA JobLeaves ==
  ASSUME Control, JobStep \/ JobAbort
  PROVE  \A r \in Reservation : pc'[r] = pc[r]
<1>1. PoolOK
  BY DEF Control, ShapeOK
<1>2. CASE JobRetire
  BY <1>1, <1>2, ActorAssumption DEF JobRetire, JobThen, PoolOK, Actor
<1>3. CASE ~JobRetire
  BY <1>1, <1>3, JobStepMoves, ActorAssumption DEF JobMoves, PoolOK, Actor
<1> QED
  BY <1>2, <1>3

\* The invariant behind OneOutcome is inductive.
LEMMA OutcomeStep == OutcomeInv /\ [Next]_vars => OutcomeInv'
<1> SUFFICES ASSUME OutcomeInv, [Next]_vars PROVE Exclusive' /\ NotYetIn'
  BY ControlStep DEF OutcomeInv
<1>0. Control /\ TokensOK /\ Exclusive /\ NotYetIn /\ ReservationsOK
  BY DEF OutcomeInv, Control, ShapeOK
<1>1. ASSUME NEW r \in Reservation, Saver(r) \/ SaverCrash(r) PROVE Exclusive' /\ NotYetIn'
  BY <1>1, OutcomeSaver
<1>2. ASSUME NEW a \in Actor, CallNext(a), pc' = pc PROVE Exclusive' /\ NotYetIn'
  <2>1. /\ call[a].r \in Reservation /\ call[a].scope \in Scope /\ call[a].outcome \in Outcome
    <3>1. call[a].step # "off"
      BY <1>2 DEF CallNext, CallRead, CallSettle, CallFlag, CallState, CallClear
    <3> QED
      BY <1>0, <3>1, CallHolds DEF Call
  <2>2. CASE CallSettle(a) \/ CallClear(a)
    BY <1>2, <2>1, <2>2, OutcomeSettles DEF CallSettle, CallClear
  <2>3. CASE CallRead(a) \/ CallFlag(a) \/ CallState(a)
    BY <1>2, <2>3, OutcomeFrame DEF CallRead, CallFlag, CallState, counterVars
  <2> QED
    BY <1>2, <2>2, <2>3 DEF CallNext
<1>3. CASE Settlement
  BY <1>2, <1>3 DEF Settlement, workVars
<1>4. CASE \/ ProcessorStep \/ ProcessorAbort
           \/ \E d \in Deletion, S \in SUBSET Event : RequestDeletion(d, S)
  BY <1>0, <1>4, ProcessorLeaves, OutcomeFrame
<1>5. CASE JobStep \/ JobAbort
  <2>1. \A r \in Reservation : pc'[r] = pc[r]
    BY <1>0, <1>5, JobLeaves
  <2>2. ASSUME NEW s \in Scope, JobTerminal(s) PROVE Exclusive' /\ NotYetIn'
    <3>1. visit \in Reservation
      BY <1>0, <2>2 DEF JobTerminal, JobAt, Control, VisitOwned
    <3>2. PICK o \in Outcome : ClearSettlement(s, visit, o) /\ pc' = pc
      BY <2>2 DEF JobTerminal, Outcome
    <3> QED
      BY <3>1, <3>2, OutcomeSettles
  <2>3. ASSUME NEW s \in Scope, JobReconcile(s) PROVE Exclusive' /\ NotYetIn'
    <3>1. /\ reservationTokens' = reservationTokens
          /\ \/ settlementTokens' = settlementTokens
             \/ settlementTokens' = [settlementTokens EXCEPT ![s] = {}]
      BY <2>3 DEF JobReconcile, ReconcileCounter, counterVars
    <3> QED
      BY <1>0, <2>1, <3>1 DEF Exclusive, NotYetIn, NotAsked, TokensOK
  <2>4. CASE ~(\E s \in Scope : JobTerminal(s) \/ JobReconcile(s))
    <3>1. UNCHANGED << reservationTokens, settlementTokens >>
      BY <1>5, <2>4 DEF JobStep, JobAbort, JobRest, JobStart, JobFinish, JobVisit, JobInspect,
        JobSkip, JobCancelOrphan, JobCalled, JobRetire, JobSnapshot, JobReconciled, JobScan,
        counterVars
    <3> QED
      BY <2>1, <3>1, OutcomeFrame
  <2> QED
    BY <2>2, <2>3, <2>4
<1>6. CASE UNCHANGED vars
  BY <1>6, OutcomeFrame DEF vars, counterVars, workVars
<1> QED
  BY <1>1, <1>3, <1>4, <1>5, <1>6 DEF Next

\* A counter never holds both outcomes of a reservation: whoever settles it
\* first decides, also when a producer that lost its enqueue cancels against the
\* processor, and also when recovery cancels under a slow producer.
THEOREM SettledOnce == Spec => []OneOutcome
<1>1. OutcomeInv => OneOutcome
  BY DEF OutcomeInv, Exclusive, OneOutcome
<1> QED
  BY OutcomeInit, OutcomeStep, <1>1, PTL DEF Spec

-------------------------------------------------------------------------------
(*****************************************************************************)
(* Reservation tokens and their documents.                                   *)
(*****************************************************************************)
\* At the start there is no token.
LEMMA TokensInit == Init => TokensInv
BY ControlInit
  DEF Init, CountersInit, ReservationsInit, NoCall, NoPage, Terminal, Live,
    TokensInv, Untouched, Refused, TokenScopes, FlagsAfterTokens, CallsInOrder,
    ReservationTokensOwned, OpKey, Actor

\* A step that moves no reservation token, leaves early savers alone and settles
\* nothing: every step of the processor, of the queue and of the job but one.
LEMMA TokensFrame ==
  ASSUME TokensInv, Control', UNCHANGED << reservationTokens, settled >>,
         \A r \in Reservation :
           /\ pc'[r] = pc[r]
           /\ pc[r] \in Early => /\ phase'[r] = "none" /\ state'[r] = state[r]
                                 /\ page'[r] \in {"absent", "preparing", "reserved"}
           /\ state'[r] \in {state[r]} \cup Live
           /\ doc[r] \in Doc => doc'[r] \in Doc /\ doc'[r].event = doc[r].event,
         \A a \in Actor :
           \/ call'[a] = call[a]
           \/ call'[a].step = "off"
           \/ call'[a].step = "read" /\ \A r \in Reservation : call'[a].r = r => pc[r] \notin Early
  PROVE  TokensInv'
<1>0. /\ Control /\ Untouched /\ Refused /\ TokenScopes
      /\ FlagsAfterTokens /\ CallsInOrder /\ ReservationTokensOwned /\ TokensOK
  BY DEF TokensInv, Control, ShapeOK
<1>1. Untouched'
  BY <1>0 DEF Untouched
<1>2. Refused' /\ FlagsAfterTokens'
  BY <1>0 DEF Refused, FlagsAfterTokens
<1>3. TokenScopes' /\ ReservationTokensOwned'
  BY <1>0 DEF TokenScopes, ReservationTokensOwned, AuthorScope, TokensOK
<1>4. CallsInOrder'
  <2>1. ASSUME NEW a \in Actor, call'[a] = call[a], call[a].step = "state"
        PROVE  AuthorScope(call[a].r)' = AuthorScope(call[a].r)
    BY <1>0, <2>1, CallHolds DEF AuthorScope
  <2> QED
    BY <1>0, <2>1 DEF CallsInOrder
<1> QED
  BY <1>1, <1>2, <1>3, <1>4 DEF TokensInv

-------------------------------------------------------------------------------
\* Steps of the processor and of the queue concern queued operations only.
LEMMA TokensProcessor ==
  ASSUME TokensInv, Control', \/ ProcessorStep \/ ProcessorAbort
                              \/ \E d \in Deletion, S \in SUBSET Event : RequestDeletion(d, S)
  PROVE  TokensInv'
<1> USE DEF counterVars, reservationVars, queueVars
<1>0. /\ Control /\ Untouched /\ CurOwned /\ PoolOK /\ ReservationsOK /\ DocKnown
      /\ \A r \in Reservation : r \in OpKey
  BY DEF TokensInv, Control, ShapeOK, OpKey
<1>1. UNCHANGED << reservationTokens, settled >> /\ \A r \in Reservation : pc'[r] = pc[r]
  BY <1>0, ProcessorLeaves
<1>2. CASE Upsert
  <2>1. UpsertMoves
    BY <1>0, <1>2, UpsertStepMoves
  <2>2. /\ cur \in Reservation /\ phase[cur] # "none" /\ pc[cur] \notin Early /\ doc[cur] \in Doc
    BY <1>0, <2>1 DEF UpsertMoves, CurOwned, Untouched, DocKnown, UpsertPc
  <2>3. \A r \in Reservation : doc[r] \in Doc => doc'[r] \in Doc /\ doc'[r].event = doc[r].event
    <3>1. CASE doc' = doc
      BY <3>1
    <3>2. CASE Reject(cur)
      BY <3>2, <2>2, <1>0, RejectKeeps DEF ReservationsOK
    <3> QED
      BY <3>1, <3>2, <2>1 DEF UpsertMoves
  <2>4. \A r \in Reservation :
          /\ pc[r] \in Early => /\ phase'[r] = "none" /\ state'[r] = state[r]
                                /\ page'[r] \in {"absent", "preparing", "reserved"}
          /\ state'[r] \in {state[r]} \cup Live
    BY <1>0, <2>1, <2>2 DEF UpsertMoves, Untouched, PoolOK, ReservationsOK
  <2>5. \A a \in Actor :
          \/ call'[a] = call[a]
          \/ call'[a].step = "off"
          \/ call'[a].step = "read" /\ \A r \in Reservation : call'[a].r = r => pc[r] \notin Early
    BY <1>0, <2>1, <2>2 DEF UpsertMoves, ReservationsOK
  <2> QED
    BY <1>1, <2>3, <2>4, <2>5, TokensFrame
<1>3. ASSUME UNCHANGED << reservationVars, page >>,
             \A r \in Reservation : phase[r] = "none" => phase'[r] = "none",
             call' = call \/ call' = [call EXCEPT ![Processor] = NoCall]
      PROVE  TokensInv'
  BY <1>0, <1>1, <1>3, TokensFrame, CallTypes DEF Untouched, ReservationsOK
<1>4. CASE Delete
  <2>1. UNCHANGED << reservationVars, call, page >> /\ cur \in Deletion
    BY <1>0, <1>4, ControlDelete DEF CurOwned
  <2>2. phase' = phase \/ \E p : phase' = [phase EXCEPT ![cur] = p]
    BY <1>4 DEF Delete, DeletionSelect, DeletionBegin, DeletionDelete, PatchOp, DeletionAccount,
      DeletionAccounted, DeletionClear, DeletionFinish
  <2>3. \A r \in Reservation : phase'[r] = phase[r]
    BY <1>0, <2>1, <2>2, PoolAssumption DEF PoolOK
  <2> QED
    BY <1>3, <2>1, <2>3
<1>5. CASE Remove
  BY <1>0, <1>3, <1>5 DEF Remove, At, CurOwned, PoolOK
<1>6. CASE ProcessorAbort \/ \E o \in OpKey : Take(o)
  BY <1>3, <1>6 DEF ProcessorAbort, Take, Invoke
<1>7. ASSUME NEW d \in Deletion, NEW S \in SUBSET Event, RequestDeletion(d, S) PROVE TokensInv'
  BY <1>0, <1>3, <1>7, PoolAssumption DEF RequestDeletion, Enqueue, workVars, PoolOK
<1> QED
  BY <1>2, <1>4, <1>5, <1>6, <1>7 DEF ProcessorStep
-------------------------------------------------------------------------------
\* Steps of the job settle nothing an early saver holds and retire nothing with
\* a token.
LEMMA TokensJob ==
  ASSUME TokensInv, Control', "slow_handoff" \notin Faults, JobStep \/ JobAbort
  PROVE  TokensInv'
<1> USE DEF counterVars, reservationVars, queueVars
<1>0. /\ Control /\ Untouched /\ PoolOK /\ ReservationsOK /\ DocKnown /\ CallsOwned
      /\ CurOwned /\ VisitOwned
      /\ \A r \in Reservation : r \in OpKey
  BY DEF TokensInv, Control, ShapeOK, OpKey
<1>1. /\ reservationTokens' = reservationTokens
      /\ \A r \in Reservation : pc'[r] = pc[r]
  <2>1. reservationTokens' = reservationTokens
    BY DEF JobStep, JobAbort, JobRest, JobStart, JobFinish, JobVisit, JobInspect, JobSkip,
      JobCancelOrphan, JobCalled, JobTerminal, JobReconcile, JobRetire, JobSnapshot,
      JobReconciled, JobScan, ClearSettlement, ReconcileCounter
  <2> QED
    BY <1>0, <2>1, JobLeaves
<1>2. CASE ~JobRetire
  <2>1. JobMoves
    BY <1>0, <1>2, JobStepMoves
  <2>2. \A r \in Reservation :
          /\ pc[r] \in Early => /\ phase'[r] = "none" /\ state'[r] = state[r]
                                /\ page'[r] \in {"absent", "preparing", "reserved"}
          /\ state'[r] \in {state[r]} \cup Live
          /\ doc[r] \in Doc => doc'[r] \in Doc /\ doc'[r].event = doc[r].event
    BY <1>0, <2>1 DEF JobMoves, Untouched
  <2>3. ASSUME NEW a \in Actor
        PROVE  \/ call'[a] = call[a]
               \/ call'[a].step = "off"
               \/ /\ call'[a].step = "read"
                  /\ \A r \in Reservation : call'[a].r = r => pc[r] \notin Early
    <3>1. CASE a = Job /\ Settleable(call'[Job])
      BY <1>0, <3>1 DEF Settleable, InFlight, Untouched, Early
    <3> QED
      BY <1>0, <2>1, <3>1 DEF JobMoves, ReservationsOK
  <2>4. settled' = settled
    BY <2>1 DEF JobMoves
  <2> QED
    BY <1>1, <2>2, <2>3, <2>4, TokensFrame
<1>3. CASE JobRetire
  <2>1. visit \in Reservation /\ pc[Job] = "terminal" /\ call' = call
    BY <1>0, <1>3 DEF JobRetire, JobAt, VisitOwned
  <2>2. /\ phase' = phase
        /\ \A r \in Reservation : page'[r] \in {"absent", page[r]}
    BY <1>0, <1>3 DEF JobRetire, Visited, PoolOK
  <2>3. CASE UNCHANGED reservationVars
    BY <1>0, <1>1, <2>1, <2>2, <2>3, TokensFrame DEF Untouched
  <2>4. CASE /\ ~InFlight(visit) /\ visit \notin Queued /\ state[visit] \in Terminal
             /\ Patch(visit, "absent") /\ doc' = [doc EXCEPT ![visit] = None]
             /\ settled' = [settled EXCEPT ![visit] = {}]
    <3>1. pc[visit] \notin Early
      BY <2>4 DEF InFlight, Early
    <3>2. \A s \in Scope : visit \notin reservationTokens[s]
      BY <2>1, <2>4 DEF TokensInv, ReservationTokensOwned, Terminal, Live
    <3>3. \A a \in Actor : call[a].step # "off" => call[a].r # visit
      <4>1. \A r \in Reservation : call[r].step # "off" => call[r].r # visit
        BY <1>0, <2>4 DEF CallsOwned, InFlight
      <4>2. call[Processor].step # "off" => call[Processor].r # visit
        BY <1>0, <2>4 DEF CallsOwned, CurOwned, Queued, UpsertPc
      <4>3. call[Job].step = "off"
        BY <1>0, <2>1 DEF CallsOwned
      <4> QED
        BY <4>1, <4>2, <4>3 DEF Actor
    <3>4. /\ \A r \in Reservation : r # visit => /\ state'[r] = state[r] /\ doc'[r] = doc[r]
                                                 /\ settled'[r] = settled[r]
          /\ settled'[visit] = {}
      BY <1>0, <2>1, <2>4 DEF Patch, ReservationsOK
    <3>5. Untouched'
      BY <1>0, <1>1, <2>1, <2>2, <3>1, <3>4 DEF Untouched
    <3>6. Refused' /\ FlagsAfterTokens'
      BY <1>1, <3>4 DEF TokensInv, Refused, FlagsAfterTokens
    <3>7. TokenScopes' /\ ReservationTokensOwned'
      BY <1>0, <1>1, <3>2, <3>4
        DEF TokensInv, TokenScopes, ReservationTokensOwned, AuthorScope, Control, ShapeOK, TokensOK
    <3>8. CallsInOrder'
      <4>1. ASSUME NEW a \in Actor, call[a].step # "off"
            PROVE  /\ settled'[call[a].r] = settled[call[a].r]
                   /\ AuthorScope(call[a].r)' = AuthorScope(call[a].r)
        BY <1>0, <2>1, <3>3, <3>4, <4>1, CallHolds DEF AuthorScope
      <4> QED
        BY <1>1, <2>1, <4>1 DEF TokensInv, CallsInOrder
    <3> QED
      BY <3>5, <3>6, <3>7, <3>8 DEF TokensInv
  <2> QED
    BY <1>3, <2>3, <2>4 DEF JobRetire
<1> QED
  BY <1>2, <1>3

-------------------------------------------------------------------------------
\* A step of finalize or cancel: the token goes, then the flag is set, then the
\* state.
LEMMA TokensCall ==
  ASSUME TokensInv, Exclusive, Control', NEW a \in Actor, CallNext(a),
         UNCHANGED << event, queueVars, workVars >>
  PROVE  TokensInv'
<1> DEFINE c == call[a]
<1> USE DEF counterVars, reservationVars, queueVars, workVars
<1>0. /\ Control /\ Untouched /\ Refused /\ TokenScopes /\ FlagsAfterTokens /\ CallsInOrder
      /\ ReservationTokensOwned /\ TokensOK /\ ReservationsOK /\ PoolOK
  BY DEF TokensInv, Control, ShapeOK
<1>1. c.step # "off"
  BY DEF CallNext, CallRead, CallSettle, CallFlag, CallState, CallClear
<1>2. /\ c \in Call /\ c.r \in Reservation /\ doc[c.r] \in Doc /\ AuthorScope(c.r) \in Author
      /\ c.scope \in Scope /\ c.outcome \in Outcome /\ pc[c.r] \notin Early
  BY <1>0, <1>1, CallHolds DEF Call, Untouched
<1>3. PICK n \in Call : call' = [call EXCEPT ![a] = n] /\ n.r = c.r
  BY <1>0, CallMoves
<1>4. doc' = doc /\ \A q \in Reservation : AuthorScope(q)' = AuthorScope(q)
  BY <1>0, CallTouches DEF AuthorScope
<1>5. ASSUME \A q \in Reservation : pc[q] \in Early => settled'[q] = settled[q] /\ state'[q] = state[q]
      PROVE  Untouched'
  BY <1>0, <1>2, <1>3, <1>5 DEF Untouched, ReservationsOK
<1>6. ASSUME reservationTokens' = reservationTokens
      PROVE  Refused' /\ TokenScopes'
  BY <1>0, <1>4, <1>6 DEF Refused, TokenScopes, TokensOK
<1>7. ASSUME UNCHANGED << reservationTokens, state, settled >>,
             n.step = "flag" => n.r \notin reservationTokens[n.scope],
             n.step = "state" => {Global, AuthorScope(n.r)} \subseteq settled[n.r]
      PROVE  TokensInv'
  <2>1. CallsInOrder'
    BY <1>0, <1>3, <1>4, <1>7 DEF CallsInOrder, ReservationsOK, AuthorScope
  <2> QED
    BY <1>0, <1>5, <1>6, <1>7, <2>1
      DEF TokensInv, FlagsAfterTokens, ReservationTokensOwned
<1>8. CASE CallRead(a)
  <2>1. n \in {[c EXCEPT !.step = "done"], [c EXCEPT !.step = "failed"],
               WithCopy(c, settled[c.r], delta[c.r])}
    BY <1>0, <1>3, <1>8 DEF CallRead, ReservationsOK
  <2>2. /\ n.step # "flag"
        /\ n.step = "state" => {Global, AuthorScope(n.r)} \subseteq settled[n.r]
    <3>1. settled[c.r] \in SUBSET Scope /\ delta[c.r] \in Amount \cup {None}
      BY <1>0, <1>2 DEF ReservationsOK
    <3> DEFINE w == WithCopy(c, settled[c.r], delta[c.r])
    <3>2. /\ w.step \in {"settle", "state"}
          /\ w.step = "state" => {Global, AuthorScope(c.r)} \subseteq settled[c.r]
      <4> HIDE DEF c
      <4> QED
        BY <1>2, <3>1, WithCopyType
    <3>3. n.step \in {"done", "failed"} \/ n = w
      <4> HIDE DEF w
      <4> QED
        BY <1>2, <2>1 DEF Call, w
    <3> QED
      BY <1>3, <3>2, <3>3
  <2> QED
    BY <1>7, <1>8, <2>2 DEF CallRead
<1>9. CASE CallSettle(a)
  <2>1. /\ n = [c EXCEPT !.step = IF Settles(c.scope, c.r, c.outcome) THEN "flag" ELSE "failed"]
        /\ UNCHANGED << state, settled >>
    BY <1>0, <1>3, <1>9 DEF CallSettle, ReservationsOK
  <2>2. \/ /\ <<c.r, c.outcome>> \notin settlementTokens[c.scope]
           /\ c.r \in reservationTokens[c.scope]
           /\ reservationTokens' = [reservationTokens EXCEPT ![c.scope] = @ \ {c.r}]
        \/ /\ \/ <<c.r, c.outcome>> \in settlementTokens[c.scope]
              \/ c.r \notin reservationTokens[c.scope]
           /\ reservationTokens' = reservationTokens
    BY <1>9 DEF CallSettle, SettleCounter
  <2>3. \A s \in Scope : reservationTokens'[s] \subseteq reservationTokens[s]
    BY <1>0, <1>2, <2>2 DEF TokensOK
  <2>4. c.r \notin reservationTokens'[c.scope]
    BY <1>0, <1>2, <2>2 DEF TokensOK, Exclusive
  <2>5. n.scope = c.scope /\ n.step \in {"flag", "failed"}
    BY <1>2, <2>1 DEF Call
  <2>6. Untouched' /\ Refused' /\ TokenScopes' /\ FlagsAfterTokens' /\ ReservationTokensOwned'
    BY <1>0, <1>4, <1>5, <2>1, <2>3
      DEF Refused, TokenScopes, FlagsAfterTokens, ReservationTokensOwned, TokensOK, ReservationsOK
  <2>7. CallsInOrder'
    <3>1. ASSUME NEW b \in Actor
          PROVE  /\ call[b].step = "flag" => call[b].r \notin reservationTokens'[call[b].scope]
                 /\ call[b].step = "state" =>
                      {Global, AuthorScope(call[b].r)} \subseteq settled'[call[b].r]
      BY <1>0, <2>1, <2>3, CallHolds DEF CallsInOrder, Call
    <3> QED
      BY <1>0, <1>3, <1>4, <2>4, <2>5, <3>1 DEF CallsInOrder, ReservationsOK, AuthorScope
  <2> QED
    BY <2>6, <2>7 DEF TokensInv
<1>10. CASE CallFlag(a)
  <2>1. /\ settled' = [settled EXCEPT ![c.r] = @ \cup {c.scope}]
        /\ n = WithCopy(c, settled'[c.r], delta[c.r])
        /\ UNCHANGED << reservationTokens, state >>
        /\ c.r \notin reservationTokens[c.scope]
    BY <1>0, <1>3, <1>10 DEF CallFlag, ReservationsOK, CallsInOrder
  <2>2. \A q \in Reservation : settled[q] \subseteq settled'[q]
    BY <1>0, <1>2, <2>1 DEF ReservationsOK
  <2>3. /\ n.step # "flag"
        /\ n.step = "state" => {Global, AuthorScope(n.r)} \subseteq settled'[n.r]
    <3>1. settled'[c.r] \in SUBSET Scope /\ delta[c.r] \in Amount \cup {None}
      BY <1>0, <1>2, <2>1 DEF ReservationsOK
    <3> DEFINE w == WithCopy(c, settled'[c.r], delta[c.r])
    <3>2. /\ w.step \in {"settle", "state"}
          /\ w.step = "state" => {Global, AuthorScope(c.r)} \subseteq settled'[c.r]
      <4> HIDE DEF c
      <4> QED
        BY <1>2, <3>1, WithCopyType
    <3> QED
      BY <1>3, <2>1, <3>2
  <2>4. FlagsAfterTokens' /\ Untouched'
    BY <1>0, <1>2, <1>5, <2>1 DEF FlagsAfterTokens, ReservationsOK
  <2>5. CallsInOrder'
    <3>1. ASSUME NEW b \in Actor, b # a, call[b].step = "state"
          PROVE  {Global, AuthorScope(call[b].r)} \subseteq settled'[call[b].r]
      BY <1>0, <2>2, <3>1, CallHolds DEF CallsInOrder
    <3> QED
      BY <1>0, <1>3, <1>4, <2>1, <2>3, <3>1 DEF CallsInOrder, ReservationsOK, AuthorScope
  <2> QED
    BY <1>0, <1>6, <2>1, <2>4, <2>5 DEF TokensInv, ReservationTokensOwned
<1>11. CASE CallState(a)
  <2>1. /\ UNCHANGED << reservationTokens, settled >>
        /\ \A q \in Reservation : q # c.r => state'[q] = state[q]
        /\ n = [c EXCEPT !.step = "clear"]
        /\ {Global, AuthorScope(c.r)} \subseteq settled[c.r]
    BY <1>0, <1>2, <1>3, <1>11 DEF CallState, ReservationsOK, CallsInOrder
  <2>2. \A s \in Scope : c.r \notin reservationTokens[s]
    BY <1>0, <1>2, <2>1 DEF FlagsAfterTokens, TokenScopes
  <2>3. ReservationTokensOwned' /\ FlagsAfterTokens' /\ Untouched'
    BY <1>0, <1>2, <1>5, <2>1, <2>2
      DEF ReservationTokensOwned, FlagsAfterTokens, TokensOK
  <2>4. CallsInOrder'
    BY <1>0, <1>2, <1>3, <1>4, <2>1 DEF CallsInOrder, ReservationsOK, Call, AuthorScope
  <2> QED
    BY <1>6, <2>1, <2>3, <2>4 DEF TokensInv
<1>12. CASE CallClear(a)
  <2>1. /\ UNCHANGED << reservationTokens, state, settled >>
        /\ n \in {[c EXCEPT !.step = "done"], [c EXCEPT !.scope = AuthorScope(c.r)]}
        /\ c.step = "clear"
    BY <1>0, <1>3, <1>12 DEF CallClear, ClearSettlement, ReservationsOK
  <2>2. n.step \in {"clear", "done"}
    BY <1>2, <2>1 DEF Call
  <2> QED
    BY <1>7, <2>1, <2>2
<1> QED
  BY <1>8, <1>9, <1>10, <1>11, <1>12 DEF CallNext

-------------------------------------------------------------------------------
\* A saver's step disturbs only what is said of its own reservation.
LEMMA TokensSaver ==
  ASSUME TokensInv, Control', NEW r \in Reservation, Saver(r) \/ SaverCrash(r)
  PROVE  TokensInv'
<1> USE DEF counterVars, reservationVars, queueVars
<1>0. /\ Control /\ Untouched /\ Refused /\ TokenScopes /\ FlagsAfterTokens /\ CallsInOrder
      /\ ReservationTokensOwned /\ TokensOK /\ ReservationsOK /\ PoolOK /\ PcOK /\ DocKnown
      /\ CallsOwned /\ r \in Actor /\ r \in OpKey
      /\ \A q \in Reservation : q \in Actor
  BY DEF TokensInv, Control, ShapeOK, Actor, OpKey
<1>1. ASSUME NEW e \in Event, BeginSave(r, e) PROVE TokensInv'
  <2>1. /\ pc[r] = "idle" /\ pc' = [pc EXCEPT ![r] = "global"]
        /\ state' = [state EXCEPT ![r] = "preparing"]
        /\ \A q \in Reservation : q # r => doc'[q] = doc[q]
        /\ UNCHANGED << counterVars, settled, call, phase, page >>
    BY <1>0, <1>1 DEF BeginSave, Goto, Patch, ReservationsOK
  <2>2. \A s \in Scope : r \notin reservationTokens[s]
    BY <1>0, <2>1 DEF Refused
  <2>3. \A a \in Actor : call[a].step # "off" => call[a].r # r
    BY <1>0, <2>1 DEF Untouched, Early
  <2>4. Untouched' /\ Refused' /\ FlagsAfterTokens' /\ ReservationTokensOwned'
    BY <1>0, <2>1, <2>2
      DEF Untouched, Early, Refused, FlagsAfterTokens, ReservationTokensOwned, ReservationsOK,
        PoolOK, Live
  <2>5. TokenScopes'
    BY <1>0, <2>1, <2>2 DEF TokenScopes, AuthorScope, TokensOK
  <2>6. CallsInOrder'
    <3>1. ASSUME NEW a \in Actor, call[a].step # "off"
          PROVE  AuthorScope(call[a].r)' = AuthorScope(call[a].r)
      BY <1>0, <2>1, <2>3, <3>1, CallHolds DEF AuthorScope
    <3> QED
      BY <1>0, <2>1, <3>1 DEF CallsInOrder
  <2> QED
    BY <2>4, <2>5, <2>6 DEF TokensInv
<1>2. ASSUME NEW s \in Scope, NEW next, NEW refused, Reserve(r, s, next, refused),
             doc[r] \in Doc, s \in {Global, AuthorScope(r)},
             \/ /\ pc[r] = "global" /\ s = Global /\ next = "author" /\ refused = "rejectGlobal"
             \/ /\ pc[r] = "author" /\ s # Global /\ next = "mark" /\ refused = "rejectAuthor"
      PROVE  TokensInv'
  <2>1. UNCHANGED << reservationVars, call, phase, page >>
    BY <1>2 DEF Reserve
  <2>2. \/ pc' = [pc EXCEPT ![r] = refused] /\ reservationTokens' = reservationTokens
        \/ /\ pc' = [pc EXCEPT ![r] = next]
           /\ reservationTokens' = [reservationTokens EXCEPT ![s] = @ \cup {r}]
    BY <1>2 DEF Reserve, ReserveCounter, Goto
  <2>3. /\ settled[r] = {} /\ state[r] \in {"preparing", "reserved"}
        /\ \A a \in Actor : call[a].step # "off" => call[a].r # r
    BY <1>0, <1>2 DEF Untouched, Early
  <2>4. Untouched'
    BY <1>0, <1>2, <2>1, <2>2 DEF Untouched, Early, PoolOK
  <2>5. Refused'
    BY <1>0, <1>2, <2>2 DEF Refused, TokensOK, PoolOK
  <2>6. TokenScopes'
    BY <1>0, <1>2, <2>1, <2>2 DEF TokenScopes, TokensOK, AuthorScope
  <2>7. FlagsAfterTokens' /\ ReservationTokensOwned'
    BY <1>0, <2>1, <2>2, <2>3 DEF FlagsAfterTokens, ReservationTokensOwned, TokensOK,
      ReservationsOK, Live
  <2>8. CallsInOrder'
    <3>1. ASSUME NEW a \in Actor, call[a].step = "flag"
          PROVE  call[a].r \notin reservationTokens'[call[a].scope]
      BY <1>0, <2>2, <2>3, <3>1, CallHolds DEF CallsInOrder, TokensOK, Call
    <3> QED
      BY <1>0, <2>1, <3>1 DEF CallsInOrder, AuthorScope
  <2> QED
    BY <2>4, <2>5, <2>6, <2>7, <2>8 DEF TokensInv
<1>3. CASE SaverGlobal(r)
  <2>1. doc[r] \in Doc
    BY <1>0, <1>3 DEF SaverGlobal, DocKnown
  <2> QED
    BY <1>2, <1>3, <2>1 DEF SaverGlobal, Scope
<1>4. CASE SaverAuthor(r)
  <2>1. doc[r] \in Doc
    BY <1>0, <1>4 DEF SaverAuthor, DocKnown
  <2>2. AuthorScope(r) \in Author /\ AuthorScope(r) # Global
    BY <2>1, AuthorScopeType, GlobalAssumption
  <2> QED
    BY <1>2, <1>4, <2>1, <2>2 DEF SaverAuthor, Scope
<1>5. ASSUME NEW l \in SaverPc, NEW c \in Call,
             UNCHANGED << reservationTokens, settled, page >>,
             pc' = [pc EXCEPT ![r] = l],
             call' = [call EXCEPT ![r] = c],
             \/ l = "enqueue" /\ pc[r] = "mark" /\ phase' = phase /\ state'[r] = "reserved"
             \/ l \notin Early,
             state'[r] \in Live \/ state'[r] = state[r] \/ pc[r] = "rejectGlobal",
             c = call[r] \/ c.step = "off" \/ (c.step = "read" /\ c.r = r /\ l \notin Early),
             \A q \in Reservation : q # r => phase'[q] = phase[q] /\ state'[q] = state[q],
             \A q \in Reservation : doc[q] \in Doc => doc'[q] \in Doc /\ doc'[q].event = doc[q].event
      PROVE  TokensInv'
  <2>1. \A a \in Actor :
          \/ call'[a] = call[a]
          \/ call'[a].step = "off"
          \/ call'[a].step = "read" /\ call'[a].r = r /\ l \notin Early
    BY <1>0, <1>5 DEF ReservationsOK
  <2>2. Untouched'
    BY <1>0, <1>5, <2>1 DEF Untouched, Early, PoolOK
  <2>3. Refused' /\ FlagsAfterTokens'
    BY <1>0, <1>5 DEF Refused, FlagsAfterTokens, PoolOK, Early
  <2>4. TokenScopes'
    BY <1>0, <1>5 DEF TokenScopes, TokensOK, AuthorScope
  <2>5. ReservationTokensOwned'
    BY <1>0, <1>5 DEF ReservationTokensOwned, Refused, TokensOK
  <2>6. CallsInOrder'
    <3>1. ASSUME NEW a \in Actor, call[a].step # "off", call'[a] = call[a]
          PROVE  AuthorScope(call[a].r)' = AuthorScope(call[a].r)
      BY <1>0, <1>5, <3>1, CallHolds DEF AuthorScope
    <3> QED
      BY <1>0, <1>5, <2>1, <3>1 DEF CallsInOrder
  <2> QED
    BY <2>2, <2>3, <2>4, <2>5, <2>6 DEF TokensInv
<1>6. CASE SaverMark(r)
  <2>1. /\ call' = [call EXCEPT ![r] = call[r]] /\ call[r] \in Call
        /\ UNCHANGED << reservationTokens, settled, page >> /\ phase' = phase /\ doc' = doc
        /\ pc[r] = "mark" /\ pc' = [pc EXCEPT ![r] = "enqueue"]
        /\ state'[r] = "reserved"
        /\ \A q \in Reservation : q # r => state'[q] = state[q]
    BY <1>0, <1>6 DEF SaverMark, Goto, Patch, ReservationsOK
  <2>2. "enqueue" \in SaverPc /\ "reserved" \in Live
    BY DEF SaverPc, Live
  <2> QED
    BY <1>5, <2>1, <2>2
<1>7. CASE SaverReject(r)
  <2>1. Reject(r) /\ doc[r] \in Doc /\ doc \in [Reservation -> Doc \cup {None}]
    BY <1>0, <1>7 DEF SaverReject, DocKnown, ReservationsOK
  <2>2. \A q \in Reservation : doc[q] \in Doc => doc'[q] \in Doc /\ doc'[q].event = doc[q].event
    BY <2>1, RejectKeeps
  <2>3. UNCHANGED << reservationTokens, settled, page >> /\ phase' = phase
    BY <1>7 DEF SaverReject
  <2>4. CASE pc[r] = "rejectGlobal" /\ Patch(r, "rejected") /\ Goto(r, "done") /\ call' = call
    <3>1. /\ pc' = [pc EXCEPT ![r] = "done"] /\ "done" \in SaverPc /\ "done" \notin Early
          /\ \A q \in Reservation : q # r => state'[q] = state[q]
          /\ call' = [call EXCEPT ![r] = call[r]] /\ call[r] \in Call
      BY <1>0, <2>4 DEF Goto, Patch, SaverPc, Early, ReservationsOK
    <3> QED
      BY <1>5, <2>2, <2>3, <2>4, <3>1
  <2>5. CASE /\ Patch(r, "cancel_required") /\ Invoke(r, Cancel(r, "rejected"))
             /\ Goto(r, "cancel")
    <3>1. /\ pc' = [pc EXCEPT ![r] = "cancel"] /\ "cancel" \in SaverPc /\ "cancel" \notin Early
          /\ \A q \in Reservation : q # r => state'[q] = state[q]
          /\ state'[r] \in Live
      BY <1>0, <2>5 DEF Goto, Patch, SaverPc, Early, ReservationsOK, Live
    <3>2. /\ call' = [call EXCEPT ![r] = Cancel(r, "rejected")]
          /\ Cancel(r, "rejected") \in Call
          /\ Cancel(r, "rejected").step = "read" /\ Cancel(r, "rejected").r = r
      BY <2>5, CallTypes DEF Invoke, Terminal
    <3> QED
      BY <1>5, <2>2, <2>3, <3>1, <3>2
  <2> QED
    BY <1>7, <2>4, <2>5 DEF SaverReject
<1>8. CASE SaverEnqueue(r) \/ SaverEnqueueFails(r) \/ SaverCancelled(r) \/ SaverCrash(r)
  <2>1. UNCHANGED << reservationTokens, settled, page, state, doc >>
    BY <1>8 DEF SaverEnqueue, SaverEnqueueFails, SaverCancelled, SaverCrash, workVars
  <2>2. \A q \in Reservation : q # r => phase'[q] = phase[q]
    <3>1. phase' = phase \/ phase' = [phase EXCEPT ![r] = "queued"]
      BY <1>8 DEF SaverEnqueue, Enqueue, SaverEnqueueFails, SaverCancelled, SaverCrash
    <3> QED
      BY <1>0, <3>1, PoolAssumption DEF PoolOK, OpKey
  <2>3. \A l \in {"done", "cancel", "crashed"} : l \in SaverPc /\ l \notin Early
    BY DEF SaverPc, Early
  <2>4. CASE call' = call /\ Goto(r, "done")
    <3>1. call' = [call EXCEPT ![r] = call[r]] /\ call[r] \in Call
      BY <1>0, <2>4 DEF ReservationsOK
    <3> QED
      BY <1>5, <2>1, <2>2, <2>3, <2>4, <3>1 DEF Goto
  <2>5. CASE Invoke(r, Cancel(r, "cancelled")) /\ Goto(r, "cancel")
    <3>1. /\ Cancel(r, "cancelled") \in Call
          /\ Cancel(r, "cancelled").step = "read" /\ Cancel(r, "cancelled").r = r
      BY CallTypes DEF Terminal
    <3> QED
      BY <1>5, <2>1, <2>2, <2>3, <2>5, <3>1 DEF Goto, Invoke
  <2>6. ASSUME NEW l \in {"done", "crashed"}, Invoke(r, NoCall), Goto(r, l)
        PROVE  TokensInv'
    <3>1. NoCall \in Call /\ NoCall.step = "off"
      BY CallTypes
    <3> QED
      BY <1>5, <2>1, <2>2, <2>3, <2>6, <3>1 DEF Goto, Invoke
  <2> QED
    BY <1>8, <2>4, <2>5, <2>6 DEF SaverEnqueue, SaverEnqueueFails, SaverCancelled, SaverCrash
<1> QED
  BY <1>1, <1>3, <1>4, <1>6, <1>7, <1>8 DEF Saver

-------------------------------------------------------------------------------
\* With OutcomeInv, which says that no counter holds a token and its settlement
\* at once, the invariant is inductive.
LEMMA TokensStep ==
  "slow_handoff" \notin Faults /\ OutcomeInv /\ TokensInv /\ [Next]_vars => TokensInv'
<1> SUFFICES ASSUME "slow_handoff" \notin Faults, OutcomeInv, TokensInv, [Next]_vars
             PROVE  TokensInv'
  OBVIOUS
<1>0. Control' /\ Exclusive
  BY ControlStep DEF TokensInv, OutcomeInv
<1>1. ASSUME NEW r \in Reservation, Saver(r) \/ SaverCrash(r) PROVE TokensInv'
  BY <1>0, <1>1, TokensSaver
<1>2. CASE Settlement
  BY <1>0, <1>2, TokensCall DEF Settlement
<1>3. CASE \/ ProcessorStep \/ ProcessorAbort
           \/ \E d \in Deletion, S \in SUBSET Event : RequestDeletion(d, S)
  BY <1>0, <1>3, TokensProcessor
<1>4. CASE JobStep \/ JobAbort
  BY <1>0, <1>4, TokensJob
<1>5. CASE UNCHANGED vars
  BY <1>0, <1>5
    DEF vars, counterVars, reservationVars, queueVars, workVars, TokensInv, Untouched, Refused,
      TokenScopes, FlagsAfterTokens, CallsInOrder, ReservationTokensOwned, AuthorScope
<1> QED
  BY <1>1, <1>2, <1>3, <1>4, <1>5 DEF Next

\* As long as no saver outlives the orphan lease, a token in a counter always
\* belongs to a document that recovery still settles, for any number of savers
\* and any placement of crashes, also when an enqueue fails after it was
\* accepted: no token can block reconciliation for ever.
THEOREM TokensOwned ==
  "slow_handoff" \notin Faults /\ Spec => []ReservationTokensOwned
<1> SUFFICES ASSUME "slow_handoff" \notin Faults PROVE Spec => []ReservationTokensOwned
  OBVIOUS
<1>1. Init => OutcomeInv /\ TokensInv
  BY OutcomeInit, TokensInit
<1>2. OutcomeInv /\ TokensInv /\ [Next]_vars => (OutcomeInv /\ TokensInv)'
  BY OutcomeStep, TokensStep
<1>3. TokensInv => ReservationTokensOwned
  BY DEF TokensInv
<1> QED
  BY <1>1, <1>2, <1>3, PTL DEF Spec

-------------------------------------------------------------------------------
(***************************************************************************)
(* The books of the pool, as long as an enqueue has a known outcome and no *)
(* saver outlives the orphan lease.  First the parts of LedgerInv that say *)
(* how things proceed: the order of the queue, the one way each            *)
(* reservation goes, and the phases of a deletion; then the balance of the *)
(* counters.  A sum over a finite set is counted in cells, <<x, i>> with   *)
(* 1 <= i <= f[x], which turns the facts about sums into facts about       *)
(* cardinalities.                                                          *)
(***************************************************************************)

\* Reservations, deletions, the processor and the job are all different.
LEMMA KeysDiffer ==
  /\ \A r \in Reservation : r \in Actor /\ r \in OpKey /\ r # Processor /\ r # Job /\ r \notin Deletion
  /\ \A d \in Deletion : d \in OpKey /\ d \notin Reservation
  /\ Processor \in Actor /\ Job \in Actor /\ Processor # Job
BY ActorAssumption, PoolAssumption DEF Actor, OpKey, Processor, Job

\* There is one first operation.
LEMMA FirstUnique ==
  ASSUME QueueOrdered, NEW o, NEW p, IsFirst(o), IsFirst(p)
  PROVE  o = p
<1>1. CASE Started # {}
  BY <1>1 DEF IsFirst
<1>2. CASE Started = {}
  BY <1>2 DEF IsFirst, QueueOrdered
<1> QED
  BY <1>1, <1>2

\* While the processor works, nothing but its operation has been begun.
LEMMA Front ==
  ASSUME Control, QueueInv, pc[Processor] # "idle"
  PROVE  /\ cur \in OpKey /\ IsFirst(cur)
         /\ \A o \in OpKey : o # cur => ~Begun(o)
<1>1. cur \in OpKey /\ Begun(cur)
  BY DEF Control, CurOwned, Begun
<1>2. IsFirst(cur)
  BY <1>1 DEF QueueInv, OneAtATime
<1> QED
  BY <1>1, <1>2, FirstUnique DEF QueueInv, OneAtATime

\* A step that queues and removes nothing and begins only the first operation.
LEMMA QueueKeeps ==
  ASSUME QueueInv, ahead' = ahead, Queued' = Queued, Started \subseteq Started',
         \A o \in OpKey : Begun(o)' => IsFirst(o)
  PROVE  QueueInv'
<1>1. QueueOrdered /\ QueueOrdered'
  BY DEF QueueInv, QueueOrdered
<1>2. ASSUME NEW o \in OpKey, Begun(o)' PROVE IsFirst(o)'
  <2>1. IsFirst(o)
    BY <1>2
  <2>2. \A p \in Started' : p \in OpKey /\ Begun(p)'
    BY DEF Started, Queued, Begun
  <2>3. \A p \in Started' : p = o
    BY <1>1, <2>1, <2>2, FirstUnique
  <2> QED
    BY <2>1, <2>3 DEF IsFirst
<1> QED
  BY <1>1, <1>2 DEF QueueInv, OneAtATime

\* A new operation is behind all others and not begun.
LEMMA QueueEnqueues ==
  ASSUME Control, QueueInv, NEW o \in OpKey, phase[o] = "none", Enqueue(o),
         UNCHANGED << state, cur >>, pc'[Processor] = pc[Processor],
         o \in Reservation => state[o] # "prepared"
  PROVE  QueueInv'
<1>0. /\ phase \in [OpKey -> Phase] /\ ahead \in [OpKey -> SUBSET OpKey]
      /\ phase' = [phase EXCEPT ![o] = "queued"] /\ ahead' = [ahead EXCEPT ![o] = Queued]
      /\ pc[Processor] # "idle" => cur # o
  BY DEF Control, ShapeOK, PoolOK, Enqueue, CurOwned
<1>1. Queued' = Queued \cup {o} /\ Started' = Started /\ o \notin Queued
  BY <1>0 DEF Queued, Started
<1>2. QueueOrdered'
  BY <1>0, <1>1 DEF QueueInv, QueueOrdered, Queued
<1>3. ASSUME NEW p \in OpKey, Begun(p)' PROVE IsFirst(p)'
  <2>1. p # o
    BY <1>0, <1>1, <1>3 DEF Begun, Prepared, Started
  <2>2. Begun(p)
    BY <1>0, <1>1, <1>3, <2>1 DEF Begun, Prepared
  <2>3. IsFirst(p) /\ ahead[p] \subseteq Queued
    BY <2>2 DEF QueueInv, OneAtATime, QueueOrdered
  <2> QED
    BY <1>0, <1>1, <2>1, <2>3 DEF IsFirst
<1> QED
  BY <1>2, <1>3 DEF QueueInv, OneAtATime

\* Steps outside the processor begin nothing: those that change no operation.
LEMMA QueueOutside ==
  ASSUME Control, QueueInv, UNCHANGED << phase, ahead, cur >>, pc'[Processor] = pc[Processor],
         \A r \in Reservation : state'[r] = "prepared" => state[r] = "prepared" \/ phase[r] = "none"
  PROVE  QueueInv'
<1>1. Queued' = Queued /\ Started' = Started
  BY DEF Queued, Started
<1>2. \A o \in OpKey : Begun(o)' => Begun(o)
  BY <1>1 DEF Begun, Prepared
<1> QED
  BY <1>1, <1>2, QueueKeeps DEF QueueInv, OneAtATime

\* Taking the first operation, working on it, dropping and removing it.
LEMMA QueueProcessor ==
  ASSUME Control, QueueInv, ProcessorStep \/ ProcessorAbort
  PROVE  QueueInv'
<1> USE DEF counterVars, reservationVars, queueVars
<1>0. /\ phase \in [OpKey -> Phase] /\ ahead \in [OpKey -> SUBSET OpKey] /\ CurOwned /\ PoolOK
      /\ QueueOrdered /\ ReservationsOK
  BY DEF Control, ShapeOK, PoolOK, QueueInv
<1>1. ASSUME UNCHANGED << ahead, cur >>, pc[Processor] # "idle",
             phase'[cur] \notin {"none", "gone"}, phase'[cur] = "queued" => phase[cur] = "queued",
             \A o \in OpKey : o # cur => phase'[o] = phase[o],
             \A r \in Reservation : r # cur => state'[r] = state[r]
      PROVE  QueueInv'
  <2>1. /\ cur \in OpKey /\ phase[cur] \notin {"none", "gone"} /\ IsFirst(cur)
        /\ \A o \in OpKey : o # cur => ~Begun(o)
    BY <1>0, <1>1, Front DEF CurOwned
  <2>2. Queued' = Queued /\ Started \subseteq Started'
    BY <1>1, <2>1 DEF Queued, Started
  <2>3. \A o \in OpKey : o # cur => ~Begun(o)'
    BY <1>1, <2>1 DEF Begun, Prepared, Started, Queued
  <2> QED
    BY <1>1, <2>1, <2>2, <2>3, QueueKeeps
<1>2. CASE Upsert
  <2>1. UpsertMoves
    BY <1>2, UpsertStepMoves
  <2>2. cur \in Reservation /\ cur \in OpKey /\ phase[cur] \notin {"none", "gone"}
    BY <1>0, <2>1 DEF UpsertMoves, CurOwned, UpsertPc
  <2>3. phase'[cur] = "queued" => phase[cur] = "queued"
    BY <1>0, <1>2, <2>2 DEF Upsert, UpsertOpen, UpsertCheck, PatchOp, UpsertApply, UpsertApplied,
      UpsertFinalize, UpsertFinalized, UpsertFailed, UpsertCompensate, UpsertCancelled
  <2>4. /\ UNCHANGED << ahead, cur >> /\ pc[Processor] # "idle" /\ phase'[cur] \notin {"none", "gone"}
        /\ \A o \in OpKey : o # cur => phase'[o] = phase[o]
        /\ \A r \in Reservation : r # cur => state'[r] = state[r]
    BY <1>0, <2>1 DEF UpsertMoves, UpsertPc, ReservationsOK
  <2> QED
    BY <1>1, <2>3, <2>4
<1>3. CASE Delete
  <2>1. /\ UNCHANGED << reservationVars, cur, ahead >> /\ pc[Processor] \in DeletionPc
    BY <1>3, ControlDelete DEF Delete, DeletionSelect, DeletionBegin, DeletionDelete, PatchOp,
      DeletionAccount, DeletionAccounted, DeletionClear, DeletionFinish
  <2>2. cur \in Deletion /\ cur \in OpKey /\ phase[cur] \notin {"none", "gone"}
    BY <1>0, <2>1 DEF CurOwned, DeletionPc
  <2>3. \/ phase' = phase
        \/ \E p \in {"prepared", "events_deleted", "accounting_applied"} :
             phase' = [phase EXCEPT ![cur] = p]
    BY <1>3 DEF Delete, DeletionSelect, DeletionBegin, DeletionDelete, PatchOp,
      DeletionAccount, DeletionAccounted, DeletionClear, DeletionFinish
  <2> QED
    BY <1>0, <1>1, <2>1, <2>2, <2>3 DEF DeletionPc
<1>4. ASSUME NEW o \in OpKey, Take(o) PROVE QueueInv'
  <2>1. /\ UNCHANGED << phase, ahead, state >> /\ pc[Processor] = "idle" /\ cur' = o
    BY <1>4 DEF Take, At
  <2>2. Queued' = Queued /\ Started' = Started
    BY <2>1 DEF Queued, Started
  <2>3. IsFirst(o)
    <3>1. CASE Started = {}
      BY <1>4, <3>1 DEF Take, IsFirst
    <3>2. CASE Started # {}
      BY <1>4, <3>2 DEF Take, Begun, QueueInv, OneAtATime
    <3> QED
      BY <3>1, <3>2
  <2>4. \A p \in OpKey : p # o /\ Begun(p)' => Begun(p)
    BY <2>1, <2>2 DEF Begun, Prepared
  <2> QED
    BY <2>1, <2>2, <2>3, <2>4, QueueKeeps DEF QueueInv, OneAtATime
<1>5. CASE Remove
  <2>1. /\ pc[Processor] = "remove" /\ pc'[Processor] = "idle"
        /\ phase' = [phase EXCEPT ![cur] = "gone"]
        /\ ahead' = [o \in OpKey |-> IF o = cur THEN {} ELSE ahead[o] \ {cur}]
        /\ state' = state
    BY <1>0, <1>5, KeysDiffer DEF Remove, At, Then, PoolOK
  <2>2. cur \in OpKey /\ \A o \in OpKey : o # cur => ~Begun(o)
    BY <2>1, Front
  <2>3. Queued' = Queued \ {cur} /\ Started' = {}
    BY <1>0, <2>1, <2>2 DEF Queued, Started, Begun
  <2>4. \A o \in OpKey : ~Begun(o)'
    BY <1>0, <2>1, <2>2, <2>3 DEF Begun, Prepared
  <2>5. QueueOrdered'
    BY <1>0, <2>1, <2>2, <2>3 DEF QueueOrdered, Queued
  <2> QED
    BY <2>4, <2>5 DEF QueueInv, OneAtATime
<1>6. CASE ProcessorAbort
  <2>1. /\ UNCHANGED << phase, ahead, state >> /\ pc'[Processor] = "idle"
    BY <1>0, <1>6, KeysDiffer DEF ProcessorAbort, Then, PoolOK
  <2>2. Queued' = Queued /\ Started' = Started
    BY <2>1 DEF Queued, Started
  <2>3. \A o \in OpKey : Begun(o)' => Begun(o)
    BY <2>1, <2>2 DEF Begun, Prepared
  <2> QED
    BY <2>1, <2>2, <2>3, QueueKeeps DEF QueueInv, OneAtATime
<1> QED
  BY <1>2, <1>3, <1>4, <1>5, <1>6 DEF ProcessorStep

\* The queue part of the invariant is inductive.
LEMMA QueueStep ==
  ASSUME TokensInv, QueueInv, [Next]_vars
  PROVE  QueueInv'
<1> USE DEF counterVars, reservationVars, queueVars
<1>0. Control /\ Untouched /\ PoolOK /\ ReservationsOK
  BY DEF TokensInv, Control, ShapeOK
<1>1. ASSUME NEW r \in Reservation, Saver(r) \/ SaverCrash(r) PROVE QueueInv'
  <2>1. UNCHANGED cur /\ pc'[Processor] = pc[Processor]
    BY <1>0, <1>1, KeysDiffer
      DEF Saver, SaverCrash, BeginSave, SaverGlobal, SaverAuthor, Reserve, SaverMark,
        SaverReject, SaverEnqueue, SaverEnqueueFails, SaverCancelled, Goto, PoolOK
  <2>2. CASE SaverEnqueue(r)
    <3>1. phase[r] = "none" /\ state[r] # "prepared"
      BY <1>0, <2>2 DEF SaverEnqueue, Untouched, Early
    <3> QED
      BY <1>0, <2>1, <2>2, <3>1, QueueEnqueues, KeysDiffer DEF SaverEnqueue
  <2>3. CASE ~SaverEnqueue(r)
    <3>1. /\ UNCHANGED << phase, ahead >>
          /\ \A q \in Reservation : state'[q] = "prepared" => state[q] = "prepared"
      BY <1>0, <1>1, <2>3
        DEF Saver, SaverCrash, BeginSave, SaverGlobal, SaverAuthor, Reserve, SaverMark,
          SaverReject, SaverEnqueueFails, SaverCancelled, Patch, ReservationsOK
    <3> QED
      BY <1>0, <2>1, <3>1, QueueOutside
  <2> QED
    BY <2>2, <2>3
<1>2. CASE Settlement
  <2>1. PICK a \in Actor : CallNext(a) /\ UNCHANGED << phase, ahead, cur, pc >>
    BY <1>2 DEF Settlement, workVars
  <2>2. \A q \in Reservation : state'[q] = "prepared" => state[q] = "prepared"
    BY <1>0, <2>1, CallTouches DEF ReservationsOK, Terminal
  <2> QED
    BY <1>0, <2>1, <2>2, QueueOutside
<1>3. CASE ProcessorStep \/ ProcessorAbort
  BY <1>0, <1>3, QueueProcessor
<1>4. CASE JobStep \/ JobAbort
  <2>1. /\ UNCHANGED << phase, ahead, cur >> /\ pc'[Processor] = pc[Processor]
        /\ \A q \in Reservation : state'[q] = "prepared" => state[q] = "prepared"
    <3>1. CASE JobRetire
      BY <1>0, <3>1, KeysDiffer DEF JobRetire, JobThen, Patch, PoolOK, ReservationsOK
    <3>2. CASE ~JobRetire
      BY <1>0, <1>4, <3>2, JobStepMoves, KeysDiffer DEF JobMoves, PoolOK
    <3> QED
      BY <3>1, <3>2
  <2> QED
    BY <1>0, <2>1, QueueOutside
<1>5. ASSUME NEW d \in Deletion, NEW S \in SUBSET Event, RequestDeletion(d, S) PROVE QueueInv'
  BY <1>0, <1>5, QueueEnqueues, KeysDiffer DEF RequestDeletion, workVars
<1>6. CASE UNCHANGED vars
  BY <1>0, <1>6, QueueOutside DEF vars, workVars
<1> QED
  BY <1>1, <1>2, <1>3, <1>4, <1>5, <1>6 DEF Next

-------------------------------------------------------------------------------
(*****************************************************************************)
(* Reservations.                                                             *)
(*****************************************************************************)
\* At no place is a reservation both written or settled and dropped.
LEMMA WaysApart ==
  ASSUME NEW r \in Reservation, Stage(r)
  PROVE  /\ ~(Applied(r) /\ Dropped(r))
         /\ Applied(r) => state[r] \in {"prepared", "event_applied", "committed"}
         /\ phase[r] = "gone" => state[r] \in Terminal \cup {"absent"}
         /\ phase[r] \notin {"none", "gone"} => state[r] # "absent"
         /\ phase[r] \in {"none", "queued", "prepared", "event_applied", "accounting_applied", "gone"}
BY DEF Stage, Applied, Dropped, Written, Terminal

\* A reservation whose operation has not begun is not written.
LEMMA NotBegun ==
  ASSUME NEW r \in Reservation, ~Begun(r)
  PROVE  ~Written(r) /\ phase[r] # "prepared" /\ ~Prepared(r)
BY DEF Begun, Started, Queued, Written, OpKey

\* Its counters are counters as long as anybody works on it.
LEMMA ScopesKnown ==
  ASSUME Control, NEW r \in Reservation,
         \/ state[r] # "absent" \/ page[r] # "absent"
         \/ pc[r] \notin {"idle", "done", "crashed"} \/ phase[r] \notin {"none", "gone"}
  PROVE  /\ doc[r] \in Doc /\ doc[r].event \in Event /\ KeyOf(r) \in Ref
         /\ AuthorScope(r) \in Author /\ Scopes(r) \subseteq Scope
<1>1. doc[r] \in Doc
  BY DEF Control, DocKnown
<1>2. AuthorScope(r) \in Author
  BY <1>1, AuthorScopeType
<1> QED
  BY <1>1, <1>2, EventAssumption DEF Doc, KeyOf, Scopes, Scope

\* What a step does to a reservation it does not concern.
Steady(r) ==
  /\ phase'[r] = phase[r] /\ state'[r] = state[r] /\ doc'[r] = doc[r]
  /\ delta'[r] = delta[r] /\ settled'[r] = settled[r] /\ pc'[r] = pc[r]
  /\ Begun(r) => event'[KeyOf(r)] = event[KeyOf(r)]

\* A step that leaves the tokens of r alone.
SameTokens(r) ==
  \A s \in Scope :
    /\ (r \in reservationTokens'[s]) = (r \in reservationTokens[s])
    /\ \A o \in Outcome : (<<r, o>> \in settlementTokens'[s]) = (<<r, o>> \in settlementTokens[s])

\* What is said of a steady reservation stays as it is.
LEMMA SteadyMeans ==
  ASSUME NEW r \in Reservation, Steady(r)
  PROVE  /\ KeyOf(r)' = KeyOf(r) /\ Scopes(r)' = Scopes(r)
         /\ Written(r)' = Written(r)
         /\ Applied(r)' = Applied(r) /\ Dropped(r)' = Dropped(r)
         /\ Stage(r)' = Stage(r) /\ Flagged(r)' = Flagged(r)
<1>1. KeyOf(r)' = KeyOf(r) /\ Scopes(r)' = Scopes(r)
  BY DEF Steady, KeyOf, Scopes, AuthorScope
<1>2. Written(r)' = Written(r)
  <2>1. CASE Begun(r)
    BY <1>1, <2>1 DEF Steady, Written, KeyOf
  <2>2. CASE ~Begun(r)
    <3>1. r \in OpKey /\ ~(phase[r] \in {"prepared", "event_applied", "accounting_applied"})
      BY <2>2 DEF Begun, Started, Queued, OpKey
    <3> QED
      BY <3>1 DEF Steady, Written
  <2> QED
    BY <2>1, <2>2
<1>3. Applied(r)' = Applied(r) /\ Dropped(r)' = Dropped(r) /\ Flagged(r)' = Flagged(r)
  BY <1>1, <1>2 DEF Steady, Applied, Dropped, Flagged
<1>4. Stage(r)' = Stage(r)
  BY <1>2 DEF Steady, Stage
<1> QED
  BY <1>1, <1>2, <1>3, <1>4

\* It stays on its way.
LEMMA StraightSteady ==
  ASSUME Control, NEW r \in Reservation, Straight(r), Steady(r), SameTokens(r), ReservationTokensOwned,
         page'[r] \in {"absent", page[r], state[r]}
  PROVE  Straight(r)'
<1>1. /\ KeyOf(r)' = KeyOf(r) /\ Scopes(r)' = Scopes(r)
      /\ Written(r)' = Written(r)
      /\ Applied(r)' = Applied(r) /\ Dropped(r)' = Dropped(r)
      /\ Stage(r)' = Stage(r) /\ Flagged(r)' = Flagged(r)
  BY SteadyMeans
<1>2. Placed(r)' /\ Covered(r)'
  BY <1>1 DEF Straight, Steady, Placed, Covered
<1>3. Exact(r)'
  <2>1. ASSUME phase[r] \in {"queued", "prepared"}, state[r] = "prepared"
        PROVE  event'[KeyOf(r)] = event[KeyOf(r)]
    BY <2>1, NotBegun DEF Steady, Prepared
  <2> QED
    BY <1>1, <2>1 DEF Straight, Steady, Exact, Wins
<1>4. Backed(r)'
  <2>1. CASE pc[r] \in {"author", "rejectAuthor"} \/ pc[r] \in {"mark", "enqueue"}
             \/ phase[r] \in {"queued", "prepared"}
    <3>1. Scopes(r) \subseteq Scope /\ Global \in Scope
      BY <2>1, ScopesKnown DEF Scope
    <3> QED
      BY <1>1, <3>1 DEF Straight, Steady, SameTokens, Backed
  <2>2. CASE ~(pc[r] \in {"author", "rejectAuthor"} \/ pc[r] \in {"mark", "enqueue"}
             \/ phase[r] \in {"queued", "prepared"})
    BY <2>2 DEF Steady, Backed
  <2> QED
    BY <2>1, <2>2
<1>7. TokensOneWay(r)'
  BY <1>1 DEF Straight, Steady, SameTokens, TokensOneWay, Outcome
<1>5. PageOneWay(r)'
  BY DEF Straight, Steady, PageOneWay
<1>6. ClearedLast(r)'
  <2>1. state'[r] = "committed" \/ page'[r] = "committed" => Flagged(r)'
    BY <1>1 DEF Straight, Steady, ClearedLast
  <2>2. ASSUME Applied(r)' PROVE \A s \in Scopes(r)' : Cleared(r, s)' => Flagged(r)'
    <3>1. Applied(r) /\ Stage(r)
      BY <1>1, <2>2 DEF Straight, Placed
    <3>2. Scopes(r) \subseteq Scope
      BY <3>1, WaysApart, ScopesKnown
    <3> QED
      BY <1>1, <3>1, <3>2 DEF Straight, SameTokens, ClearedLast, Cleared, Outcome
  <2>3. page'[r] \in Terminal => \A s \in Scope : r \notin reservationTokens'[s]
    BY DEF Straight, Steady, SameTokens, ClearedLast, Terminal, Live, ReservationTokensOwned
  <2> QED
    BY <2>1, <2>2, <2>3 DEF ClearedLast
<1> QED
  BY <1>2, <1>3, <1>4, <1>5, <1>6, <1>7 DEF Straight

\* A run whose reservation keeps what it had goes on.
LEMMA CallKept ==
  ASSUME NEW c, CallOneWay(c), NEW r \in Reservation, c.r = r,
         Applied(r) => Applied(r)' /\ delta'[r] = delta[r],
         Dropped(r) => Dropped(r)',
         Flagged(r) => Flagged(r)',
         phase[r] = "gone" => phase'[r] = "gone"
  PROVE  CallOneWay(c)'
BY DEF CallOneWay
-------------------------------------------------------------------------------
\* A step that concerns the document and the reservation tokens of r only.
OnlyOf(r) ==
  \A q \in Reservation : q # r =>
    /\ state'[q] = state[q] /\ doc'[q] = doc[q]
    /\ \A s \in Scope : (q \in reservationTokens'[s]) = (q \in reservationTokens[s])

\* A saver's step concerns its own reservation, which is not queued yet.
LEMMA WaysAround ==
  ASSUME TokensInv, WaysInv, NEW r \in Reservation, pc[r] \notin {"done", "crashed"},
         NEW l, pc' = [pc EXCEPT ![r] = l],
         NEW c, call' = [call EXCEPT ![r] = c],
         c.step = "off" \/ (c.step = "read" /\ CallOneWay(c)'),
         UNCHANGED << event, settlementTokens, delta, settled, page, visit, cur, todo >>,
         OnlyOf(r), \A q \in Reservation : q # r => phase'[q] = phase[q],
         \/ pc[r] \in Early
         \/ pc[r] = "cancel" /\ l \in {"done", "crashed"} /\ UNCHANGED << phase, state, doc >>,
         Straight(r)'
  PROVE  WaysInv'
<1>0. /\ Control /\ Untouched /\ PoolOK /\ PcOK /\ ReservationsOK /\ ReservationTokensOwned
      /\ CallsOwned /\ CurOwned /\ VisitOwned /\ OneWay /\ ProcessorCall /\ Retiring /\ Upserting
  BY DEF TokensInv, Control, ShapeOK, WaysInv
<1>1. /\ phase[r] = "none" /\ (pc[Processor] # "idle" => cur # r)
      /\ \A a \in Actor : a # r => pc'[a] = pc[a]
      /\ pc'[Processor] = pc[Processor] /\ pc'[Job] = pc[Job] /\ r \in Actor
      /\ call'[r] = c /\ \A a \in Actor : a # r => call'[a] = call[a]
      /\ call'[Processor] = call[Processor]
  BY <1>0, KeysDiffer DEF WaysInv, Straight, Placed, CurOwned, PoolOK, ReservationsOK
<1>2. ASSUME NEW q \in Reservation, q # r PROVE Steady(q) /\ Straight(q)'
  <2>1. Steady(q) /\ SameTokens(q) /\ q \in Actor
    BY <1>1, <1>2, KeysDiffer DEF Steady, SameTokens, OnlyOf
  <2> QED
    BY <1>0, <2>1, StraightSteady DEF WaysInv
<1>3. OneWay'
  <2>1. ASSUME NEW a \in Actor, NEW k, k = call'[a], k.step # "off" PROVE CallOneWay(k)'
    <3>1. CASE a = r
      BY <1>1, <2>1, <3>1
    <3>2. CASE a # r
      <4>1. call[a] = k /\ CallOneWay(k) /\ k.r \in Reservation
        BY <1>0, <1>1, <2>1, <3>2, CallHolds DEF OneWay
      <4>2. CASE k.r # r
        <5>1. Steady(k.r)
          BY <1>2, <4>1, <4>2
        <5> QED
          BY <4>1, <5>1, SteadyMeans, CallKept DEF Steady
      <4>3. CASE k.r = r
        <5>1. pc[r] = "cancel" /\ l \in {"done", "crashed"} /\ UNCHANGED << phase, state, doc >>
          BY <1>0, <1>1, <2>1, <4>1, <4>3 DEF Untouched
        <5>2. /\ Applied(r)' = Applied(r) /\ (Dropped(r) => Dropped(r)') /\ Flagged(r)' = Flagged(r)
              /\ delta'[r] = delta[r] /\ phase'[r] = phase[r]
          BY <1>0, <1>1, <5>1 DEF Applied, Written, Dropped, Flagged, Scopes, AuthorScope, PoolOK
        <5> QED
          BY <4>1, <4>3, <5>2, CallKept
      <4> QED
        BY <4>2, <4>3
    <3> QED
      BY <3>1, <3>2
  <2>2. \A a \in Actor : call'[a].step # "off" => CallOneWay(call[a])'
    <3> SUFFICES ASSUME NEW a \in Actor, call'[a].step # "off" PROVE CallOneWay(call[a])'
      OBVIOUS
    <3>1. PICK k : k = call'[a]
      OBVIOUS
    <3>2. CallOneWay(k)'
      BY <2>1, <3>1
    <3> QED
      BY <3>1, <3>2
  <2> QED
    BY <2>2 DEF OneWay
<1>4. ProcessorCall'
  <2>1. call[Processor].step # "off" => pc[Processor] # "idle" /\ cur \in Reservation /\ cur # r
    BY <1>0, <1>1 DEF CallsOwned, CurOwned, UpsertPc
  <2>2. CASE call[Processor].step = "off"
    BY <1>0, <1>1, <2>2 DEF ProcessorCall
  <2>3. CASE call[Processor].step # "off"
    <3>1. state'[cur] = state[cur]
      BY <2>1, <2>3 DEF OnlyOf
    <3>2. \A s \in Scope : Cleared(cur, s)' = Cleared(cur, s)
      BY <2>1, <2>3 DEF Cleared, OnlyOf
    <3>3. call[Processor].scope \in Scope
      BY <1>0, KeysDiffer DEF ReservationsOK, Call
    <3>4. \A a \in Actor : call'[a].step = "clear" => call'[a] = call[a]
      BY <1>1
    <3> QED
      BY <1>0, <1>1, <3>1, <3>2, <3>3, <3>4 DEF ProcessorCall
  <2> QED
    BY <2>2, <2>3
<1>5. Retiring'
  <2>1. ASSUME pc[Job] = "terminal"
        PROVE  Scopes(visit)' = Scopes(visit)
    <3>1. visit \in Reservation /\ page[visit] \in Terminal
      BY <1>0, <2>1 DEF VisitOwned, Retiring
    <3>2. CASE visit = r
      BY <1>0, <3>1, <3>2 DEF Untouched, Terminal, Scopes, AuthorScope
    <3>3. CASE visit # r
      BY <3>1, <3>3 DEF Scopes, AuthorScope, OnlyOf
    <3> QED
      BY <3>2, <3>3
  <2> QED
    BY <1>0, <1>1, <2>1 DEF Retiring
<1>6. Upserting'
  <2>1. CASE pc[Processor] = "idle"
    BY <1>1, <2>1 DEF Upserting, UpsertAt
  <2>2. ASSUME pc[Processor] # "idle", cur \in Reservation PROVE UpsertAt(pc[Processor], cur)'
    <3>1. Steady(cur)
      BY <1>1, <1>2, <2>2
    <3> QED
      BY <1>0, <1>1, <2>2, <3>1, SteadyMeans DEF Upserting, UpsertAt, Steady
  <2> QED
    BY <1>1, <2>1, <2>2 DEF Upserting
<1>7. AtHome' /\ \A q \in Reservation : Straight(q)'
  BY <1>2 DEF WaysInv, AtHome
<1> QED
  BY <1>3, <1>4, <1>5, <1>6, <1>7 DEF WaysInv

\* What a saver at l has achieved for its reservation.
Achieved(l, r) ==
  /\ state[r] \in {"preparing", "reserved", "cancel_required", "rejected"}
  /\ l = "enqueue" => state[r] = "reserved"
  /\ l \in {"author", "rejectAuthor"} => r \in reservationTokens[Global]
  /\ l \in {"mark", "enqueue"} => \A s \in Scopes(r) : r \in reservationTokens[s]

\* Steps of a saver, once its enqueue has a known outcome.
LEMMA WaysSaver ==
  ASSUME Faults = {}, OutcomeInv, TokensInv, WaysInv, Control', NEW r \in Reservation,
         Saver(r) \/ SaverCrash(r)
  PROVE  WaysInv'
<1> USE DEF counterVars, reservationVars, queueVars
<1>0. /\ Control /\ Untouched /\ Refused /\ PoolOK /\ PcOK /\ ReservationsOK /\ TokensOK /\ DocKnown
      /\ r \in Actor /\ r \in OpKey /\ NotYetIn /\ Exclusive /\ Straight(r) /\ TokenScopes
      /\ \A q \in Reservation : q \in OpKey
  BY KeysDiffer DEF OutcomeInv, TokensInv, Control, ShapeOK, WaysInv
<1>1. pc[r] \in Early =>
        /\ phase[r] = "none" /\ page[r] \in {"absent", "preparing", "reserved"}
        /\ call[r].step = "off"
        /\ \A s \in Scope, o \in Outcome : <<r, o>> \notin settlementTokens[s]
  <2>1. pc[r] \in Early => /\ phase[r] = "none" /\ page[r] \in {"absent", "preparing", "reserved"}
                           /\ call[r].step = "off"
    BY <1>0 DEF Untouched, Control, CallsOwned, Early
  <2>2. ASSUME pc[r] \in Early, NEW s \in Scope, NEW o \in Outcome
        PROVE  <<r, o>> \notin settlementTokens[s]
    <3>1. phase[r] = "none" /\ state[r] \in {"absent", "preparing", "reserved"}
      BY <1>0, <2>2 DEF Untouched
    <3>2. ~Applied(r) /\ ~Dropped(r)
      BY <2>2, <3>1 DEF Applied, Dropped, Written, Early
    <3> QED
      BY <1>0, <3>2 DEF Straight, TokensOneWay, Outcome
  <2> QED
    BY <2>1, <2>2
<1>2. /\ NoCall.step = "off"
      /\ \A t \in {"cancelled", "rejected"} :
           /\ Cancel(r, t).step = "read" /\ Cancel(r, t).r = r /\ Cancel(r, t).outcome = "cancel"
           /\ Cancel(r, t).terminal = t
  BY DEF NoCall, Cancel
<1>3. ASSUME NEW l \in {"done", "crashed"}, Invoke(r, NoCall), Goto(r, l),
             pc[r] \notin {"idle", "done", "crashed"},
             UNCHANGED << counterVars, reservationVars, event, queueVars, page, visit, cur, todo >>
      PROVE  WaysInv'
  <2>1. pc[r] \in Early \/ pc[r] = "cancel"
    BY <1>0, <1>3 DEF PcOK, SaverPc, Early
  <2>2. Straight(r)'
    <3>1. /\ Written(r)' = Written(r) /\ Stage(r)' = Stage(r) /\ Scopes(r)' = Scopes(r)
          /\ KeyOf(r)' = KeyOf(r) /\ Applied(r)' = Applied(r) /\ (Dropped(r) => Dropped(r)')
          /\ Flagged(r)' = Flagged(r) /\ pc'[r] = l /\ phase[r] = "none" /\ phase'[r] = "none"
      BY <1>0, <1>3 DEF Written, Stage, Scopes, KeyOf, AuthorScope, Applied, Dropped, Flagged, Goto,
        PoolOK, Straight, Placed
    <3>2. Placed(r)' /\ Covered(r)' /\ Exact(r)' /\ Backed(r)'
      BY <1>0, <1>3, <3>1 DEF Straight, Placed, Covered, Exact, Backed
    <3>3. TokensOneWay(r)' /\ PageOneWay(r)' /\ ClearedLast(r)'
      BY <1>0, <1>3, <3>1 DEF Straight, TokensOneWay, PageOneWay, ClearedLast, Cleared
    <3> QED
      BY <3>2, <3>3 DEF Straight
  <2> QED
    BY <1>0, <1>2, <1>3, <2>1, <2>2, WaysAround DEF Goto, Invoke, OnlyOf
<1>4. CASE SaverCancelled(r) \/ SaverCrash(r)
  BY <1>3, <1>4 DEF SaverCancelled, SaverCrash
<1>5. ASSUME pc[r] \in Early, NEW l, Goto(r, l),
             NEW c, call' = [call EXCEPT ![r] = c],
             c.step = "off" \/ (c.step = "read" /\ CallOneWay(c)'),
             UNCHANGED << event, settlementTokens, delta, settled, page, visit, cur, todo, phase >>,
             OnlyOf(r), Achieved(l, r)'
      PROVE  WaysInv'
  <2>1. pc'[r] = l
    BY <1>0, <1>5 DEF Goto, PoolOK
  <2>2. Straight(r)'
    <3>1. ~Written(r)' /\ Stage(r)'
      BY <1>1, <1>5 DEF Written, Stage, Achieved
    <3>2. Placed(r)' /\ Covered(r)' /\ Exact(r)' /\ Backed(r)'
      BY <1>1, <1>5, <2>1, <3>1 DEF Placed, Covered, Exact, Backed, Achieved
    <3>3. TokensOneWay(r)' /\ PageOneWay(r)' /\ ClearedLast(r)'
      BY <1>1, <1>5, <3>1 DEF Achieved, TokensOneWay, PageOneWay, ClearedLast, Applied, Outcome, Terminal
    <3> QED
      BY <3>2, <3>3 DEF Straight
  <2> QED
    BY <1>0, <1>5, <2>2, WaysAround DEF Goto, Early
<1>6. ASSUME NEW e \in Event, BeginSave(r, e) PROVE WaysInv'
  <2>1. /\ state'[r] = "preparing" /\ call' = [call EXCEPT ![r] = call[r]]
        /\ \A q \in Reservation : q # r => state'[q] = state[q] /\ doc'[q] = doc[q]
        /\ UNCHANGED << reservationTokens, event, settlementTokens, delta, settled, page, visit,
                        cur, todo, phase >>
        /\ Goto(r, "global") /\ pc[r] \in Early
    BY <1>0, <1>6 DEF BeginSave, Patch, ReservationsOK, Early
  <2>2. OnlyOf(r) /\ Achieved("global", r)'
    BY <2>1 DEF OnlyOf, Achieved
  <2> QED
    BY <1>1, <1>5, <2>1, <2>2
<1>7. ASSUME NEW s \in Scope, NEW next, NEW refused, Reserve(r, s, next, refused),
             \/ /\ pc[r] = "global" /\ s = Global /\ next = "author" /\ refused = "rejectGlobal"
             \/ /\ pc[r] = "author" /\ s = AuthorScope(r) /\ next = "mark" /\ refused = "rejectAuthor"
      PROVE  WaysInv'
  <2>1. /\ UNCHANGED << reservationVars, event, settlementTokens, page, visit, cur, todo, phase >>
        /\ call' = [call EXCEPT ![r] = call[r]] /\ pc[r] \in Early /\ Scopes(r)' = Scopes(r)
    BY <1>0, <1>7 DEF Reserve, ReserveCounter, ReservationsOK, Early, Scopes, AuthorScope
  <2>2. /\ state[r] \in {"preparing", "reserved"}
        /\ pc[r] = "author" => r \in reservationTokens[Global]
    BY <1>0, <1>7 DEF Untouched, Early, Straight, Backed
  <2>3. \/ Goto(r, refused) /\ reservationTokens' = reservationTokens
        \/ Goto(r, next) /\ reservationTokens' = [reservationTokens EXCEPT ![s] = @ \cup {r}]
    BY <1>7 DEF Reserve, ReserveCounter
  <2>4. CASE Goto(r, refused) /\ reservationTokens' = reservationTokens
    BY <1>1, <1>5, <1>7, <2>1, <2>2, <2>4 DEF OnlyOf, Achieved
  <2>5. CASE Goto(r, next) /\ reservationTokens' = [reservationTokens EXCEPT ![s] = @ \cup {r}]
    <3>1. /\ \A q \in Reservation : q # r =>
               \A t \in Scope : (q \in reservationTokens'[t]) = (q \in reservationTokens[t])
          /\ r \in reservationTokens'[s]
          /\ r \in reservationTokens[Global] => r \in reservationTokens'[Global]
      BY <1>0, <2>5 DEF TokensOK, Scope
    <3> QED
      BY <1>1, <1>5, <1>7, <2>1, <2>2, <2>5, <3>1 DEF Scopes, OnlyOf, Achieved
  <2> QED
    BY <2>3, <2>4, <2>5
<1>8. CASE SaverGlobal(r)
  BY <1>7, <1>8 DEF SaverGlobal, Scope
<1>9. CASE SaverAuthor(r)
  <2>1. AuthorScope(r) \in Scope
    BY <1>0, <1>9, ScopesKnown DEF SaverAuthor, Scope
  <2> QED
    BY <1>7, <1>9, <2>1 DEF SaverAuthor
<1>10. CASE SaverMark(r)
  <2>1. /\ state'[r] = "reserved" /\ call' = [call EXCEPT ![r] = call[r]]
        /\ \A q \in Reservation : q # r => state'[q] = state[q] /\ doc'[q] = doc[q]
        /\ UNCHANGED << reservationTokens, event, settlementTokens, delta, settled, page, visit,
                        cur, todo, phase, doc >>
        /\ Goto(r, "enqueue") /\ pc[r] \in Early /\ pc[r] = "mark"
    BY <1>0, <1>10 DEF SaverMark, Patch, ReservationsOK, Early
  <2>2. \A s \in Scopes(r)' : r \in reservationTokens'[s]
    BY <1>0, <2>1 DEF Straight, Backed, Scopes, AuthorScope
  <2>3. OnlyOf(r) /\ Achieved("enqueue", r)'
    BY <2>1, <2>2 DEF OnlyOf, Achieved
  <2> QED
    BY <1>1, <1>5, <2>1, <2>2, <2>3
<1>11. CASE SaverReject(r)
  <2>1. Reject(r) /\ doc[r] \in Doc /\ doc \in [Reservation -> Doc \cup {None}]
    BY <1>0, <1>11 DEF SaverReject, DocKnown, ReservationsOK
  <2>2. \A q \in Reservation : q # r => doc'[q] = doc[q]
    BY <2>1, RejectKeeps
  <2>3. /\ UNCHANGED << reservationTokens, event, settlementTokens, delta, settled, page, visit,
                        cur, todo, phase >>
        /\ pc[r] \in Early
    BY <1>11 DEF SaverReject, Early
  <2>4. CASE pc[r] = "rejectGlobal" /\ Patch(r, "rejected") /\ Goto(r, "done") /\ call' = call
    <3>1. /\ state'[r] = "rejected" /\ call' = [call EXCEPT ![r] = call[r]]
          /\ \A q \in Reservation : q # r => state'[q] = state[q]
      BY <1>0, <2>4 DEF Patch, ReservationsOK
    <3>2. OnlyOf(r) /\ Achieved("done", r)'
      BY <2>2, <2>3, <3>1 DEF OnlyOf, Achieved
    <3> QED
      BY <1>1, <1>5, <2>3, <2>4, <3>1, <3>2
  <2>5. CASE /\ Patch(r, "cancel_required") /\ Invoke(r, Cancel(r, "rejected"))
             /\ Goto(r, "cancel")
    <3>1. /\ state'[r] = "cancel_required"
          /\ \A q \in Reservation : q # r => state'[q] = state[q]
      BY <1>0, <2>5 DEF Patch, ReservationsOK
    <3>2. PICK c : c = Cancel(r, "rejected")
      OBVIOUS
    <3>3. c.step = "read" /\ CallOneWay(c)'
      BY <1>2, <3>1, <3>2 DEF CallOneWay, Dropped
    <3>4. OnlyOf(r) /\ Achieved("cancel", r)'
      BY <2>2, <2>3, <3>1 DEF OnlyOf, Achieved
    <3> QED
      BY <1>5, <2>3, <2>5, <3>1, <3>2, <3>3, <3>4 DEF Invoke
  <2> QED
    BY <1>11, <2>4, <2>5 DEF SaverReject
<1>12. CASE SaverEnqueueFails(r)
  <2>1. /\ UNCHANGED << reservationTokens, event, settlementTokens, delta, settled, page, visit,
                        cur, todo, phase, state, doc >>
        /\ pc[r] \in Early /\ pc[r] = "enqueue" /\ Goto(r, "cancel") /\ Invoke(r, Cancel(r, "cancelled"))
        /\ state[r] = "reserved" /\ pc'[r] = "cancel" /\ phase[r] = "none"
    BY <1>0, <1>1, <1>12 DEF SaverEnqueueFails, Early, Straight, Placed, Goto, PoolOK
  <2>2. PICK c : c = Cancel(r, "cancelled")
    OBVIOUS
  <2>3. c.step = "read" /\ CallOneWay(c)'
    BY <1>2, <2>1, <2>2 DEF CallOneWay, Dropped
  <2> QED
    BY <1>5, <2>1, <2>2, <2>3 DEF Invoke, OnlyOf, Achieved
<1>13. CASE SaverEnqueue(r)
  <2>1. /\ UNCHANGED << reservationTokens, event, settlementTokens, delta, settled, page, visit,
                        cur, todo, state, doc >>
        /\ pc[r] \in Early /\ pc[r] = "enqueue" /\ Goto(r, "done")
        /\ state[r] = "reserved" /\ pc'[r] = "done"
        /\ call' = [call EXCEPT ![r] = call[r]]
        /\ phase' = [phase EXCEPT ![r] = "queued"] /\ phase'[r] = "queued"
    BY <1>0, <1>1, <1>13 DEF SaverEnqueue, Enqueue, Early, Straight, Placed, Goto, PoolOK, ReservationsOK
  <2>2. \A s \in Scopes(r)' : r \in reservationTokens'[s]
    BY <1>0, <2>1 DEF Straight, Backed, Scopes, AuthorScope
  <2>3. Straight(r)'
    <3>1. ~Written(r)' /\ Stage(r)'
      BY <2>1 DEF Written, Stage
    <3>2. Placed(r)' /\ Covered(r)' /\ Exact(r)' /\ Backed(r)'
      BY <1>1, <2>1, <2>2, <3>1 DEF Placed, Covered, Exact, Backed
    <3>3. TokensOneWay(r)' /\ PageOneWay(r)' /\ ClearedLast(r)'
      BY <1>1, <2>1, <3>1 DEF TokensOneWay, PageOneWay, ClearedLast, Applied, Outcome, Terminal
    <3> QED
      BY <3>2, <3>3 DEF Straight
  <2>4. \A q \in Reservation : q # r => phase'[q] = phase[q]
    BY <1>0, <2>1 DEF PoolOK
  <2> QED
    BY <1>0, <1>1, <2>1, <2>3, <2>4, WaysAround DEF Goto, Early, OnlyOf
<1> QED
  BY <1>4, <1>6, <1>8, <1>9, <1>10, <1>11, <1>12, <1>13 DEF Saver

-------------------------------------------------------------------------------
\* A step of finalize or cancel concerns the reservation it is about.
LEMMA WaysAroundCall ==
  ASSUME TokensInv, WaysInv, NEW a \in Actor, call[a].step # "off",
         NEW r \in Reservation, r = call[a].r,
         NEW n, call' = [call EXCEPT ![a] = n], n.step # "off" => CallOneWay(n)',
         UNCHANGED << event, queueVars, workVars, doc, delta >>,
         \A q \in Reservation : q # r => state'[q] = state[q] /\ settled'[q] = settled[q] /\ SameTokens(q),
         \A s \in Scope, o \in Outcome :
           <<r, o>> \in settlementTokens'[s] => <<r, o>> \in settlementTokens[s] \/ r \in reservationTokens[s],
         Applied(r) => Applied(r)', Dropped(r) => Dropped(r)', Flagged(r) => Flagged(r)',
         Straight(r)', ProcessorCall', state'[r] = state[r] \/ Upserting'
  PROVE  WaysInv'
<1> USE DEF queueVars, workVars
<1>0. /\ Control /\ PoolOK /\ PcOK /\ ReservationsOK /\ ReservationTokensOwned
      /\ CallsOwned /\ CurOwned /\ VisitOwned /\ OneWay /\ Retiring /\ Upserting
      /\ \A q \in Reservation : q \in OpKey
  BY KeysDiffer DEF TokensInv, Control, ShapeOK, WaysInv
<1>1. \A q \in Reservation : Written(q)' = Written(q) /\ Scopes(q)' = Scopes(q)
  BY DEF Written, Scopes, AuthorScope
<1>2. ASSUME NEW q \in Reservation, q # r PROVE Steady(q) /\ Straight(q)'
  <2>1. Steady(q)
    BY <1>2 DEF Steady
  <2> QED
    BY <1>0, <1>2, <2>1, StraightSteady DEF WaysInv
<1>3. OneWay'
  <2>1. ASSUME NEW b \in Actor, NEW k, k = call'[b], k.step # "off" PROVE CallOneWay(k)'
    <3>1. CASE b = a
      BY <1>0, <2>1, <3>1 DEF ReservationsOK
    <3>2. CASE b # a
      <4>1. call[b] = k /\ CallOneWay(k) /\ k.r \in Reservation
        BY <1>0, <2>1, <3>2, CallHolds DEF OneWay, ReservationsOK
      <4>2. CASE k.r # r
        <5>1. Steady(k.r)
          BY <1>2, <4>1, <4>2
        <5> QED
          BY <4>1, <5>1, SteadyMeans, CallKept DEF Steady
      <4>3. CASE k.r = r
        BY <4>1, <4>3, CallKept
      <4> QED
        BY <4>2, <4>3
    <3> QED
      BY <3>1, <3>2
  <2>2. \A b \in Actor : call'[b].step # "off" => CallOneWay(call[b])'
    <3> SUFFICES ASSUME NEW b \in Actor, call'[b].step # "off" PROVE CallOneWay(call[b])'
      OBVIOUS
    <3>1. PICK k : k = call'[b]
      OBVIOUS
    <3>2. CallOneWay(k)'
      BY <2>1, <3>1
    <3> QED
      BY <3>1, <3>2
  <2> QED
    BY <2>2 DEF OneWay
<1>4. Retiring'
  <2>1. ASSUME pc[Job] = "terminal", NEW s \in Scopes(visit) \ todo[Job], NEW o \in Outcome
        PROVE  <<visit, o>> \notin settlementTokens'[s]
    <3>1. /\ visit \in Reservation /\ page[visit] \in Terminal /\ s \in Scope
          /\ <<visit, o>> \notin settlementTokens[s]
      BY <1>0, <2>1, ScopesKnown DEF VisitOwned, Retiring
    <3>2. CASE visit = r
      BY <3>1, <3>2 DEF WaysInv, Straight, ClearedLast
    <3>3. CASE visit # r
      BY <3>1, <3>3 DEF SameTokens
    <3> QED
      BY <3>2, <3>3
  <2>2. pc[Job] = "terminal" => page[visit] \in Terminal /\ visit \in Reservation
    BY <1>0 DEF Retiring, VisitOwned
  <2> QED
    BY <1>1, <2>1, <2>2 DEF Retiring
<1>5. Upserting'
  <2>1. ASSUME state'[r] = state[r], cur \in Reservation PROVE UpsertAt(pc[Processor], cur)'
    <3>1. state'[cur] = state[cur]
      BY <2>1
    <3> QED
      BY <1>0, <1>1, <2>1, <3>1 DEF Upserting, UpsertAt
  <2> QED
    BY <2>1 DEF Upserting
<1>6. AtHome' /\ \A q \in Reservation : Straight(q)'
  BY <1>2 DEF WaysInv, AtHome
<1> QED
  BY <1>3, <1>4, <1>5, <1>6 DEF WaysInv

\* What a run has found out about its reservation.
LEMMA CallKnows ==
  ASSUME TokensInv, WaysInv, NEW a \in Actor, call[a].step # "off", NEW c, c = call[a]
  PROVE  /\ c \in Call /\ c.r \in Reservation /\ c.scope \in Scope /\ c.outcome \in Outcome
         /\ doc[c.r] \in Doc /\ AuthorScope(c.r) \in Author /\ Scopes(c.r) \subseteq Scope
         /\ pc[c.r] \notin Early /\ Straight(c.r) /\ CallOneWay(c)
         /\ Stage(c.r) /\ ~(Applied(c.r) /\ Dropped(c.r))
         /\ ClearedLast(c.r) /\ TokensOneWay(c.r) /\ PageOneWay(c.r)
<1>1. /\ c \in Call /\ c.r \in Reservation /\ doc[c.r] \in Doc /\ AuthorScope(c.r) \in Author
  BY CallHolds DEF TokensInv
<1>2. pc[c.r] \notin Early
  BY <1>1 DEF TokensInv, Untouched
<1>3. Straight(c.r) /\ CallOneWay(c)
  BY <1>1 DEF WaysInv, OneWay
<1> QED
  BY <1>1, <1>2, <1>3, WaysApart DEF Call, Scopes, Scope, Straight, Placed

\* A fresh copy: what it keeps of the run and what it decides.
LEMMA CopyDecides ==
  ASSUME NEW c \in Call, NEW flags, NEW amount, NEW w, w = WithCopy(c, flags, amount)
  PROVE  /\ w.r = c.r /\ w.outcome = c.outcome /\ w.terminal = c.terminal /\ w.delta = amount
         /\ w.step \in {"settle", "state"}
         /\ w.step = "settle" => ~({Global, AuthorScope(c.r)} \subseteq flags)
         /\ w.step = "state" => {Global, AuthorScope(c.r)} \subseteq flags
         /\ w.scope \in {Global, AuthorScope(c.r)}
BY DEF WithCopy, Call

\* A run that is to settle a counter has not found both flags; if it is the
\* processor's, nobody can have cleared the settlement before.
LEMMA CopyIsFresh ==
  ASSUME TokensInv, WaysInv, NEW r \in Reservation, Scopes(r) \subseteq Scope,
         Applied(r), ~Flagged(r)
  PROVE  /\ \A s \in Scopes(r) : ~Cleared(r, s)
         /\ \A a \in Actor : call[a].step = "clear" => call[a].r # r
         /\ page[r] # "committed"
<1>1. ClearedLast(r)
  BY DEF WaysInv, Straight
<1>2. ASSUME NEW a \in Actor, call[a].step = "clear", call[a].r = r PROVE FALSE
  <2>1. PICK c : c = call[a]
    OBVIOUS
  <2>2. CallOneWay(c)
    BY <1>2, <2>1, CallKnows
  <2> QED
    BY <1>2, <2>1, <2>2 DEF CallOneWay
<1> QED
  BY <1>1, <1>2 DEF ClearedLast

\* A run of finalize or cancel reads its document.
LEMMA WaysRead ==
  ASSUME TokensInv, WaysInv, NEW a \in Actor, CallRead(a), UNCHANGED << event, queueVars, workVars >>
  PROVE  WaysInv'
<1> USE DEF counterVars, reservationVars, queueVars, workVars
<1>1. PICK c : c = call[a]
  OBVIOUS
<1>2. c.step = "read"
  BY <1>1 DEF CallRead
<1>3. PICK n : /\ call' = [call EXCEPT ![a] = n]
               /\ n = IF state[c.r] \in (IF c.outcome = "commit" THEN {"committed"} ELSE Terminal \cup {"absent"})
                      THEN [c EXCEPT !.step = "done"]
                      ELSE IF c.outcome = "commit" /\ delta[c.r] = None
                      THEN [c EXCEPT !.step = "failed"]
                      ELSE WithCopy(c, settled[c.r], delta[c.r])
  BY <1>1 DEF CallRead
<1>4. UNCHANGED << counterVars, reservationVars >>
  BY DEF CallRead
<1>5. /\ c \in Call /\ c.r \in Reservation /\ Scopes(c.r) \subseteq Scope /\ Straight(c.r)
      /\ CallOneWay(c) /\ Stage(c.r) /\ c.outcome \in Outcome
  BY <1>1, <1>2, CallKnows
<1>6. c.outcome = "commit" => delta[c.r] # None
  <2>1. c.outcome = "commit" => Applied(c.r) /\ Covered(c.r)
    BY <1>5 DEF CallOneWay, Straight
  <2> QED
    BY <2>1 DEF Applied, Written, Covered
<1>7. /\ n.r = c.r /\ n.outcome = c.outcome /\ n.terminal = c.terminal
      /\ \/ n.step = "done" /\ state[c.r] \in Terminal \cup {"absent"}
         \/ /\ n.step \in {"settle", "state"} /\ n.delta = delta[c.r]
            /\ n.step = "settle" => ~Flagged(c.r)
            /\ n.scope \in Scopes(c.r)
            /\ c.outcome = "cancel" => state[c.r] \notin Terminal \cup {"absent"}
  <2>1. CASE state[c.r] \in (IF c.outcome = "commit" THEN {"committed"} ELSE Terminal \cup {"absent"})
    BY <1>3, <1>5, <2>1 DEF Call, Terminal
  <2>2. CASE state[c.r] \notin (IF c.outcome = "commit" THEN {"committed"} ELSE Terminal \cup {"absent"})
    <3>1. n = WithCopy(c, settled[c.r], delta[c.r])
      BY <1>3, <1>6, <2>2
    <3> QED
      BY <1>5, <2>2, <3>1, CopyDecides DEF Flagged, Scopes
  <2> QED
    BY <2>1, <2>2
<1>8. \A q \in Reservation :
        /\ Written(q)' = Written(q) /\ Applied(q)' = Applied(q) /\ Dropped(q)' = Dropped(q)
        /\ Flagged(q)' = Flagged(q)
  BY <1>4 DEF Written, Applied, Dropped, Flagged, Scopes, AuthorScope
<1>9. CallOneWay(n)'
  <2>1. CallOneWay(n)
    <3>1. c.outcome = "cancel" /\ n.step # "done" => Dropped(c.r)
      BY <1>2, <1>5, <1>7, WaysApart DEF CallOneWay
    <3> QED
      BY <1>2, <1>5, <1>7, <3>1 DEF CallOneWay
  <2> QED
    BY <1>4, <1>5, <1>7, <1>8, <2>1 DEF CallOneWay
<1>10. Straight(c.r)'
  <2>1. Steady(c.r) /\ SameTokens(c.r)
    BY <1>4 DEF Steady, SameTokens
  <2> QED
    BY <1>5, <2>1, StraightSteady DEF TokensInv
<1>11. ProcessorCall'
  <2>1. /\ ProcessorCall /\ call'[Processor] \in {call[Processor], n} /\ ReservationsOK /\ CallsOwned /\ CurOwned
        /\ a = Processor => call'[Processor] = n /\ call[Processor] = c
        /\ a # Processor => call'[Processor] = call[Processor]
        /\ n.step # "clear" /\ \A b \in Actor : b # a => call'[b] = call[b]
        /\ call'[a] = n
    BY <1>1, <1>3, <1>7, KeysDiffer DEF WaysInv, TokensInv, Control, ShapeOK, ReservationsOK
  <2>2. \A s \in Scope : Cleared(cur, s)' = Cleared(cur, s)
    BY <1>4 DEF Cleared
  <2>3. CASE a # Processor
    BY <1>4, <2>1, <2>2, <2>3 DEF ProcessorCall, Cleared
  <2>4. CASE a = Processor
    <3>1. c.r = cur /\ cur \in OpKey /\ phase[cur] \notin {"none", "gone"}
      BY <1>1, <1>2, <2>1, <2>4 DEF CallsOwned, CurOwned, UpsertPc
    <3>2. n.step = "done" => state[cur] \in Terminal
      BY <1>5, <1>7, <3>1, WaysApart
    <3>3. n.step = "settle" /\ n.outcome = "commit" =>
            /\ ~Cleared(cur, n.scope)
            /\ \A b \in Actor : call[b].step = "clear" => call[b].r # cur
            /\ page[cur] # "committed"
      BY <1>5, <1>7, <3>1, CopyIsFresh DEF CallOneWay
    <3>4. n.step = "settle" => n.scope \in Scope
      BY <1>5, <1>7
    <3>5. n.step = "settle" => Cleared(cur, n.scope)' = Cleared(cur, n.scope)
      BY <2>2, <3>4
    <3> QED
      BY <1>1, <1>4, <1>7, <2>1, <2>4, <3>2, <3>3, <3>5 DEF ProcessorCall
  <2> QED
    BY <2>3, <2>4
<1>12. \A q \in Reservation : SameTokens(q)
  BY <1>4 DEF SameTokens
<1> QED
  BY <1>1, <1>2, <1>3, <1>4, <1>5, <1>7, <1>8, <1>9, <1>10, <1>11, <1>12, WaysAroundCall

\* Settling one counter.
LEMMA WaysSettle ==
  ASSUME OutcomeInv, TokensInv, WaysInv, NEW a \in Actor, CallSettle(a),
         UNCHANGED << event, queueVars, workVars >>
  PROVE  WaysInv'
<1> USE DEF counterVars, reservationVars, queueVars, workVars
<1>1. PICK c : c = call[a]
  OBVIOUS
<1>2. c.step = "settle"
  BY <1>1 DEF CallSettle
<1>3. PICK n : /\ call' = [call EXCEPT ![a] = n]
               /\ n = [c EXCEPT !.step = IF Settles(c.scope, c.r, c.outcome) THEN "flag" ELSE "failed"]
  BY <1>1 DEF CallSettle
<1>4. UNCHANGED reservationVars
  BY DEF CallSettle
<1>5. /\ c \in Call /\ c.r \in Reservation /\ Scopes(c.r) \subseteq Scope /\ Straight(c.r)
      /\ CallOneWay(c) /\ Stage(c.r) /\ c.outcome \in Outcome /\ c.scope \in Scope
      /\ pc[c.r] \notin Early /\ ~(Applied(c.r) /\ Dropped(c.r))
      /\ TokensOK /\ Exclusive /\ TokenScopes /\ ReservationTokensOwned
  BY <1>1, <1>2, CallKnows DEF OutcomeInv, TokensInv, Control, ShapeOK
<1>6. /\ n.r = c.r /\ n.outcome = c.outcome /\ n.terminal = c.terminal /\ n.delta = c.delta
      /\ n.scope = c.scope
      /\ n.step \in {"flag", "failed"}
      /\ n.step = "failed" => c.outcome = "commit" /\ Cleared(c.r, c.scope)
  BY <1>3, <1>5 DEF Call, Settles, Cleared, Outcome
<1>7. \A q \in Reservation :
        /\ Written(q)' = Written(q) /\ Applied(q)' = Applied(q) /\ Dropped(q)' = Dropped(q)
        /\ Flagged(q)' = Flagged(q) /\ Scopes(q)' = Scopes(q) /\ KeyOf(q)' = KeyOf(q)
        /\ Stage(q)' = Stage(q)
  BY <1>4 DEF Written, Applied, Dropped, Flagged, Scopes, AuthorScope, KeyOf, Stage
<1>8. \/ /\ UNCHANGED << reservationTokens, settlementTokens >>
      \/ /\ c.r \in reservationTokens[c.scope]
         /\ reservationTokens' = [reservationTokens EXCEPT ![c.scope] = @ \ {c.r}]
         /\ settlementTokens' = [settlementTokens EXCEPT ![c.scope] = @ \cup {<<c.r, c.outcome>>}]
  BY <1>1 DEF CallSettle, SettleCounter
<1>9. \A q \in Reservation : q # c.r => SameTokens(q)
  BY <1>5, <1>8 DEF SameTokens, TokensOK
<1>10. /\ \A s \in Scope : c.r \in reservationTokens'[s] => c.r \in reservationTokens[s]
       /\ \A s \in Scope, o \in Outcome :
            /\ <<c.r, o>> \in settlementTokens[s] => <<c.r, o>> \in settlementTokens'[s]
            /\ <<c.r, o>> \in settlementTokens'[s] =>
                  \/ <<c.r, o>> \in settlementTokens[s]
                  \/ o = c.outcome /\ s = c.scope /\ c.r \in reservationTokens[s]
       /\ \A s \in Scope : c.r \in reservationTokens[s] /\ c.r \notin reservationTokens'[s] =>
            <<c.r, c.outcome>> \in settlementTokens'[s]
  BY <1>5, <1>8 DEF TokensOK
<1>11. c.outcome = "commit" => Applied(c.r)
  BY <1>5 DEF CallOneWay
<1>12. c.outcome = "cancel" => Dropped(c.r)
  BY <1>2, <1>5 DEF CallOneWay
<1>13. \A s \in Scopes(c.r) : Applied(c.r) /\ Cleared(c.r, s)' => Cleared(c.r, s)
  BY <1>5, <1>10, <1>12 DEF Cleared, Outcome
<1>14. Straight(c.r)'
  <2>1. Placed(c.r)' /\ Covered(c.r)' /\ Exact(c.r)' /\ PageOneWay(c.r)'
    BY <1>4, <1>5, <1>7 DEF Straight, Placed, Covered, Exact, PageOneWay, Wins
  <2>2. Backed(c.r)'
    <3>1. ~(phase[c.r] \in {"queued", "prepared"} /\ state[c.r] \in {"reserved", "prepared"} /\ ~Written(c.r))
      BY <1>5, <1>11, <1>12 DEF Applied, Dropped, Outcome
    <3> QED
      BY <1>4, <1>5, <1>7, <3>1 DEF Backed, Early
  <2>3. TokensOneWay(c.r)'
    <3>1. ASSUME NEW s \in Scope, NEW o \in Outcome, <<c.r, o>> \in settlementTokens'[s]
          PROVE  /\ o = "commit" => Applied(c.r)
                 /\ o = "cancel" => Dropped(c.r)
                 /\ state[c.r] # "absent" /\ s \in Scopes(c.r)
      <4>1. CASE <<c.r, o>> \in settlementTokens[s]
        BY <1>5, <3>1, <4>1 DEF Straight, TokensOneWay
      <4>2. CASE o = c.outcome /\ s = c.scope /\ c.r \in reservationTokens[s]
        BY <1>5, <1>11, <1>12, <4>2 DEF TokenScopes, ReservationTokensOwned, Live, Scopes
      <4> QED
        BY <1>10, <3>1, <4>1, <4>2
    <3> QED
      BY <1>4, <1>5, <1>7, <3>1 DEF TokensOneWay, Outcome
  <2>4. ClearedLast(c.r)'
    BY <1>4, <1>5, <1>7, <1>10, <1>13 DEF Straight, ClearedLast
  <2> QED
    BY <2>1, <2>2, <2>3, <2>4 DEF Straight
<1>15. CallOneWay(n)'
  <2>1. CallOneWay(n)
    BY <1>2, <1>5, <1>6, <1>12 DEF CallOneWay
  <2> QED
    BY <1>4, <1>5, <1>6, <1>7, <2>1 DEF CallOneWay
<1>16. ProcessorCall'
  <2>1. /\ ProcessorCall /\ CallsOwned /\ CurOwned
        /\ a = Processor => call'[Processor] = n /\ call[Processor] = c
        /\ a # Processor => call'[Processor] = call[Processor]
        /\ n.step # "clear" /\ \A b \in Actor : b # a => call'[b] = call[b]
        /\ call'[a] = n
    BY <1>1, <1>3, <1>6, KeysDiffer DEF WaysInv, TokensInv, Control, ShapeOK, ReservationsOK
  <2>2. CASE a = Processor
    <3>1. c.r = cur
      BY <1>1, <1>2, <2>1, <2>2 DEF CallsOwned
    <3> QED
      BY <1>1, <1>2, <1>4, <1>6, <2>1, <2>2, <3>1 DEF ProcessorCall, Terminal
  <2>3. CASE a # Processor /\ call[Processor].step = "settle" /\ call[Processor].outcome = "commit"
    <3>1. PICK k : k = call[Processor]
      OBVIOUS
    <3>2. /\ k.r = cur /\ cur \in Reservation /\ k.scope \in Scope /\ Applied(cur)
      BY <2>1, <2>3, <3>1, KeysDiffer, CallKnows DEF CallsOwned, CallOneWay
    <3>3. Cleared(cur, k.scope)' => Cleared(cur, k.scope)
      <4>1. CASE cur = c.r
        BY <1>5, <1>10, <1>12, <3>2, <4>1 DEF Cleared, Outcome
      <4>2. CASE cur # c.r
        BY <1>9, <3>2, <4>2 DEF SameTokens, Cleared, Outcome
      <4> QED
        BY <4>1, <4>2
    <3>4. \A b \in Actor : call'[b].step = "clear" => call'[b] = call[b]
      BY <2>1
    <3> QED
      BY <1>4, <2>1, <2>3, <3>1, <3>3, <3>4 DEF ProcessorCall
  <2>4. CASE a # Processor /\ ~(call[Processor].step = "settle" /\ call[Processor].outcome = "commit")
    BY <1>4, <2>1, <2>4 DEF ProcessorCall
  <2> QED
    BY <2>2, <2>3, <2>4
<1> QED
  BY <1>1, <1>2, <1>3, <1>4, <1>5, <1>7, <1>9, <1>10, <1>14, <1>15, <1>16, WaysAroundCall

\* Recording that a counter is settled.
LEMMA WaysFlag ==
  ASSUME TokensInv, WaysInv, NEW a \in Actor, CallFlag(a), UNCHANGED << event, queueVars, workVars >>
  PROVE  WaysInv'
<1> USE DEF counterVars, queueVars, workVars
<1>1. PICK c : c = call[a]
  OBVIOUS
<1>2. c.step = "flag"
  BY <1>1 DEF CallFlag
<1>3. /\ c \in Call /\ c.r \in Reservation /\ Scopes(c.r) \subseteq Scope /\ Straight(c.r)
      /\ CallOneWay(c) /\ c.outcome \in Outcome
      /\ ReservationsOK /\ CallsOwned
  BY <1>1, <1>2, CallKnows DEF TokensInv, Control, ShapeOK
<1>4. /\ UNCHANGED << counterVars, state, doc, delta >>
      /\ settled' = [settled EXCEPT ![c.r] = @ \cup {c.scope}]
  BY <1>1 DEF CallFlag
<1>5. PICK n : call' = [call EXCEPT ![a] = n] /\ n = WithCopy(c, settled'[c.r], delta[c.r])
  BY <1>1 DEF CallFlag
<1>6. \A q \in Reservation :
        /\ Written(q)' = Written(q) /\ Applied(q)' = Applied(q) /\ Dropped(q)' = Dropped(q)
        /\ Scopes(q)' = Scopes(q) /\ KeyOf(q)' = KeyOf(q) /\ Stage(q)' = Stage(q)
        /\ SameTokens(q) /\ (q # c.r => settled'[q] = settled[q])
        /\ (Flagged(q) => Flagged(q)')
  BY <1>3, <1>4 DEF Written, Applied, Dropped, Flagged, Scopes, AuthorScope, KeyOf, Stage, SameTokens,
    ReservationsOK
<1>7. /\ n.r = c.r /\ n.outcome = c.outcome /\ n.terminal = c.terminal /\ n.delta = delta[c.r]
      /\ n.step \in {"settle", "state"} /\ n.scope \in Scopes(c.r)
      /\ n.step = "settle" => ~Flagged(c.r)'
  BY <1>3, <1>4, <1>5, <1>6, CopyDecides DEF Flagged, Scopes, AuthorScope
<1>8. CallOneWay(n)'
  BY <1>2, <1>3, <1>4, <1>6, <1>7 DEF CallOneWay
<1>9. Straight(c.r)'
  <2>1. Placed(c.r)' /\ Covered(c.r)' /\ Exact(c.r)' /\ Backed(c.r)'
    BY <1>3, <1>4, <1>6 DEF Straight, Placed, Covered, Exact, Backed, Wins
  <2>2. TokensOneWay(c.r)' /\ PageOneWay(c.r)' /\ ClearedLast(c.r)'
    BY <1>3, <1>4, <1>6 DEF Straight, TokensOneWay, PageOneWay, ClearedLast, Cleared
  <2> QED
    BY <2>1, <2>2 DEF Straight
<1>10. ProcessorCall'
  <2>1. /\ ProcessorCall
        /\ a = Processor => call'[Processor] = n /\ call[Processor] = c
        /\ a # Processor => call'[Processor] = call[Processor]
        /\ \A b \in Actor : call'[b].step = "clear" => call'[b] = call[b]
        /\ \A s \in Scope : Cleared(cur, s)' = Cleared(cur, s)
    BY <1>1, <1>3, <1>4, <1>5, <1>7, KeysDiffer DEF WaysInv, ReservationsOK, Cleared
  <2>2. CASE a # Processor
    <3>1. call[Processor].scope \in Scope
      BY <1>3, KeysDiffer DEF ReservationsOK, Call
    <3> QED
      BY <1>4, <2>1, <2>2, <3>1 DEF ProcessorCall
  <2>3. CASE a = Processor
    <3>1. c.r = cur /\ n.scope \in Scope
      BY <1>1, <1>2, <1>3, <1>7, <2>3 DEF CallsOwned
    <3>2. n.step = "settle" /\ n.outcome = "commit" =>
            /\ ~Cleared(cur, n.scope)
            /\ \A b \in Actor : call[b].step = "clear" => call[b].r # cur
            /\ page[cur] # "committed"
      BY <1>3, <1>6, <1>7, <3>1, CopyIsFresh DEF CallOneWay
    <3> QED
      BY <1>1, <1>4, <1>7, <2>1, <2>3, <3>1, <3>2 DEF ProcessorCall
  <2> QED
    BY <2>2, <2>3
<1> QED
  BY <1>1, <1>2, <1>3, <1>4, <1>5, <1>6, <1>8, <1>9, <1>10, WaysAroundCall

\* A run that is to patch the state knows that both counters are settled.
LEMMA WaysState ==
  ASSUME TokensInv, WaysInv, NEW a \in Actor, CallState(a), UNCHANGED << event, queueVars, workVars >>
  PROVE  WaysInv'
<1> USE DEF counterVars, queueVars, workVars
<1>1. PICK c : c = call[a]
  OBVIOUS
<1>2. c.step = "state"
  BY <1>1 DEF CallState
<1>3. /\ c \in Call /\ c.r \in Reservation /\ Scopes(c.r) \subseteq Scope /\ Straight(c.r)
      /\ CallOneWay(c) /\ c.outcome \in Outcome /\ Stage(c.r) /\ ~(Applied(c.r) /\ Dropped(c.r))
      /\ ReservationsOK /\ CallsOwned /\ CurOwned /\ pc[c.r] \notin Early
  BY <1>1, <1>2, CallKnows DEF TokensInv, Control, ShapeOK
<1>4. /\ UNCHANGED << counterVars, doc, delta, settled >>
      /\ state' = [state EXCEPT ![c.r] = c.terminal]
  BY <1>1 DEF CallState
<1>5. PICK n : call' = [call EXCEPT ![a] = n] /\ n = [c EXCEPT !.step = "clear"]
  BY <1>1 DEF CallState
<1>6. \A q \in Reservation :
        /\ Written(q)' = Written(q) /\ Scopes(q)' = Scopes(q) /\ KeyOf(q)' = KeyOf(q)
        /\ SameTokens(q) /\ (q # c.r => state'[q] = state[q]) /\ Flagged(q)' = Flagged(q)
  BY <1>3, <1>4 DEF Written, Flagged, Scopes, AuthorScope, KeyOf, SameTokens, ReservationsOK
<1>7. /\ n.r = c.r /\ n.outcome = c.outcome /\ n.terminal = c.terminal /\ n.delta = c.delta
      /\ n.step = "clear" /\ state'[c.r] = c.terminal
  BY <1>3, <1>4, <1>5 DEF Call, ReservationsOK
<1>8. Flagged(c.r)
  BY <1>1, <1>2 DEF TokensInv, CallsInOrder, Flagged, Scopes
<1>9. \/ c.outcome = "commit" /\ c.terminal = "committed" /\ Applied(c.r)
      \/ c.outcome = "cancel" /\ c.terminal \in {"cancelled", "rejected"} /\ Dropped(c.r)
  BY <1>2, <1>3 DEF CallOneWay, Outcome
<1>10. /\ Applied(c.r) => Applied(c.r)' /\ state'[c.r] = "committed"
       /\ Dropped(c.r) => Dropped(c.r)' /\ state'[c.r] \in {"cancelled", "rejected"}
       /\ state'[c.r] \in Terminal
  BY <1>3, <1>7, <1>9 DEF Applied, Dropped, Terminal
<1>11. CallOneWay(n)'
  BY <1>2, <1>3, <1>4, <1>6, <1>7, <1>8, <1>10 DEF CallOneWay
<1>12. Stage(c.r)' /\ (Applied(c.r)' => Applied(c.r)) /\ (Dropped(c.r)' => Dropped(c.r))
  BY <1>3, <1>6, <1>7, <1>9 DEF Stage, Applied, Dropped, Written, Terminal
<1>13. Straight(c.r)'
  <2>1. Placed(c.r)'
    BY <1>3, <1>12 DEF Straight, Placed, Early
  <2>2. Covered(c.r)'
    BY <1>3, <1>4, <1>6, <1>7, <1>9 DEF Straight, Covered, Applied, Written
  <2>3. Exact(c.r)' /\ Backed(c.r)'
    BY <1>3, <1>10 DEF Exact, Backed, Early, Terminal
  <2>4. TokensOneWay(c.r)'
    BY <1>3, <1>4, <1>6, <1>10 DEF Straight, TokensOneWay, Terminal
  <2>5. PageOneWay(c.r)'
    BY <1>3, <1>9, <1>10 DEF Straight, PageOneWay, Applied, Dropped, Stage
  <2>6. ClearedLast(c.r)'
    BY <1>3, <1>4, <1>6, <1>8 DEF Straight, ClearedLast
  <2> QED
    BY <2>1, <2>2, <2>3, <2>4, <2>5, <2>6 DEF Straight
<1>14. Upserting'
  <2>1. ASSUME cur \in Reservation PROVE UpsertAt(pc[Processor], cur)'
    <3>1. UpsertAt(pc[Processor], cur)
      BY <2>1 DEF WaysInv, Upserting
    <3>2. CASE cur = c.r
      BY <1>3, <1>6, <1>9, <1>10, <3>1, <3>2 DEF UpsertAt, Applied, Dropped, Written
    <3>3. CASE cur # c.r
      BY <1>6, <2>1, <3>1, <3>3 DEF UpsertAt
    <3> QED
      BY <3>2, <3>3
  <2> QED
    BY <2>1 DEF Upserting
<1>15. ProcessorCall'
  <2>1. /\ ProcessorCall
        /\ a = Processor => call'[Processor] = n /\ call[Processor] = c
        /\ a # Processor => call'[Processor] = call[Processor]
        /\ \A b \in Actor : call'[b].r = call[b].r /\ (b # a => call'[b] = call[b])
        /\ call'[a].step = "clear" /\ \A s \in Scope : Cleared(cur, s)' = Cleared(cur, s)
    BY <1>1, <1>3, <1>4, <1>5, <1>7, KeysDiffer DEF WaysInv, ReservationsOK, Cleared
  <2>2. CASE a = Processor
    <3>1. c.r = cur
      BY <1>1, <1>2, <1>3, <2>2 DEF CallsOwned
    <3> QED
      BY <1>1, <1>7, <1>10, <2>1, <2>2, <3>1 DEF ProcessorCall
  <2>3. CASE a # Processor
    <3>1. PICK k : k = call[Processor]
      OBVIOUS
    <3>2. k.step # "off" => k.r = cur /\ cur \in Reservation /\ k.scope \in Scope /\ CallOneWay(k)
      BY <1>3, <3>1, KeysDiffer, CallKnows DEF CallsOwned
    <3>3. CASE c.r = cur /\ k.step # "off"
      <4>1. k.outcome = "commit" => state'[cur] = "committed"
        BY <1>10, <3>2, <3>3 DEF CallOneWay
      <4> QED
        BY <1>4, <1>10, <2>1, <2>3, <3>1, <3>3, <4>1 DEF ProcessorCall
    <3>4. CASE c.r # cur /\ k.step # "off"
      <4>1. state'[cur] = state[cur] /\ (Cleared(cur, k.scope)' = Cleared(cur, k.scope))
        BY <1>6, <2>1, <3>2, <3>4
      <4>2. \A b \in Actor : call'[b].r = cur => b # a
        BY <1>1, <2>1, <3>4
      <4> QED
        BY <1>4, <2>1, <2>3, <3>1, <4>1, <4>2 DEF ProcessorCall
    <3>5. CASE k.step = "off"
      BY <2>1, <2>3, <3>1, <3>5 DEF ProcessorCall
    <3> QED
      BY <3>3, <3>4, <3>5
  <2> QED
    BY <2>2, <2>3
<1> QED
  BY <1>1, <1>2, <1>3, <1>4, <1>5, <1>6, <1>8, <1>10, <1>11, <1>13, <1>14, <1>15, WaysAroundCall

\* Clearing a settlement token, after the document says it all.
LEMMA WaysClear ==
  ASSUME TokensInv, WaysInv, NEW a \in Actor, CallClear(a), UNCHANGED << event, queueVars, workVars >>
  PROVE  WaysInv'
<1> USE DEF reservationVars, queueVars, workVars
<1>1. PICK c : c = call[a]
  OBVIOUS
<1>2. c.step = "clear"
  BY <1>1 DEF CallClear
<1>3. /\ c \in Call /\ c.r \in Reservation /\ Scopes(c.r) \subseteq Scope /\ Straight(c.r)
      /\ CallOneWay(c) /\ c.outcome \in Outcome /\ c.scope \in Scope
      /\ ReservationsOK /\ CallsOwned /\ TokensOK
  BY <1>1, <1>2, CallKnows DEF TokensInv, Control, ShapeOK
<1>4. /\ UNCHANGED << reservationTokens, reservationVars >>
      /\ settlementTokens' = [settlementTokens EXCEPT ![c.scope] = @ \ {<<c.r, c.outcome>>}]
  BY <1>1 DEF CallClear, ClearSettlement
<1>5. PICK n : /\ call' = [call EXCEPT ![a] = n]
               /\ n = IF c.scope = Global THEN [c EXCEPT !.scope = AuthorScope(c.r)]
                      ELSE [c EXCEPT !.step = "done"]
  BY <1>1 DEF CallClear
<1>6. \A q \in Reservation :
        /\ Written(q)' = Written(q) /\ Applied(q)' = Applied(q) /\ Dropped(q)' = Dropped(q)
        /\ Scopes(q)' = Scopes(q) /\ KeyOf(q)' = KeyOf(q) /\ Stage(q)' = Stage(q)
        /\ Flagged(q)' = Flagged(q) /\ (q # c.r => SameTokens(q))
  BY <1>3, <1>4 DEF Written, Applied, Dropped, Flagged, Scopes, AuthorScope, KeyOf, Stage, SameTokens,
    TokensOK
<1>7. /\ n.r = c.r /\ n.outcome = c.outcome /\ n.terminal = c.terminal /\ n.delta = c.delta
      /\ n.step \in {"clear", "done"}
  BY <1>2, <1>3, <1>5 DEF Call
<1>8. Flagged(c.r)
  BY <1>2, <1>3 DEF CallOneWay
<1>9. \A s \in Scope, o \in Outcome :
        <<c.r, o>> \in settlementTokens'[s] => <<c.r, o>> \in settlementTokens[s]
  BY <1>3, <1>4 DEF TokensOK
<1>10. CallOneWay(n)'
  BY <1>2, <1>3, <1>4, <1>6, <1>7, <1>8 DEF CallOneWay
<1>11. Straight(c.r)'
  <2>1. Placed(c.r)' /\ Covered(c.r)' /\ Exact(c.r)' /\ Backed(c.r)'
    BY <1>3, <1>4, <1>6 DEF Straight, Placed, Covered, Exact, Backed, Wins
  <2>2. TokensOneWay(c.r)' /\ PageOneWay(c.r)' /\ ClearedLast(c.r)'
    BY <1>3, <1>4, <1>6, <1>8, <1>9 DEF Straight, TokensOneWay, PageOneWay, ClearedLast, Outcome
  <2> QED
    BY <2>1, <2>2 DEF Straight
<1>12. ProcessorCall'
  <2>1. /\ ProcessorCall
        /\ a = Processor => call'[Processor] = n /\ call[Processor] = c
        /\ a # Processor => call'[Processor] = call[Processor]
        /\ \A b \in Actor : call'[b].r = call[b].r /\ (call'[b].step = "clear" => call[b].step = "clear")
    BY <1>1, <1>2, <1>3, <1>4, <1>5, <1>7, KeysDiffer DEF WaysInv, ReservationsOK
  <2>2. CASE a = Processor
    BY <1>1, <1>2, <1>4, <1>7, <2>1, <2>2 DEF ProcessorCall
  <2>3. CASE a # Processor
    <3>1. PICK k : k = call[Processor]
      OBVIOUS
    <3>2. k.step # "off" => k.r = cur /\ cur \in Reservation /\ k.scope \in Scope
      BY <1>3, <3>1, KeysDiffer, CallKnows DEF CallsOwned
    <3>3. CASE c.r = cur /\ k.step = "settle" /\ k.outcome = "commit"
      <4>1. state'[cur] = "committed"
        BY <1>1, <1>2, <1>4, <2>1, <3>1, <3>3 DEF ProcessorCall
      <4> QED
        BY <1>4, <2>1, <2>3, <3>1, <3>3, <4>1 DEF ProcessorCall
    <3>4. CASE c.r # cur /\ k.step = "settle" /\ k.outcome = "commit"
      <4>1. state'[cur] = state[cur] /\ (Cleared(cur, k.scope)' = Cleared(cur, k.scope))
        BY <1>4, <1>6, <3>2, <3>4 DEF Cleared, SameTokens, Outcome
      <4> QED
        BY <1>4, <2>1, <2>3, <3>1, <4>1 DEF ProcessorCall
    <3>5. CASE ~(k.step = "settle" /\ k.outcome = "commit")
      BY <1>4, <2>1, <2>3, <3>1, <3>5 DEF ProcessorCall
    <3> QED
      BY <3>3, <3>4, <3>5
  <2> QED
    BY <2>2, <2>3
<1> QED
  BY <1>1, <1>2, <1>3, <1>4, <1>5, <1>6, <1>8, <1>9, <1>10, <1>11, <1>12, WaysAroundCall

\* Every step of a run of finalize or cancel.
LEMMA WaysCall ==
  ASSUME OutcomeInv, TokensInv, WaysInv, Settlement
  PROVE  WaysInv'
<1>1. PICK a \in Actor : CallNext(a) /\ UNCHANGED << event, queueVars, workVars >>
  BY DEF Settlement
<1> QED
  BY <1>1, WaysRead, WaysSettle, WaysFlag, WaysState, WaysClear DEF CallNext

\* A step of an upsert concerns the reservation it is for.
LEMMA WaysAroundUpsert ==
  ASSUME TokensInv, QueueInv, WaysInv, UpsertMoves, NEW r \in Reservation, r = cur,
         NEW l, l = pc'[Processor],
         NEW n, n = call'[Processor], n.step = "off" \/ (n.step = "read" /\ CallOneWay(n)'),
         l = "settling" => n.outcome = "commit", l = "cancel" => n.outcome = "cancel",
         Applied(r) => Applied(r)' /\ delta'[r] = delta[r],
         Dropped(r) => Dropped(r)',
         Straight(r)', UpsertAt(l, r)', AtHome'
  PROVE  WaysInv'
<1> USE DEF counterVars
<1>0. /\ Control /\ PoolOK /\ PcOK /\ ReservationsOK /\ ReservationTokensOwned /\ DocKnown
      /\ CallsOwned /\ CurOwned /\ VisitOwned /\ OneWay /\ Retiring
      /\ \A q \in Reservation : q \in OpKey /\ q # Processor /\ q \in Actor
      /\ Processor \in Actor /\ Job \in Actor /\ Processor # Job
  BY KeysDiffer DEF TokensInv, Control, ShapeOK, WaysInv
<1>1. /\ pc' = [pc EXCEPT ![Processor] = l] /\ call' = [call EXCEPT ![Processor] = n]
      /\ UNCHANGED << counterVars, settled, cur, todo, page, visit >>
      /\ phase[r] \notin {"none", "gone"}
      /\ pc[Processor] \in UpsertPc \ {"remove"}
  BY <1>0 DEF UpsertMoves, CurOwned, UpsertPc
<1>2. doc'[r].event = doc[r].event /\ \A q \in Reservation : q # r => doc'[q] = doc[q]
  BY <1>0, <1>1, RejectKeeps DEF UpsertMoves, DocKnown, ReservationsOK
<1>3. \A q \in Reservation : Scopes(q)' = Scopes(q) /\ SameTokens(q)
  BY <1>1, <1>2 DEF Scopes, AuthorScope, SameTokens
<1>4. ASSUME NEW q \in Reservation, q # r PROVE Steady(q) /\ Straight(q)'
  <2>1. ~Begun(q)
    BY <1>0, <1>1, <1>4, Front DEF UpsertPc
  <2>2. Steady(q)
    BY <1>0, <1>1, <1>2, <1>4, <2>1 DEF Steady, UpsertMoves, PoolOK, ReservationsOK
  <2> QED
    BY <1>0, <1>1, <1>3, <2>2, StraightSteady DEF WaysInv
<1>5. OneWay'
  <2>1. ASSUME NEW b \in Actor, NEW k, k = call'[b], k.step # "off" PROVE CallOneWay(k)'
    <3>1. CASE b = Processor
      BY <1>0, <2>1, <3>1
    <3>2. CASE b # Processor
      <4>1. call[b] = k /\ CallOneWay(k) /\ k.r \in Reservation
        BY <1>0, <1>1, <2>1, <3>2, CallHolds DEF OneWay, ReservationsOK
      <4>2. CASE k.r # r
        <5>1. Steady(k.r)
          BY <1>4, <4>1, <4>2
        <5> QED
          BY <4>1, <5>1, SteadyMeans, CallKept DEF Steady
      <4>3. CASE k.r = r
        <5>1. Flagged(r)' = Flagged(r) /\ phase[r] # "gone"
          BY <1>1, <1>3 DEF Flagged
        <5> QED
          BY <4>1, <4>3, <5>1, CallKept
      <4> QED
        BY <4>2, <4>3
    <3> QED
      BY <3>1, <3>2
  <2>2. \A b \in Actor : call'[b].step # "off" => CallOneWay(call[b])'
    <3> SUFFICES ASSUME NEW b \in Actor, call'[b].step # "off" PROVE CallOneWay(call[b])'
      OBVIOUS
    <3>1. PICK k : k = call'[b]
      OBVIOUS
    <3>2. CallOneWay(k)'
      BY <2>1, <3>1
    <3> QED
      BY <3>1, <3>2
  <2> QED
    BY <2>2 DEF OneWay
<1>6. ProcessorCall'
  BY <1>1 DEF ProcessorCall
<1>7. Retiring'
  <2>1. pc'[Job] = pc[Job]
    BY <1>0, <1>1 DEF PoolOK
  <2>2. pc[Job] = "terminal" => Scopes(visit)' = Scopes(visit)
    BY <1>0, <1>1, <1>3 DEF VisitOwned
  <2> QED
    BY <1>0, <1>1, <2>1, <2>2 DEF Retiring
<1>8. Upserting'
  BY <1>1 DEF Upserting
<1>9. \A q \in Reservation : Straight(q)'
  BY <1>4
<1> QED
  BY <1>9, <1>5, <1>6, <1>7, <1>8 DEF WaysInv

\* Steps of processManifestUpsert.
LEMMA WaysUpsert ==
  ASSUME TokensInv, QueueInv, WaysInv, Upsert
  PROVE  WaysInv'
<1> USE DEF counterVars, reservationVars, queueVars, At, Then, Patch, Invoke
<1>0. /\ Control /\ PoolOK /\ PcOK /\ ReservationsOK /\ ReservationTokensOwned /\ DocKnown
      /\ CallsOwned /\ CurOwned /\ ProcessorCall /\ AtHome
      /\ Processor \in Actor
  BY KeysDiffer DEF TokensInv, Control, ShapeOK, WaysInv
<1>1. UpsertMoves
  BY <1>0, UpsertStepMoves
<1>21. PICK r : r = cur
  OBVIOUS
<1>2. /\ r = cur /\ r \in Reservation /\ r \in OpKey /\ r \in Actor /\ r # Processor
      /\ phase[r] \notin {"none", "gone"} /\ doc[r] \in Doc
      /\ doc[r].event \in Event /\ KeyOf(r) \in Ref
      /\ Straight(r) /\ Stage(r) /\ pc[r] = "done" /\ UpsertAt(pc[Processor], r)
      /\ AuthorScope(r) \in Author /\ Scopes(r) \subseteq Scope
  <2>1. r \in Reservation /\ phase[r] \notin {"none", "gone"}
    BY <1>0, <1>1, <1>21 DEF UpsertMoves, CurOwned, UpsertPc
  <2>2. Straight(r) /\ UpsertAt(pc[Processor], r)
    BY <1>21, <2>1 DEF WaysInv, Upserting
  <2> QED
    BY <1>0, <1>21, <2>1, <2>2, KeysDiffer, ScopesKnown DEF Straight, Placed
<1>3. PICK l : l = pc'[Processor]
  OBVIOUS
<1>4. PICK n : n = call'[Processor]
  OBVIOUS
<1>5. /\ pc' = [pc EXCEPT ![Processor] = l] /\ pc'[r] = pc[r] /\ cur' = cur /\ page' = page
      /\ UNCHANGED << counterVars, settled >>
      /\ pc[Processor] \notin {"cancel", "settling"} /\ call' = call => n.step = "off"
  BY <1>0, <1>1, <1>2, <1>3, <1>4 DEF UpsertMoves, CallsOwned, PoolOK
<1>6. /\ NoCall.step = "off"
      /\ Finalize(r).step = "read" /\ Finalize(r).r = r /\ Finalize(r).outcome = "commit"
      /\ Finalize(r).terminal = "committed"
      /\ \A t \in {"cancelled", "rejected"} :
           /\ Cancel(r, t).step = "read" /\ Cancel(r, t).r = r /\ Cancel(r, t).outcome = "cancel"
           /\ Cancel(r, t).terminal = t
  BY DEF NoCall, Cancel, Finalize
<1>7. ASSUME UNCHANGED << phase, state, doc, delta, event >>,
             n.step = "off" \/ (n.step = "read" /\ n.r = r /\ CallOneWay(n)),
             l = "settling" => n.outcome = "commit", l = "cancel" => n.outcome = "cancel",
             UpsertAt(l, r)
      PROVE  WaysInv'
  <2>1. Steady(r) /\ SameTokens(r)
    BY <1>5, <1>7 DEF Steady, SameTokens
  <2>2. Straight(r)'
    BY <1>0, <1>2, <1>5, <2>1, StraightSteady
  <2>3. /\ Applied(r)' = Applied(r) /\ Dropped(r)' = Dropped(r) /\ Written(r)' = Written(r)
        /\ Flagged(r)' = Flagged(r)
    BY <2>1, <1>2, SteadyMeans
  <2>4. UpsertAt(l, r)' /\ AtHome'
    BY <1>0, <1>5, <1>7, <2>3 DEF UpsertAt, AtHome
  <2>5. n.step # "off" => CallOneWay(n)'
    BY <1>2, <1>7, <2>3, CallKept
  <2> QED
    BY <1>1, <1>2, <1>3, <1>4, <1>7, <2>2, <2>3, <2>4, <2>5, WaysAroundUpsert
<1>8. CASE UpsertOpen
  <2>1. UNCHANGED << phase, state, doc, delta, event >>
    BY <1>8 DEF UpsertOpen
  <2>2. CASE state[r] \in Terminal \cup {"absent"} /\ l = "remove" /\ call' = call
    <3>1. UpsertAt(l, r)
      BY <1>2, <2>2, WaysApart DEF UpsertAt
    <3>2. n.step = "off"
      BY <1>5, <1>8, <2>2 DEF UpsertOpen
    <3> QED
      BY <1>7, <2>1, <2>2, <3>1, <3>2
  <2>3. CASE state[r] = "cancel_required" /\ n = Cancel(r, "cancelled") /\ l = "cancel"
    <3>1. UpsertAt(l, r)
      BY <1>2, <2>3 DEF UpsertAt, Stage
    <3>2. CallOneWay(n)
      BY <1>6, <2>3 DEF CallOneWay, Dropped
    <3> QED
      BY <1>6, <1>7, <2>1, <2>3, <3>1, <3>2
  <2>4. CASE /\ state[r] \in Live \ {"cancel_required"} /\ call' = call
             /\ l = CASE phase[r] = "queued" -> "check"
                      [] phase[r] = "prepared" -> "apply"
                      [] phase[r] = "event_applied" -> "finalize"
                      [] OTHER -> "remove"
    <3>1. UpsertAt(l, r) /\ l \notin {"settling", "cancel"}
      BY <1>2, <2>4 DEF UpsertAt, Stage, Live
    <3>2. n.step = "off"
      BY <1>5, <1>8, <2>4 DEF UpsertOpen
    <3> QED
      BY <1>7, <2>1, <3>1, <3>2
  <2>5. \/ state[r] \in Terminal \cup {"absent"} /\ l = "remove" /\ call' = call
        \/ state[r] = "cancel_required" /\ n = Cancel(r, "cancelled") /\ l = "cancel"
        \/ /\ state[r] \in Live \ {"cancel_required"} /\ call' = call
           /\ l = CASE phase[r] = "queued" -> "check"
                    [] phase[r] = "prepared" -> "apply"
                    [] phase[r] = "event_applied" -> "finalize"
                    [] OTHER -> "remove"
    BY <1>0, <1>2, <1>3, <1>4, <1>8 DEF UpsertOpen, PoolOK, ReservationsOK
  <2> QED
    BY <2>2, <2>3, <2>4, <2>5
<1>9. CASE UpsertFinalize
  <2>1. n = Finalize(r) /\ l = "settling" /\ UNCHANGED << phase, state, doc, delta, event >>
    BY <1>0, <1>2, <1>3, <1>4, <1>9 DEF UpsertFinalize, PoolOK, ReservationsOK
  <2>2. phase[r] = "event_applied" /\ Written(r)
    BY <1>2, <1>9 DEF UpsertFinalize, UpsertAt, Stage
  <2>3. CallOneWay(n)
    BY <1>6, <2>1, <2>2 DEF CallOneWay, Applied
  <2> QED
    BY <1>6, <1>7, <2>1, <2>2, <2>3 DEF UpsertAt
<1>10. CASE UpsertFinalized
  <2>1. n = NoCall /\ l \in {"phase3", "failed"} /\ UNCHANGED << phase, state, doc, delta, event >>
    BY <1>0, <1>3, <1>4, <1>10 DEF UpsertFinalized, PoolOK, ReservationsOK
  <2>2. phase[r] = "event_applied" /\ state[r] \in Terminal
    BY <1>0, <1>2, <1>10 DEF UpsertFinalized, UpsertAt, ProcessorCall, Finished
  <2>3. state[r] = "committed"
    BY <1>2, <2>2 DEF Stage, Terminal
  <2> QED
    BY <1>6, <1>7, <2>1, <2>2, <2>3 DEF UpsertAt
<1>11. CASE UpsertCancelled
  <2>1. n = NoCall /\ l = "remove" /\ UNCHANGED << phase, state, doc, delta, event >>
    BY <1>0, <1>3, <1>4, <1>11 DEF UpsertCancelled, PoolOK, ReservationsOK
  <2>2. state[r] \in Terminal
    BY <1>0, <1>2, <1>11 DEF UpsertCancelled, ProcessorCall, Finished
  <2> QED
    BY <1>6, <1>7, <2>1, <2>2 DEF UpsertAt
<1>12. CASE UpsertFailed
  <2>1. /\ UNCHANGED << phase, state, doc, delta, event >> /\ n.step = "off"
        /\ state[r] = "committed"
    BY <1>2, <1>5, <1>12 DEF UpsertFailed, UpsertAt
  <2>2. l = "remove"
    BY <1>0, <1>2, <1>3, <1>12, <2>1 DEF UpsertFailed, PoolOK, Terminal
  <2> QED
    BY <1>7, <2>1, <2>2 DEF UpsertAt, Terminal
<1>13. CASE UpsertCompensate
  BY <1>2, <1>13 DEF UpsertCompensate, UpsertAt
<1>22. /\ doc'[r].event = doc[r].event /\ doc'[r].reserved = doc[r].reserved
       /\ KeyOf(r)' = KeyOf(r) /\ Scopes(r)' = Scopes(r)
       /\ Candidate = doc[r].event /\ Current = event[KeyOf(r)]
       /\ ~Wins(Candidate, Candidate)
  <2>1. doc'[r].event = doc[r].event /\ doc'[r].reserved = doc[r].reserved
    BY <1>0, <1>1, <1>2, RejectKeeps DEF UpsertMoves, ReservationsOK
  <2>2. ~Wins(Candidate, Candidate)
    BY <1>2, PoolAssumption DEF Wins, Candidate
  <2> QED
    BY <1>2, <2>1, <2>2 DEF KeyOf, Scopes, AuthorScope, Candidate, Current
<1>23. SameTokens(r) /\ Flagged(r)' = Flagged(r)
  BY <1>5, <1>22 DEF SameTokens, Flagged
\* Before phase 1 nothing was written or settled.
<1>24. ASSUME phase[r] = "queued", state[r] \in {"reserved", "prepared"}
       PROVE  /\ ~Written(r) /\ ~Applied(r) /\ ~Dropped(r)
              /\ \A s \in Scope, o \in Outcome : <<r, o>> \notin settlementTokens[s]
              /\ page[r] \notin {"cancel_required", "committed", "cancelled", "rejected"}
              /\ \A s \in Scopes(r) : r \in reservationTokens[s]
  <2>1. ~Written(r) /\ ~Applied(r) /\ ~Dropped(r)
    BY <1>24 DEF Written, Applied, Dropped
  <2> QED
    BY <1>2, <1>24, <2>1 DEF Straight, TokensOneWay, PageOneWay, Backed, Outcome
\* What is left to show for steps that keep the operation queued.
<1>25. ASSUME phase[r] = "queued", state[r] = "reserved", phase' = phase, event' = event,
              state'[r] = "cancel_required", l = "cancel",
              \E o \in {"cancelled", "rejected"} : n = Cancel(r, o)
       PROVE  WaysInv'
  <2>1. /\ ~Written(r)' /\ ~Applied(r)' /\ Dropped(r)' /\ Stage(r)'
    BY <1>2, <1>25 DEF Written, Applied, Dropped, Stage
  <2>2. Straight(r)'
    <3>1. Placed(r)' /\ Covered(r)' /\ Exact(r)' /\ Backed(r)'
      BY <1>2, <1>5, <1>25, <2>1 DEF Placed, Covered, Exact, Backed
    <3>2. TokensOneWay(r)' /\ PageOneWay(r)' /\ ClearedLast(r)'
      BY <1>2, <1>5, <1>22, <1>23, <1>24, <1>25, <2>1
        DEF Straight, TokensOneWay, PageOneWay, ClearedLast, Outcome
    <3> QED
      BY <3>1, <3>2 DEF Straight
  <2>3. UpsertAt(l, r)' /\ AtHome'
    BY <1>0, <1>25 DEF UpsertAt, AtHome
  <2>4. n.step = "read" /\ n.outcome = "cancel" /\ CallOneWay(n)'
    BY <1>6, <1>25, <2>1 DEF CallOneWay
  <2> QED
    BY <1>1, <1>2, <1>3, <1>4, <1>24, <1>25, <2>1, <2>2, <2>3, <2>4, WaysAroundUpsert
<1>14. CASE UpsertCheck
  <2>1. /\ phase[r] = "queued" /\ state[r] \in {"reserved", "prepared"}
        /\ phase' = phase /\ event' = event
    BY <1>2, <1>14 DEF UpsertCheck, UpsertAt
  <2>2. CASE (Current = Candidate \/ Wins(Current, Candidate)) /\ MarkAndCancel
    <3>1. state[r] = "reserved"
      BY <1>2, <1>22, <1>24, <2>1, <2>2 DEF Straight, Exact
    <3>2. state'[r] = "cancel_required" /\ l = "cancel" /\ n = Cancel(r, "cancelled")
      BY <1>0, <1>2, <1>3, <1>4, <2>2 DEF MarkAndCancel, ReservationsOK, PoolOK
    <3> QED
      BY <1>25, <2>1, <3>1, <3>2
  <2>3. CASE /\ Current # Candidate /\ ~Wins(Current, Candidate) /\ Exceeds
             /\ Patch(r, "cancel_required") /\ Invoke(Processor, Cancel(r, "rejected"))
             /\ Then("cancel")
    <3>1. state[r] = "reserved"
      <4>1. state[r] = "prepared" => delta[r].bytes = Actual.bytes /\ delta[r].count = Actual.count
        BY <1>2, <1>22, <1>24, <2>1 DEF Straight, Exact, Actual
      <4>2. state[r] = "prepared" =>
              /\ delta[r].bytes <= doc[r].reserved.bytes /\ delta[r].count <= doc[r].reserved.count
              /\ delta[r] \in Amount
        BY <1>0, <1>2 DEF Straight, Covered, ReservationsOK
      <4> QED
        BY <1>2, <2>1, <2>3, <4>1, <4>2 DEF Exceeds, Amount, Doc
    <3>2. state'[r] = "cancel_required" /\ l = "cancel" /\ n = Cancel(r, "rejected")
      BY <1>0, <1>2, <1>3, <1>4, <2>3 DEF ReservationsOK, PoolOK
    <3> QED
      BY <1>25, <2>1, <3>1, <3>2
  <2>4. CASE /\ Current # Candidate /\ ~Wins(Current, Candidate) /\ ~Exceeds
             /\ Patch(r, "prepared") /\ delta' = [delta EXCEPT ![r] = Actual]
             /\ Then("phase1") /\ call' = call
    <3>1. state'[r] = "prepared" /\ l = "phase1" /\ n.step = "off" /\ delta'[r] = Actual
      BY <1>0, <1>2, <1>3, <1>5, <1>14, <2>4 DEF UpsertCheck, ReservationsOK, PoolOK
    <3>2. /\ Actual \in Amount /\ Actual # None
          /\ Actual.bytes <= doc[r].reserved.bytes /\ Actual.count <= doc[r].reserved.count
      <4>1. Current \in Event \cup {None} /\ Candidate \in Event
        BY <1>0, <1>2, <1>22 DEF PoolOK
      <4>2. Actual \in Amount
        BY <4>1, EventAssumption DEF Actual, Amount
      <4>3. /\ Actual.bytes \in Int /\ Actual.count \in Int
            /\ doc[r].reserved.bytes \in Int /\ doc[r].reserved.count \in Int
        BY <1>2, <4>2 DEF Amount, Doc
      <4> QED
        BY <1>2, <2>4, <4>2, <4>3, MissingAssumption DEF Exceeds
    <3>3. ~Written(r)' /\ ~Applied(r)' /\ ~Dropped(r)' /\ Stage(r)'
      BY <1>2, <2>1, <3>1 DEF Written, Applied, Dropped, Stage
    <3>4. Straight(r)'
      <4>1. Placed(r)' /\ Backed(r)'
        BY <1>2, <1>5, <1>22, <1>24, <2>1, <3>1, <3>3 DEF Placed, Backed
      <4>2. Covered(r)'
        BY <1>22, <3>1, <3>2 DEF Covered
      <4>3. Exact(r)'
        BY <1>22, <2>1, <2>4, <3>1 DEF Exact, Actual, Wins
      <4>4. TokensOneWay(r)' /\ PageOneWay(r)' /\ ClearedLast(r)'
        BY <1>2, <1>5, <1>22, <1>23, <1>24, <2>1, <3>1, <3>3
          DEF Straight, TokensOneWay, PageOneWay, ClearedLast, Outcome
      <4> QED
        BY <4>1, <4>2, <4>3, <4>4 DEF Straight
    <3>5. UpsertAt(l, r)' /\ AtHome'
      BY <1>0, <2>1, <3>1 DEF UpsertAt, AtHome
    <3> QED
      BY <1>1, <1>2, <1>3, <1>4, <1>24, <2>1, <3>1, <3>3, <3>4, <3>5, WaysAroundUpsert
  <2> QED
    BY <1>2, <1>14, <2>2, <2>3, <2>4 DEF UpsertCheck
<1>15. CASE PatchOp("phase1", "prepared", "apply")
  <2>1. /\ phase[r] = "queued" /\ state[r] = "prepared" /\ phase'[r] = "prepared"
        /\ UNCHANGED << state, delta, doc, event >> /\ l = "apply" /\ n.step = "off"
    BY <1>0, <1>2, <1>3, <1>5, <1>15 DEF PatchOp, UpsertAt, PoolOK
  <2>2. event[KeyOf(r)] # doc[r].event
    BY <1>2, <1>24, <2>1 DEF Straight, Exact
  <2>3. ~Written(r)' /\ ~Applied(r)' /\ ~Dropped(r)' /\ Stage(r)'
    BY <1>22, <2>1, <2>2 DEF Written, Applied, Dropped, Stage, KeyOf
  <2>4. Straight(r)'
    <3>1. Placed(r)' /\ Backed(r)' /\ Covered(r)' /\ Exact(r)'
      BY <1>2, <1>5, <1>22, <1>24, <2>1, <2>3 DEF Straight, Placed, Backed, Covered, Exact, Wins
    <3>2. TokensOneWay(r)' /\ PageOneWay(r)' /\ ClearedLast(r)'
      BY <1>2, <1>5, <1>22, <1>23, <1>24, <2>1, <2>3
        DEF Straight, TokensOneWay, PageOneWay, ClearedLast, Outcome
    <3> QED
      BY <3>1, <3>2 DEF Straight
  <2>5. UpsertAt(l, r)' /\ AtHome'
    BY <1>0, <2>1 DEF UpsertAt, AtHome
  <2> QED
    BY <1>1, <1>2, <1>3, <1>4, <1>24, <2>1, <2>3, <2>4, <2>5, WaysAroundUpsert
<1>16. CASE UpsertApply
  <2>1. phase[r] = "prepared" /\ ~Dropped(r)
    BY <1>2, <1>16 DEF UpsertApply, UpsertAt, Stage, Dropped
  <2>2. ~Wins(Current, Candidate)
    <3>1. CASE Written(r)
      BY <1>22, <3>1 DEF Written, KeyOf
    <3>2. CASE ~Written(r)
      BY <1>2, <1>22, <2>1, <3>2 DEF Straight, Exact, Stage
    <3> QED
      BY <3>1, <3>2
  <2>3. /\ event' = [event EXCEPT ![KeyOf(r)] = doc[r].event] /\ l = "applied" /\ n.step = "off"
        /\ UNCHANGED << phase, state, doc, delta >>
    BY <1>0, <1>2, <1>3, <1>5, <1>16, <1>22, <2>2 DEF UpsertApply, KeyOf, PoolOK
  <2>4. event'[KeyOf(r)] = doc[r].event
    BY <1>0, <1>2, <2>3 DEF PoolOK
  <2>5. Written(r)' /\ Applied(r)' /\ Stage(r)'
    BY <1>2, <1>22, <2>1, <2>3, <2>4 DEF Written, Applied, Stage, KeyOf
  <2>6. ~Applied(r) => \A s \in Scopes(r) : r \in reservationTokens[s]
    BY <1>2, <2>1 DEF Applied, Straight, Backed, Stage
  <2>7. Straight(r)'
    <3>1. Placed(r)' /\ Backed(r)' /\ Covered(r)' /\ Exact(r)'
      BY <1>2, <1>5, <2>1, <2>3, <2>5 DEF Straight, Placed, Backed, Covered, Exact
    <3>2. TokensOneWay(r)' /\ PageOneWay(r)'
      BY <1>2, <1>5, <1>22, <2>1, <2>3, <2>5 DEF Straight, TokensOneWay, PageOneWay
    <3>3. ClearedLast(r)'
      BY <1>2, <1>5, <1>22, <1>23, <2>3, <2>6 DEF Straight, ClearedLast, Cleared
    <3> QED
      BY <3>1, <3>2, <3>3 DEF Straight
  <2>8. UpsertAt(l, r)'
    BY <2>1, <2>3, <2>5 DEF UpsertAt
  <2>9. AtHome'
    BY <1>0, <1>2, <2>3 DEF AtHome, KeyOf, PoolOK
  <2> QED
    BY <1>1, <1>2, <1>3, <1>4, <2>1, <2>3, <2>5, <2>7, <2>8, <2>9, WaysAroundUpsert
<1>17. CASE UpsertApplied
  <2>1. /\ phase[r] = "prepared" /\ Written(r) /\ state'[r] = "event_applied"
        /\ UNCHANGED << phase, doc, delta, event >> /\ l = "phase2" /\ n.step = "off"
    BY <1>0, <1>2, <1>3, <1>5, <1>17 DEF UpsertApplied, UpsertAt, PoolOK, ReservationsOK
  <2>2. Written(r)' /\ Applied(r)' /\ Stage(r)' /\ Applied(r)
    BY <1>22, <2>1 DEF Written, Applied, Stage
  <2>3. Straight(r)'
    <3>1. Placed(r)' /\ Backed(r)' /\ Covered(r)' /\ Exact(r)'
      BY <1>2, <1>5, <2>1, <2>2 DEF Straight, Placed, Backed, Covered, Exact
    <3>2. TokensOneWay(r)' /\ PageOneWay(r)' /\ ClearedLast(r)'
      BY <1>2, <1>5, <1>22, <1>23, <2>1, <2>2
        DEF Straight, TokensOneWay, PageOneWay, ClearedLast, Cleared, Stage, Dropped
    <3> QED
      BY <3>1, <3>2 DEF Straight
  <2>4. UpsertAt(l, r)' /\ AtHome' /\ ~Dropped(r)
    BY <1>0, <1>2, <2>1, <2>2, WaysApart DEF UpsertAt, AtHome
  <2> QED
    BY <1>1, <1>2, <1>3, <1>4, <2>1, <2>2, <2>3, <2>4, WaysAroundUpsert
<1>18. CASE PatchOp("phase2", "event_applied", "finalize")
  <2>1. /\ phase[r] = "prepared" /\ state[r] # "prepared" /\ phase'[r] = "event_applied"
        /\ UNCHANGED << state, delta, doc, event >> /\ l = "finalize" /\ n.step = "off"
    BY <1>0, <1>2, <1>3, <1>5, <1>18 DEF PatchOp, UpsertAt, PoolOK
  <2>2. Written(r) /\ state[r] \in {"event_applied", "committed"}
    BY <1>2, <2>1 DEF Stage
  <2>3. Written(r)' /\ Applied(r)' /\ Stage(r)' /\ Applied(r)
    BY <1>22, <2>1, <2>2 DEF Written, Applied, Stage
  <2>4. Straight(r)'
    <3>1. Placed(r)' /\ Backed(r)' /\ Covered(r)' /\ Exact(r)'
      BY <1>2, <1>5, <2>1, <2>2, <2>3 DEF Straight, Placed, Backed, Covered, Exact
    <3>2. TokensOneWay(r)' /\ PageOneWay(r)' /\ ClearedLast(r)'
      BY <1>2, <1>5, <1>22, <1>23, <2>1, <2>3, WaysApart
        DEF Straight, TokensOneWay, PageOneWay, ClearedLast, Cleared
    <3> QED
      BY <3>1, <3>2 DEF Straight
  <2>5. UpsertAt(l, r)' /\ AtHome' /\ ~Dropped(r)
    BY <1>0, <1>2, <2>1, <2>3, WaysApart DEF UpsertAt, AtHome
  <2> QED
    BY <1>1, <1>2, <1>3, <1>4, <2>1, <2>3, <2>4, <2>5, WaysAroundUpsert
<1>19. CASE PatchOp("phase3", "accounting_applied", "remove")
  <2>1. /\ phase[r] = "event_applied" /\ state[r] = "committed" /\ phase'[r] = "accounting_applied"
        /\ UNCHANGED << state, delta, doc, event >> /\ l = "remove" /\ n.step = "off"
    BY <1>0, <1>2, <1>3, <1>5, <1>19 DEF PatchOp, UpsertAt, PoolOK
  <2>2. Applied(r)' /\ Stage(r)' /\ Applied(r)
    BY <1>22, <2>1 DEF Written, Applied, Stage
  <2>3. Straight(r)'
    <3>1. Placed(r)' /\ Backed(r)' /\ Covered(r)' /\ Exact(r)'
      BY <1>2, <1>5, <2>1, <2>2 DEF Straight, Placed, Backed, Covered, Exact
    <3>2. TokensOneWay(r)' /\ PageOneWay(r)' /\ ClearedLast(r)'
      BY <1>2, <1>5, <1>22, <1>23, <2>1, <2>2, WaysApart
        DEF Straight, TokensOneWay, PageOneWay, ClearedLast, Cleared
    <3> QED
      BY <3>1, <3>2 DEF Straight
  <2>4. UpsertAt(l, r)' /\ AtHome' /\ ~Dropped(r)
    BY <1>0, <1>2, <2>1, <2>2, WaysApart DEF UpsertAt, AtHome, Terminal
  <2> QED
    BY <1>1, <1>2, <1>3, <1>4, <2>1, <2>2, <2>3, <2>4, WaysAroundUpsert
<1> QED
  BY <1>8, <1>9, <1>10, <1>11, <1>12, <1>13, <1>14, <1>15, <1>16, <1>17, <1>18, <1>19 DEF Upsert

\* A reservation keeps what the runs about it rely on.
Going(r) ==
  /\ Straight(r)'
  /\ Applied(r) => Applied(r)' /\ delta'[r] = delta[r]
  /\ Dropped(r) => Dropped(r)'
  /\ Flagged(r) => Flagged(r)'
  /\ phase[r] = "gone" => phase'[r] = "gone"

\* A steady reservation goes on the way it went.
LEMMA SteadyGoing ==
  ASSUME TokensInv, WaysInv, NEW r \in Reservation, Steady(r), SameTokens(r),
         page'[r] \in {"absent", page[r], state[r]}
  PROVE  Going(r)
<1>1. Straight(r)'
  BY StraightSteady DEF TokensInv, WaysInv
<1> QED
  BY <1>1, SteadyMeans DEF Going, Steady

\* A step that starts or ends a run of finalize or cancel, of one actor.
LEMMA WaysAroundOther ==
  ASSUME TokensInv, WaysInv,
         \A r \in Reservation :
           \/ Going(r)
           \/ Straight(r)' /\ \A b \in Actor : call'[b].step # "off" => call'[b].r # r,
         NEW a \in Actor, NEW n, call' = [call EXCEPT ![a] = n],
         \/ n.step = "off" \/ n = call[a]
         \/ n.step = "read" /\ n.r \in Reservation /\ CallOneWay(n),
         ProcessorCall', Retiring', Upserting', AtHome'
  PROVE  WaysInv'
<1>1. OneWay'
  <2>1. ASSUME NEW b \in Actor, NEW k, k = call'[b], k.step # "off" PROVE CallOneWay(k)'
    <3>1. k.r \in Reservation /\ CallOneWay(k)
      <4>1. CASE call[b] = k
        BY <2>1, <4>1, CallHolds DEF TokensInv, WaysInv, OneWay
      <4>2. CASE call[b] # k
        BY <2>1, <4>2 DEF TokensInv, Control, ShapeOK, ReservationsOK
      <4> QED
        BY <4>1, <4>2
    <3>2. Going(k.r)
      BY <2>1, <3>1
    <3> QED
      BY <3>1, <3>2, CallKept DEF Going
  <2>2. \A b \in Actor : call'[b].step # "off" => CallOneWay(call[b])'
    <3> SUFFICES ASSUME NEW b \in Actor, call'[b].step # "off" PROVE CallOneWay(call[b])'
      OBVIOUS
    <3>1. PICK k : k = call'[b]
      OBVIOUS
    <3>2. CallOneWay(k)'
      BY <2>1, <3>1
    <3> QED
      BY <3>1, <3>2
  <2> QED
    BY <2>2 DEF OneWay
<1>2. \A r \in Reservation : Straight(r)'
  BY DEF Going
<1> QED
  BY <1>1, <1>2 DEF WaysInv

\* Steps of deletions, of the queue and the end of a run of the processor.
LEMMA WaysOther ==
  ASSUME TokensInv, QueueInv, WaysInv,
         \/ Delete \/ Remove \/ ProcessorAbort \/ \E o \in OpKey : Take(o)
         \/ \E d \in Deletion, S \in SUBSET Event : RequestDeletion(d, S)
  PROVE  WaysInv'
<1> USE DEF counterVars, reservationVars, queueVars, At, Then, Invoke
<1>0. /\ Control /\ PoolOK /\ PcOK /\ ReservationsOK /\ CallsOwned /\ CurOwned /\ VisitOwned
      /\ ProcessorCall /\ Upserting /\ Retiring /\ AtHome
      /\ Processor \in Actor /\ Job \in Actor /\ Processor # Job
      /\ \A r \in Reservation : r \in OpKey /\ r \notin Deletion /\ r # Processor
  BY KeysDiffer DEF TokensInv, Control, ShapeOK, WaysInv
<1>1. /\ UNCHANGED << reservationTokens, settlementTokens, settled >>
      /\ \A r \in Reservation : pc'[r] = pc[r] /\ SameTokens(r)
  BY <1>0, ProcessorLeaves DEF ProcessorStep, SameTokens
<1>2. /\ UNCHANGED << reservationVars, page, visit >> /\ pc'[Job] = pc[Job] /\ todo'[Job] = todo[Job]
  <2>1. CASE Delete
    BY <1>0, <2>1 DEF Delete, DeletionSelect, DeletionBegin, DeletionDelete, PatchOp,
      DeletionAccount, DeletionAccounted, DeletionClear, DeletionFinish, Visit, PoolOK
  <2>2. CASE Remove \/ ProcessorAbort
    BY <1>0, <2>2 DEF Remove, ProcessorAbort, PoolOK
  <2>3. CASE \E o \in OpKey : Take(o)
    BY <1>0, <2>3 DEF Take, PoolOK
  <2>4. CASE \E d \in Deletion, S \in SUBSET Event : RequestDeletion(d, S)
    BY <2>4 DEF RequestDeletion, workVars
  <2> QED
    BY <2>1, <2>2, <2>3, <2>4
<1>3. Retiring'
  BY <1>0, <1>1, <1>2 DEF Retiring, Scopes, AuthorScope
<1>4. ASSUME \A r \in Reservation : phase'[r] = phase[r] /\ (Begun(r) => event'[KeyOf(r)] = event[KeyOf(r)]),
             \/ call' = call \/ call' = [call EXCEPT ![Processor] = NoCall],
             ProcessorCall', Upserting', AtHome'
      PROVE  WaysInv'
  <2>1. \A r \in Reservation : Steady(r)
    BY <1>1, <1>2, <1>4 DEF Steady
  <2>2. \A r \in Reservation : Going(r)
    BY <1>1, <1>2, <2>1, SteadyGoing
  <2>3. \E n : call' = [call EXCEPT ![Processor] = n] /\ (n.step = "off" \/ n = call[Processor])
    BY <1>0, <1>4, CallTypes DEF ReservationsOK
  <2> QED
    BY <1>0, <1>3, <1>4, <2>2, <2>3, WaysAroundOther
<1>5. CASE Delete
  <2>1. call' = call /\ pc[Processor] \in DeletionPc /\ cur' = cur
    BY <1>0, <1>5, ControlDelete DEF Delete, DeletionSelect, DeletionBegin, DeletionDelete, PatchOp,
      DeletionAccount, DeletionAccounted, DeletionClear, DeletionFinish
  <2>2. cur \in Deletion /\ cur \in OpKey /\ cur \notin Reservation
    BY <1>0, <2>1 DEF CurOwned, OpKey
  <2>3. \A r \in Reservation : ~Begun(r)
    BY <1>0, <2>1, <2>2, Front DEF DeletionPc
  <2>4. \A r \in Reservation : phase'[r] = phase[r]
    <3>1. \/ phase' = phase
          \/ \E p \in Phase : phase' = [phase EXCEPT ![cur] = p]
      BY <1>5 DEF Delete, DeletionSelect, DeletionBegin, DeletionDelete, PatchOp,
        DeletionAccount, DeletionAccounted, DeletionClear, DeletionFinish, Phase
    <3> QED
      BY <1>0, <2>2, <3>1 DEF PoolOK
  <2>5. pc'[Processor] \in DeletionPc \cup {"remove"}
    BY <1>0, <1>5, <2>1 DEF Delete, DeletionSelect, DeletionBegin, DeletionDelete, PatchOp,
      DeletionAccount, DeletionAccounted, DeletionClear, DeletionFinish, DeletionPc, PoolOK
  <2>6. ProcessorCall'
    BY <1>0, <2>1, <2>5 DEF ProcessorCall, CallsOwned, DeletionPc
  <2>7. Upserting'
    BY <2>1, <2>2 DEF Upserting
  <2>8. AtHome'
    <3>1. event' = event \/ DeletionDelete
      BY <1>5 DEF Delete, DeletionSelect, DeletionBegin, DeletionDelete, PatchOp,
        DeletionAccount, DeletionAccounted, DeletionClear, DeletionFinish
    <3> QED
      BY <1>0, <3>1 DEF DeletionDelete, AtHome
  <2> QED
    BY <1>4, <2>1, <2>3, <2>4, <2>6, <2>7, <2>8
<1>6. CASE Remove
  <2>1. /\ pc[Processor] = "remove" /\ pc'[Processor] = "idle" /\ call' = call /\ event' = event
        /\ cur \in OpKey /\ phase[cur] \notin {"none", "gone"}
        /\ phase' = [phase EXCEPT ![cur] = "gone"]
    BY <1>0, <1>6 DEF Remove, PoolOK, CurOwned
  <2>2. ProcessorCall' /\ Upserting' /\ AtHome'
    BY <1>0, <2>1 DEF ProcessorCall, Upserting, UpsertAt, AtHome, CallsOwned
  <2>3. CASE cur \notin Reservation
    BY <1>0, <1>4, <2>1, <2>2, <2>3
  <2>4. CASE cur \in Reservation
    <3>1. ASSUME NEW q \in Reservation, q # cur PROVE Going(q)
      <4>1. Steady(q)
        BY <1>0, <1>1, <1>2, <2>1, <3>1 DEF Steady
      <4> QED
        BY <1>1, <1>2, <3>1, <4>1, SteadyGoing
    <3>2. PICK r : r = cur
      OBVIOUS
    <3>3. /\ r \in Reservation /\ r \in OpKey /\ phase[r] \notin {"none", "gone"} /\ phase'[r] = "gone"
          /\ state[r] \in Terminal /\ Straight(r) /\ Stage(r) /\ pc[r] = "done"
      <4>1. state[cur] \in Terminal
        BY <1>0, <2>1, <2>4 DEF Upserting, UpsertAt
      <4>2. phase'[cur] = "gone"
        BY <1>0, <2>1 DEF PoolOK
      <4>3. Straight(r)
        BY <2>4, <3>2 DEF WaysInv
      <4> QED
        BY <1>0, <2>1, <2>4, <3>2, <4>1, <4>2, <4>3 DEF Straight, Placed
    <3>4. /\ Applied(r)' = Applied(r) /\ Dropped(r)' = Dropped(r) /\ Stage(r)'
          /\ Flagged(r)' = Flagged(r) /\ Scopes(r)' = Scopes(r)
      BY <1>2, <2>1, <3>3, WaysApart
        DEF Applied, Dropped, Written, Stage, Flagged, Scopes, AuthorScope, Terminal
    <3>5. Straight(r)'
      <4>1. Placed(r)' /\ Covered(r)' /\ Exact(r)' /\ Backed(r)'
        BY <1>1, <1>2, <3>3, <3>4 DEF Straight, Placed, Covered, Exact, Backed
      <4>2. TokensOneWay(r)' /\ PageOneWay(r)' /\ ClearedLast(r)'
        BY <1>1, <1>2, <3>3, <3>4 DEF Straight, TokensOneWay, PageOneWay, ClearedLast, Cleared
      <4> QED
        BY <4>1, <4>2 DEF Straight
    <3>6. Going(r)
      BY <1>2, <3>3, <3>4, <3>5 DEF Going
    <3>7. \A q \in Reservation : Going(q)
      BY <3>1, <3>2, <3>6
    <3>8. call' = [call EXCEPT ![Processor] = call[Processor]]
      BY <1>0, <2>1 DEF ReservationsOK
    <3> QED
      BY <1>0, <1>3, <2>2, <3>7, <3>8, WaysAroundOther
  <2> QED
    BY <2>3, <2>4
<1>7. CASE ProcessorAbort
  <2>1. /\ call' = [call EXCEPT ![Processor] = NoCall] /\ pc'[Processor] = "idle" /\ cur' = None
        /\ phase' = phase /\ event' = event /\ call'[Processor].step = "off"
    BY <1>0, <1>7, CallTypes DEF ProcessorAbort, PoolOK, ReservationsOK
  <2>2. ProcessorCall' /\ Upserting' /\ AtHome'
    BY <1>0, <2>1 DEF ProcessorCall, Upserting, UpsertAt, AtHome
  <2> QED
    BY <1>4, <2>1, <2>2
<1>8. ASSUME NEW o \in OpKey, Take(o) PROVE WaysInv'
  <2>1. /\ call' = call /\ phase' = phase /\ event' = event /\ cur' = o /\ pc[Processor] = "idle"
        /\ call[Processor].step = "off"
    BY <1>0, <1>8 DEF Take, CallsOwned
  <2>2. /\ pc'[Processor] \in {"open"} \cup DeletionPc
        /\ o \in Reservation => pc'[Processor] = "open"
    BY <1>0, <1>8 DEF Take, DeletionPc, PoolOK
  <2>3. ProcessorCall' /\ Upserting' /\ AtHome'
    BY <1>0, <2>1, <2>2 DEF ProcessorCall, Upserting, UpsertAt, AtHome, DeletionPc
  <2> QED
    BY <1>4, <2>1, <2>3
<1>9. ASSUME NEW d \in Deletion, NEW S \in SUBSET Event, RequestDeletion(d, S) PROVE WaysInv'
  <2>1. /\ call' = call /\ event' = event /\ pc' = pc /\ cur' = cur /\ state' = state
        /\ \A r \in Reservation : phase'[r] = phase[r]
    BY <1>0, <1>9 DEF RequestDeletion, Enqueue, workVars, PoolOK
  <2>2. \A r \in Reservation : Written(r)' = Written(r)
    BY <1>2, <2>1 DEF Written
  <2>3. ProcessorCall'
    BY <1>0, <1>1, <1>2, <2>1 DEF ProcessorCall, Cleared
  <2>4. Upserting' /\ AtHome'
    BY <1>0, <2>1, <2>2 DEF Upserting, UpsertAt, AtHome
  <2> QED
    BY <1>4, <2>1, <2>3, <2>4
<1> QED
  BY <1>5, <1>6, <1>7, <1>8, <1>9

\* The job's steps move no reservation token, and settlement tokens only where
\* it revisits the document of a settled reservation.
LEMMA JobTokens ==
  ASSUME Control, JobStep \/ JobAbort
  PROVE  /\ reservationTokens' = reservationTokens
         /\ settlementTokens' = settlementTokens \/ \E s \in Scope : JobTerminal(s)
<1> USE DEF counterVars
<1>1. TokensOK
  BY DEF Control, ShapeOK
<1>2. ASSUME NEW s \in Scope, JobReconcile(s)
      PROVE  UNCHANGED << reservationTokens, settlementTokens >>
  <2>1. CASE CanReconcile(s)
    <3>1. settlementTokens[s] = {} /\ settlementTokens' = [settlementTokens EXCEPT ![s] = {}]
          /\ reservationTokens' = reservationTokens
      BY <1>2, <2>1 DEF JobReconcile, ReconcileCounter, CanReconcile, Active
    <3> QED
      BY <1>1, <3>1 DEF TokensOK
  <2>2. CASE ~CanReconcile(s)
    BY <1>2, <2>2 DEF JobReconcile, ReconcileCounter
  <2> QED
    BY <2>1, <2>2
<1>3. ASSUME NEW s \in Scope, JobTerminal(s) PROVE reservationTokens' = reservationTokens
  BY <1>3 DEF JobTerminal, ClearSettlement
<1>4. CASE JobReconciled \/ JobAbort
  BY <1>4 DEF JobReconciled, JobAbort, JobRest
<1>5. CASE \/ JobStart \/ JobFinish \/ \E r \in Reservation : JobVisit(r)
           \/ JobInspect \/ JobSkip \/ JobCancelOrphan \/ JobCalled
           \/ JobRetire \/ JobSnapshot \/ \E x \in Ref : JobScan(x)
  BY <1>5 DEF JobStart, JobFinish, JobVisit, JobInspect, JobSkip, JobCancelOrphan, JobCalled,
    JobRetire, JobSnapshot, JobScan
<1> QED
  BY <1>2, <1>3, <1>4, <1>5 DEF JobStep

\* Steps of the job, whose orphan lease outlives every saver.
LEMMA WaysJob ==
  ASSUME Faults = {}, TokensInv, WaysInv, JobStep \/ JobAbort
  PROVE  WaysInv'
<1> USE DEF reservationVars, queueVars, JobAt, JobThen, Invoke, Patch
<1>0. /\ Control /\ PoolOK /\ PcOK /\ ReservationsOK /\ CallsOwned /\ CurOwned /\ VisitOwned
      /\ ProcessorCall /\ Upserting /\ Retiring /\ AtHome /\ TokensOK
      /\ Processor \in Actor /\ Job \in Actor /\ Processor # Job
      /\ \A r \in Reservation : r \in OpKey /\ r \in Actor /\ r # Job
  BY KeysDiffer DEF TokensInv, Control, ShapeOK, WaysInv
<1>1. /\ reservationTokens' = reservationTokens
      /\ settlementTokens' = settlementTokens \/ \E s \in Scope : JobTerminal(s)
  BY <1>0, JobTokens
<1>2. CASE ~JobRetire
  <2>1. JobMoves
    BY <1>0, <1>2, JobStepMoves
  <2>2. /\ UNCHANGED << reservationVars, event, queueVars, cur >>
        /\ \A r \in Reservation : page'[r] \in {"absent", page[r], state[r]}
        /\ pc'[Processor] = pc[Processor] /\ \A r \in Reservation : pc'[r] = pc[r]
    BY <1>0, <2>1 DEF JobMoves, PoolOK
  <2>3. PICK n : /\ call' = [call EXCEPT ![Job] = n] /\ n = call'[Job]
                 /\ n = call[Job] \/ n.step = "off" \/ Settleable(n)
    BY <2>1 DEF JobMoves
  <2>4. \A r \in Reservation : Steady(r)
    BY <2>2 DEF Steady
  <2>5. Upserting' /\ AtHome'
    <3>1. \A r \in Reservation : Written(r)' = Written(r)
      BY <2>4, SteadyMeans
    <3> QED
      BY <1>0, <2>2, <3>1 DEF Upserting, UpsertAt, AtHome
  <2>6. CASE UNCHANGED settlementTokens /\ ~\E s \in Scope : JobTerminal(s)
    <3>1. \A r \in Reservation : Going(r)
      <4>1. \A r \in Reservation : SameTokens(r)
        BY <1>1, <2>6 DEF SameTokens
      <4> QED
        BY <2>2, <2>4, <4>1, SteadyGoing
    <3>2. ProcessorCall'
      <4>1. /\ call'[Processor] = call[Processor]
            /\ \A a \in Actor : call'[a].step = "clear" => call'[a] = call[a]
        BY <1>0, <2>3 DEF ReservationsOK, Settleable
      <4>2. \A s \in Scope : Cleared(cur, s)' = Cleared(cur, s)
        BY <1>1, <2>2, <2>6 DEF Cleared
      <4>3. call[Processor].step # "off" =>
              /\ cur \in Reservation /\ call[Processor].scope \in Scope
              /\ page'[cur] = "committed" => page[cur] = "committed" \/ state[cur] = "committed"
        BY <1>0, <2>2, CallHolds DEF CallsOwned, Call
      <4>4. PICK k : k = call[Processor]
        OBVIOUS
      <4>5. k.step # "off" => (Cleared(cur, k.scope)' = Cleared(cur, k.scope))
        BY <4>2, <4>3, <4>4
      <4> QED
        BY <1>0, <2>2, <4>1, <4>3, <4>4, <4>5 DEF ProcessorCall
    <3>3. Retiring'
      <4>1. ASSUME NEW r \in Reservation, JobVisit(r) PROVE Retiring'
        BY <1>0, <2>6, <4>1 DEF JobVisit, Retiring, PoolOK, Scopes, AuthorScope
      <4>4. CASE ~(\E r \in Reservation : JobVisit(r))
        <5>1. /\ JobAbort \/ JobStart \/ JobFinish \/ JobInspect \/ JobSkip \/ JobCancelOrphan
                   \/ JobCalled \/ JobSnapshot \/ JobReconciled => pc'[Job] # "terminal"
              /\ \A x \in Ref : JobScan(x) => pc'[Job] # "terminal"
              /\ \A s \in Scope : JobReconcile(s) => pc'[Job] # "terminal"
          BY <1>0 DEF JobAbort, JobRest, JobStart, JobFinish, JobInspect, JobSkip,
            JobCancelOrphan, JobCalled, JobSnapshot, JobReconciled, JobScan, JobReconcile, PoolOK
        <5>2. pc'[Job] # "terminal"
          BY <1>2, <2>6, <4>4, <5>1 DEF JobStep
        <5> QED
          BY <5>2 DEF Retiring
      <4> QED
        BY <4>1, <4>4
    <3>4. n = call[Job] \/ n.step = "off" \/ (n.step = "read" /\ n.r \in Reservation /\ CallOneWay(n))
      <4>1. \A r \in Reservation : Straight(r)
        BY DEF WaysInv
      <4>2. /\ \A r \in Reservation : Finalize(r).step = "read" /\ Finalize(r).r = r
                 /\ Finalize(r).outcome = "commit" /\ Finalize(r).terminal = "committed"
            /\ \A r \in Reservation, t \in {"cancelled", "rejected"} :
                 /\ Cancel(r, t).step = "read" /\ Cancel(r, t).r = r /\ Cancel(r, t).outcome = "cancel"
                 /\ Cancel(r, t).terminal = t
            /\ NoCall.step = "off"
        BY DEF NoCall, Cancel, Finalize
      <4>3. ASSUME NEW r \in Reservation, JobVisit(r), n # call[Job]
            PROVE  n.step = "read" /\ n.r \in Reservation /\ CallOneWay(n)
        <5>1. page[r] = "cancel_required" /\ \E t \in {"cancelled", "rejected"} : n = Cancel(r, t)
          BY <1>0, <2>3, <4>3 DEF JobVisit, ReservationsOK
        <5>2. Dropped(r)
          BY <4>1, <5>1 DEF Straight, PageOneWay, Dropped
        <5> QED
          BY <4>2, <5>1, <5>2 DEF CallOneWay
      <4>4. ASSUME JobInspect, n # call[Job]
            PROVE  n.step = "read" /\ n.r \in Reservation /\ CallOneWay(n)
        <5>1. PICK r : r = visit
          OBVIOUS
        <5>2. /\ r \in Reservation /\ n = Finalize(r) /\ page[r] \in {"prepared", "event_applied"}
              /\ event[KeyOf(r)] = doc[r].event
          BY <1>0, <2>3, <4>4, <5>1 DEF JobInspect, VisitOwned, ReservationsOK, KeyOf
        <5>3. Straight(r) /\ state[r] \in {"prepared", "event_applied", "committed"}
          BY <4>1, <5>2 DEF Straight, PageOneWay
        <5>4. Applied(r)
          BY <5>2, <5>3 DEF Straight, Placed, Stage, Exact, Applied, Written, KeyOf, Terminal
        <5> QED
          BY <4>2, <5>2, <5>4 DEF CallOneWay
      <4>5. ASSUME JobCancelOrphan, n # call[Job]
            PROVE  n.step = "read" /\ n.r \in Reservation /\ CallOneWay(n)
        <5>1. PICK r : r = visit
          OBVIOUS
        <5>2. /\ r \in Reservation /\ n = Cancel(r, "cancelled") /\ r \notin Queued
              /\ pc[r] \in {"done", "crashed"}
          BY <1>0, <2>3, <4>5, <5>1 DEF JobCancelOrphan, VisitOwned, ReservationsOK, InFlight
        <5>3. Dropped(r) \/ phase[r] = "gone"
          BY <1>0, <5>2 DEF Queued, Dropped
        <5> QED
          BY <4>2, <5>2, <5>3 DEF CallOneWay
      <4>6. CASE JobCalled \/ JobAbort
        BY <1>0, <2>3, <4>2, <4>6 DEF JobCalled, JobAbort, ReservationsOK
      <4>7. CASE \/ JobStart \/ JobFinish \/ JobSkip \/ JobSnapshot \/ JobReconciled
                 \/ \E s \in Scope : JobTerminal(s) \/ JobReconcile(s)
                 \/ \E x \in Ref : JobScan(x)
        BY <1>0, <2>3, <4>7 DEF JobStart, JobFinish, JobSkip, JobSnapshot, JobReconciled,
          JobTerminal, JobReconcile, JobScan, JobRest
      <4> QED
        BY <1>2, <4>3, <4>4, <4>5, <4>6, <4>7 DEF JobStep
    <3> QED
      BY <1>0, <2>3, <2>5, <3>1, <3>2, <3>3, <3>4, WaysAroundOther
  <2>7. ASSUME NEW s \in Scope, JobTerminal(s) PROVE WaysInv'
    <3>1. PICK r : r = visit
      OBVIOUS
    <3>2. /\ r \in Reservation /\ page[r] \in Terminal /\ Straight(r) /\ Stage(r)
          /\ UNCHANGED << pc, call, page, visit >> /\ pc[Job] = "terminal"
          /\ todo'[Job] = todo[Job] \ {s}
      BY <1>0, <2>7, <3>1 DEF JobTerminal, Visit, Retiring, VisitOwned, WaysInv, Straight, Placed, PoolOK
    <3>3. PICK o : /\ settlementTokens' = [settlementTokens EXCEPT ![s] = @ \ {<<r, o>>}]
                   /\ o \in Outcome
                   /\ page[r] = "committed" => o = "commit"
                   /\ page[r] # "committed" => o = "cancel"
      BY <2>7, <3>1 DEF JobTerminal, ClearSettlement, Outcome
    <3>4. /\ \A t \in Scope, p \in Outcome :
               <<r, p>> \in settlementTokens'[t] => <<r, p>> \in settlementTokens[t]
          /\ <<r, o>> \notin settlementTokens'[s]
          /\ \A q \in Reservation : q # r => SameTokens(q)
          /\ \A t \in Scope : page[r] # "committed" => (Cleared(r, t)' = Cleared(r, t))
      BY <1>0, <1>1, <3>3 DEF TokensOK, SameTokens, Cleared, Outcome
    <3>5. /\ Written(r)' = Written(r) /\ Applied(r)' = Applied(r) /\ Dropped(r)' = Dropped(r)
          /\ Scopes(r)' = Scopes(r) /\ KeyOf(r)' = KeyOf(r) /\ Stage(r)' = Stage(r)
          /\ Flagged(r)' = Flagged(r) /\ Scopes(r) \subseteq Scope
      BY <1>0, <2>4, <3>2, SteadyMeans, ScopesKnown DEF Terminal
    <3>6. Straight(r)'
      <4>1. Placed(r)' /\ Covered(r)' /\ Exact(r)' /\ Backed(r)'
        BY <1>1, <2>2, <3>2, <3>5 DEF Straight, Placed, Covered, Exact, Backed, Wins
      <4>2. TokensOneWay(r)' /\ PageOneWay(r)'
        BY <2>2, <3>2, <3>4, <3>5 DEF Straight, TokensOneWay, PageOneWay, Outcome
      <4>3. ClearedLast(r)'
        <5>1. CASE page[r] = "committed"
          BY <1>1, <2>2, <3>2, <3>5, <5>1 DEF Straight, ClearedLast
        <5>2. CASE page[r] # "committed"
          BY <1>1, <2>2, <3>2, <3>4, <3>5, <5>2 DEF Straight, ClearedLast
        <5> QED
          BY <5>1, <5>2
      <4> QED
        BY <4>1, <4>2, <4>3 DEF Straight
    <3>7. Going(r)
      BY <2>2, <3>5, <3>6 DEF Going
    <3>8. \A q \in Reservation : Going(q)
      BY <2>2, <2>4, <3>4, <3>7, SteadyGoing
    <3>9. ProcessorCall'
      <4>1. PICK k : k = call[Processor]
        OBVIOUS
      <4>2. k.step # "off" => cur \in Reservation /\ k.scope \in Scope
        BY <1>0, <4>1, CallHolds DEF CallsOwned, Call
      <4>3. k.step = "settle" /\ k.outcome = "commit" =>
              (Cleared(cur, k.scope)' => Cleared(cur, k.scope) \/ state[cur] = "committed")
        <5>1. CASE cur = r
          BY <1>0, <2>2, <3>4, <4>1, <4>2, <5>1 DEF ProcessorCall, Cleared
        <5>2. CASE cur # r
          BY <1>1, <2>2, <3>4, <4>2, <5>2 DEF Cleared, SameTokens, Outcome
        <5> QED
          BY <5>1, <5>2
      <4> QED
        BY <1>0, <2>2, <3>2, <4>1, <4>2, <4>3 DEF ProcessorCall
    <3>10. Retiring'
      <4>1. ASSUME NEW t \in Scopes(r), t \notin todo[Job] \ {s}, NEW p \in Outcome
            PROVE  <<r, p>> \notin settlementTokens'[t]
        <5>1. CASE t # s
          BY <1>0, <3>1, <3>2, <3>4, <3>5, <4>1, <5>1 DEF Retiring
        <5>2. CASE t = s /\ p = o
          BY <3>4, <5>2
        <5>3. CASE t = s /\ p # o
          <6>1. page[r] = "committed" => Applied(r)
            BY <3>2 DEF Straight, PageOneWay, Applied
          <6>2. page[r] # "committed" => Dropped(r)
            BY <3>2 DEF Straight, PageOneWay, Dropped, Terminal
          <6>3. <<r, p>> \notin settlementTokens[t]
            BY <3>2, <3>3, <3>5, <4>1, <5>3, <6>1, <6>2, WaysApart DEF Straight, TokensOneWay, Outcome
          <6> QED
            BY <3>4, <3>5, <4>1, <6>3
        <5> QED
          BY <5>1, <5>2, <5>3
      <4> QED
        BY <3>1, <3>2, <3>5, <4>1 DEF Retiring
    <3>11. call' = [call EXCEPT ![Job] = call[Job]]
      BY <1>0, <3>2 DEF ReservationsOK
    <3> QED
      BY <1>0, <2>5, <3>8, <3>9, <3>10, <3>11, WaysAroundOther
  <2> QED
    BY <1>1, <2>6, <2>7
<1>3. CASE JobRetire
  <2>1. PICK r : r = visit
    OBVIOUS
  <2>2. /\ r \in Reservation /\ Straight(r) /\ Stage(r) /\ pc[Job] = "terminal" /\ pc'[Job] = "page"
        /\ UNCHANGED << counterVars, call, event, queueVars, cur, todo >> /\ todo[Job] = {}
        /\ page' = [page EXCEPT ![r] = "absent"] /\ page'[r] = "absent" /\ visit' = None
        /\ pc'[Processor] = pc[Processor] /\ \A q \in Reservation : pc'[q] = pc[q]
        /\ \A q \in Reservation : page'[q] \in {"absent", page[q], state[q]}
    BY <1>0, <1>3, <2>1 DEF JobRetire, Visited, VisitOwned, WaysInv, Straight, Placed, PoolOK
  <2>3. call' = [call EXCEPT ![Job] = call[Job]] /\ call[Job].step = "off"
    BY <1>0, <2>2 DEF ReservationsOK, CallsOwned
  <2>4. \A q \in Reservation : SameTokens(q)
    BY <2>2 DEF SameTokens, counterVars
  <2>5. Retiring'
    BY <2>2 DEF Retiring
  <2>6. ASSUME NEW q \in Reservation, UNCHANGED reservationVars \/ (state'[q] = state[q] /\ doc'[q] = doc[q]
                    /\ delta'[q] = delta[q] /\ settled'[q] = settled[q])
        PROVE  Going(q)
    <3>1. Steady(q)
      BY <2>2, <2>6 DEF Steady
    <3> QED
      BY <2>2, <2>4, <3>1, SteadyGoing
  <2>7. CASE UNCHANGED reservationVars
    <3>1. \A q \in Reservation : Going(q)
      BY <2>6, <2>7
    <3>2. \A q \in Reservation : Written(q)' = Written(q)
      BY <2>2, <2>7 DEF Written
    <3>3. Upserting' /\ AtHome'
      BY <1>0, <2>2, <2>7, <3>2 DEF Upserting, UpsertAt, AtHome
    <3>4. call[Processor].step # "off" => cur \in Reservation
      BY <1>0, CallHolds DEF CallsOwned
    <3>5. ProcessorCall'
      BY <1>0, <2>2, <2>7, <3>4 DEF ProcessorCall, Cleared, counterVars
    <3> QED
      BY <1>0, <2>3, <2>5, <3>1, <3>3, <3>5, WaysAroundOther
  <2>8. CASE /\ ~InFlight(r) /\ r \notin Queued /\ state[r] \in Terminal
             /\ state' = [state EXCEPT ![r] = "absent"]
             /\ doc' = [doc EXCEPT ![r] = None]
             /\ delta' = [delta EXCEPT ![r] = None]
             /\ settled' = [settled EXCEPT ![r] = {}]
    <3>1. /\ phase[r] \in {"none", "gone"} /\ pc[r] \in {"done", "crashed"} /\ state'[r] = "absent"
          /\ phase'[r] = phase[r]
      BY <1>0, <2>2, <2>8 DEF Queued, InFlight, ReservationsOK, PoolOK, Phase
    <3>2. \A q \in Reservation : q # r => Going(q)
      BY <1>0, <2>6, <2>8 DEF ReservationsOK
    <3>3. \A s \in Scope, o \in Outcome : <<r, o>> \notin settlementTokens[s]
      BY <1>0, <2>1, <2>2 DEF Retiring, Straight, TokensOneWay
    <3>4. Straight(r)'
      <4>1. ~Applied(r)' /\ Stage(r)'
        BY <3>1 DEF Applied, Written, Stage
      <4>2. Placed(r)' /\ Covered(r)' /\ Exact(r)' /\ Backed(r)'
        BY <2>2, <3>1, <4>1 DEF Straight, Placed, Covered, Exact, Backed
      <4>3. TokensOneWay(r)' /\ PageOneWay(r)' /\ ClearedLast(r)'
        BY <2>2, <3>1, <3>3, <4>1 DEF TokensOneWay, PageOneWay, ClearedLast, counterVars, Terminal, Outcome
      <4> QED
        BY <4>2, <4>3 DEF Straight
    <3>5. \A b \in Actor : call'[b].step # "off" => call'[b].r # r
      <4>1. ASSUME NEW b \in Reservation, call[b].step # "off" PROVE call[b].r # r
        BY <1>0, <3>1, <4>1 DEF CallsOwned
      <4>2. ASSUME call[Processor].step # "off" PROVE call[Processor].r # r
        BY <1>0, <3>1, <4>2 DEF CallsOwned, CurOwned
      <4> QED
        BY <2>2, <2>3, <4>1, <4>2 DEF Actor
    <3>6. pc[Processor] \notin {"idle", "remove"} => cur # r /\ phase[cur] \notin {"none", "gone"}
      BY <1>0, <3>1 DEF CurOwned
    <3>7. pc[Processor] # "idle" => cur # r
      BY <1>0, <3>1 DEF CurOwned
    <3>8. Upserting' /\ AtHome'
      <4>1. ASSUME cur \in Reservation, cur # r PROVE UpsertAt(pc[Processor], cur)'
        <5>1. Written(cur)' = Written(cur) /\ state'[cur] = state[cur]
          BY <1>0, <2>2, <2>8, <4>1 DEF Written, ReservationsOK
        <5> QED
          BY <1>0, <2>2, <4>1, <5>1 DEF Upserting, UpsertAt
      <4>2. ASSUME pc[Processor] = "idle" PROVE UpsertAt(pc[Processor], cur)'
        BY <2>2, <4>2 DEF UpsertAt
      <4> QED
        BY <1>0, <2>2, <3>7, <4>1, <4>2 DEF Upserting, AtHome
    <3>9. ProcessorCall'
      <4>1. call[Processor].step # "off" => cur \in Reservation /\ cur # r
        BY <1>0, <3>7, CallHolds DEF CallsOwned
      <4>2. call[Processor].step # "off" => state'[cur] = state[cur] /\ page'[cur] = page[cur]
        BY <1>0, <2>2, <2>8, <4>1 DEF ReservationsOK, PoolOK
      <4> QED
        BY <1>0, <2>2, <4>1, <4>2 DEF ProcessorCall, Cleared, counterVars
    <3> QED
      BY <1>0, <2>3, <2>5, <3>2, <3>4, <3>5, <3>8, <3>9, WaysAroundOther
  <2> QED
    BY <1>3, <2>1, <2>7, <2>8 DEF JobRetire
<1> QED
  BY <1>2, <1>3

\* The ways of the reservations are inductive, given the order of the queue.
LEMMA WaysStep ==
  ASSUME Faults = {}, OutcomeInv, TokensInv, QueueInv, WaysInv, [Next]_vars
  PROVE  WaysInv'
<1>1. ASSUME NEW r \in Reservation, Saver(r) \/ SaverCrash(r) PROVE WaysInv'
  <2>1. Control'
    BY <1>1, ControlSaver DEF TokensInv
  <2> QED
    BY <1>1, <2>1, WaysSaver
<1>2. CASE Settlement
  BY <1>2, WaysCall
<1>3. CASE ProcessorStep \/ ProcessorAbort
  BY <1>3, WaysUpsert, WaysOther DEF ProcessorStep
<1>4. CASE JobStep \/ JobAbort
  BY <1>4, WaysJob
<1>5. ASSUME NEW d \in Deletion, NEW S \in SUBSET Event, RequestDeletion(d, S) PROVE WaysInv'
  BY <1>5, WaysOther
<1>6. CASE UNCHANGED vars
  <2> USE DEF vars, counterVars, reservationVars, queueVars, workVars
  <2>1. \A r \in Reservation : Steady(r) /\ SameTokens(r)
    BY <1>6 DEF Steady, SameTokens
  <2>2. \A r \in Reservation : Going(r)
    BY <1>6, <2>1, SteadyGoing
  <2>3. \A r \in Reservation : Written(r)' = Written(r)
    BY <2>1, SteadyMeans
  <2>4. call' = [call EXCEPT ![Job] = call[Job]] /\ Job \in Actor
    BY <1>6, KeysDiffer DEF TokensInv, Control, ShapeOK, ReservationsOK
  <2>5. ProcessorCall'
    BY <1>6 DEF WaysInv, ProcessorCall, Cleared
  <2>6. Retiring'
    BY <1>6 DEF WaysInv, Retiring, Scopes, AuthorScope
  <2>7. Upserting' /\ AtHome'
    BY <1>6, <2>3 DEF WaysInv, Upserting, UpsertAt, AtHome
  <2> QED
    BY <2>2, <2>4, <2>5, <2>6, <2>7, WaysAroundOther
<1> QED
  BY <1>1, <1>2, <1>3, <1>4, <1>5, <1>6 DEF Next

-------------------------------------------------------------------------------
(***************************************************************************)
(* Deletions.                                                              *)
(***************************************************************************)
\* A step that leaves the deletions under way alone.
LEMMA DeletionsFrame ==
  ASSUME Control, QueueInv, DeletionsInv,
         \A d \in Deletion : phase'[d] = phase[d],
         UNCHANGED << selected, accountingTokens, workflowTokens, cur >>,
         pc'[Processor] = pc[Processor], todo'[Processor] = todo[Processor],
         event' = event \/ (pc[Processor] # "idle" /\ cur \in Reservation)
  PROVE  DeletionsInv'
<1>1. \A d \in Deletion : d \in OpKey /\ d \notin Reservation
  BY KeysDiffer
<1>2. ASSUME NEW d \in Deletion PROVE DeletionOK(d)'
  <2>1. DeletionOK(d)
    BY DEF DeletionsInv, Deletions
  <2>2. event' = event \/ phase[d] \notin {"prepared", "events_deleted"}
    <3>1. CASE pc[Processor] # "idle" /\ cur \in Reservation
      BY <1>1, <3>1, Front DEF Begun, Started, Queued
    <3> QED
      BY <3>1
  <2> QED
    BY <2>1, <2>2 DEF DeletionOK, Announced, Stored
<1>3. Deleting'
  <2>1. ASSUME cur \in Deletion PROVE DeletionAt(pc[Processor], cur)'
    <3>1. DeletionAt(pc[Processor], cur)
      BY <2>1 DEF DeletionsInv, Deleting
    <3>2. event' = event \/ pc[Processor] = "idle"
      BY <1>1, <2>1
    <3> QED
      BY <2>1, <3>1, <3>2 DEF DeletionAt, Announced, Accounted, Touched, Stored
  <2> QED
    BY <2>1 DEF Deleting
<1> QED
  BY <1>2, <1>3 DEF DeletionsInv, Deletions

\* Steps of a deletion.
LEMMA DeletionsDelete ==
  ASSUME Control, QueueInv, DeletionsInv, Delete
  PROVE  DeletionsInv'
<1> USE DEF queueVars, At, Then
<1>0. /\ PoolOK /\ TokensOK /\ CurOwned /\ Processor \in Actor /\ Global \in Scope
      /\ Deletions /\ Deleting
  BY KeysDiffer DEF Control, ShapeOK, DeletionsInv, Scope
<1>1. PICK d : d = cur
  OBVIOUS
<1>2. /\ d = cur /\ d \in Deletion /\ d \in OpKey /\ phase[d] \notin {"none", "gone"}
      /\ DeletionOK(d) /\ DeletionAt(pc[Processor], d)
      /\ \A b \in Deletion : b # d => phase[b] \in {"none", "queued", "gone"}
      /\ pc[Processor] \in DeletionPc /\ cur' = cur
      /\ selected \in [Deletion -> SUBSET Event]
  <2>1. pc[Processor] \in DeletionPc /\ cur' = cur
    BY ControlDelete DEF Delete, DeletionSelect, DeletionBegin, DeletionDelete, PatchOp,
      DeletionAccount, DeletionAccounted, DeletionClear, DeletionFinish
  <2>2. d \in Deletion /\ d \in OpKey /\ phase[d] \notin {"none", "gone"}
    BY <1>0, <1>1, <2>1 DEF CurOwned, DeletionPc
  <2>3. ASSUME NEW b \in Deletion, b # d PROVE phase[b] \in {"none", "queued", "gone"}
    <3>1. ~Begun(b) /\ b \in OpKey
      BY <1>1, <2>1, <2>3, Front, KeysDiffer DEF DeletionPc
    <3> QED
      BY <1>0, <3>1 DEF Begun, Started, Queued
  <2> QED
    BY <1>0, <1>1, <2>1, <2>2, <2>3 DEF Deletions, Deleting, PoolOK
<1>3. PICK l : l = pc'[Processor]
  OBVIOUS
\* Only the operation the processor runs is concerned.
<1>4. ASSUME DeletionOK(d)', DeletionAt(l, d)',
             \A b \in Deletion : b # d =>
               /\ phase'[b] = phase[b]
               /\ \A s \in Scope : b \in accountingTokens'[s] => b \in accountingTokens[s]
               /\ b \in workflowTokens'[Global] => b \in workflowTokens[Global],
             \A s \in Author : workflowTokens'[s] = {}
      PROVE  DeletionsInv'
  <2>1. \A b \in Deletion : b # d => DeletionOK(b)'
    BY <1>0, <1>2, <1>4 DEF Deletions, DeletionOK
  <2>2. Deleting'
    BY <1>2, <1>3, <1>4 DEF Deleting
  <2> QED
    BY <1>4, <2>1, <2>2 DEF DeletionsInv, Deletions
<1>5. CASE DeletionSelect
  <2>1. /\ phase[d] = "queued" /\ phase' = [phase EXCEPT ![d] = "prepared"] /\ phase'[d] = "prepared"
        /\ selected'[d] = {e \in requested[d] : event[RefOf[e]] = e} /\ l = "begin"
        /\ UNCHANGED << counterVars, event >>
    BY <1>0, <1>2, <1>3, <1>5 DEF DeletionSelect, DeletionAt, PoolOK
  <2>2. selected'[d] \subseteq Stored'
    <3>1. ASSUME NEW e \in selected'[d] PROVE e \in Stored'
      <4>1. e \in Event /\ RefOf[e] \in Ref /\ event[RefOf[e]] = e /\ e # None
        BY <1>0, <1>2, <2>1, <3>1, EventAssumption DEF PoolOK
      <4> QED
        BY <2>1, <4>1 DEF Stored
    <3> QED
      BY <3>1
  <2>3. DeletionOK(d)' /\ DeletionAt(l, d)'
    BY <1>2, <2>1, <2>2 DEF DeletionOK, DeletionAt, counterVars
  <2>4. \A b \in Deletion : b # d => phase'[b] = phase[b]
    BY <1>0, <2>1 DEF PoolOK
  <2> QED
    BY <1>0, <1>4, <2>1, <2>3, <2>4 DEF Deletions, counterVars
<1>6. ASSUME NEW m, NEW n, DeletionBegin(m, n),
             \/ m = "begin" /\ n = "delete"
             \/ m = "rebegin" /\ n = "account"
      PROVE  DeletionsInv'
  <2>1. /\ l = n /\ UNCHANGED << event, phase, selected, accountingTokens >>
        /\ todo'[Processor] = IF n = "account" THEN Touched(d) ELSE {}
        /\ DeletionAt(m, d)
    BY <1>0, <1>2, <1>3, <1>6
      DEF DeletionBegin, BeginManifestMutation, PoolOK, counterVars
  <2>2. workflowTokens' = IF selected[d] # {} THEN [workflowTokens EXCEPT ![Global] = @ \cup {d}]
                          ELSE workflowTokens
    BY <1>2, <1>6 DEF DeletionBegin, BeginManifestMutation, counterVars
  <2>3. /\ d \in workflowTokens'[Global] <=> (d \in workflowTokens[Global] \/ selected[d] # {})
        /\ \A b \in Deletion : b # d => (b \in workflowTokens'[Global] => b \in workflowTokens[Global])
        /\ \A s \in Author : workflowTokens'[s] = {}
    BY <1>0, <2>2, GlobalAssumption DEF TokensOK, Deletions
  <2>4. DeletionAt(l, d)'
    BY <1>6, <2>1, <2>3 DEF DeletionAt, Announced, Accounted, Touched
  <2>5. DeletionOK(d)'
    BY <1>2, <1>6, <2>1, <2>3 DEF DeletionOK, DeletionAt, Announced, Stored
  <2> QED
    BY <1>4, <2>1, <2>3, <2>4, <2>5
<1>7. CASE DeletionDelete
  <2>1. /\ phase[d] = "prepared" /\ Announced(d) /\ l = "deleted"
        /\ UNCHANGED << phase, selected, counterVars >>
        /\ event' = [x \in Ref |-> IF event[x] \in selected[d] THEN None ELSE event[x]]
    BY <1>0, <1>2, <1>3, <1>7 DEF DeletionDelete, DeletionAt, PoolOK
  <2>2. selected[d] \cap Stored' = {}
    BY <2>1 DEF Stored
  <2>3. DeletionOK(d)' /\ DeletionAt(l, d)'
    BY <1>2, <2>1, <2>2 DEF DeletionOK, DeletionAt, Announced, counterVars
  <2> QED
    BY <1>0, <1>4, <2>1, <2>3 DEF Deletions, counterVars
<1>8. CASE PatchOp("deleted", "events_deleted", "rebegin")
  <2>1. /\ phase[d] = "prepared" /\ Announced(d) /\ selected[d] \cap Stored = {} /\ l = "rebegin"
        /\ phase' = [phase EXCEPT ![d] = "events_deleted"] /\ phase'[d] = "events_deleted"
        /\ UNCHANGED << event, selected, counterVars >>
    BY <1>0, <1>2, <1>3, <1>8 DEF PatchOp, DeletionAt, PoolOK
  <2>2. DeletionOK(d)' /\ DeletionAt(l, d)'
    BY <1>2, <2>1 DEF DeletionOK, DeletionAt, Announced, Stored, counterVars
  <2>3. \A b \in Deletion : b # d => phase'[b] = phase[b]
    BY <1>0, <2>1 DEF PoolOK
  <2> QED
    BY <1>0, <1>4, <2>1, <2>2, <2>3 DEF Deletions, counterVars
<1>9. ASSUME NEW s \in Scope, DeletionAccount(s) PROVE DeletionsInv'
  <2>1. /\ phase[d] = "events_deleted" /\ Accounted(d) /\ l = "account"
        /\ UNCHANGED << event, phase, selected, workflowTokens >>
        /\ todo'[Processor] = todo[Processor] \ {s}
        /\ \/ d \notin accountingTokens[s]
              /\ accountingTokens' = [accountingTokens EXCEPT ![s] = @ \cup {d}]
           \/ d \in accountingTokens[s] /\ accountingTokens' = accountingTokens
    BY <1>0, <1>2, <1>3, <1>9
      DEF DeletionAccount, Visit, AccountOnce, DeletionAt, PoolOK, counterVars
  <2>2. /\ d \in accountingTokens'[s]
        /\ \A t \in Scope : d \in accountingTokens[t] => d \in accountingTokens'[t]
        /\ \A b \in Deletion : b # d =>
             \A t \in Scope : b \in accountingTokens'[t] => b \in accountingTokens[t]
    BY <1>0, <2>1 DEF TokensOK
  <2>3. \A t \in Touched(d) : t \in Scope
    BY <1>2, EventAssumption DEF Touched, Scope
  <2>4. DeletionOK(d)' /\ DeletionAt(l, d)'
    BY <1>2, <2>1, <2>2, <2>3 DEF DeletionOK, DeletionAt, Announced, Accounted, Touched, Stored
  <2> QED
    BY <1>0, <1>4, <2>1, <2>2, <2>4 DEF Deletions
<1>10. CASE DeletionAccounted
  <2>1. /\ phase[d] = "events_deleted" /\ l = "clear"
        /\ phase' = [phase EXCEPT ![d] = "accounting_applied"] /\ phase'[d] = "accounting_applied"
        /\ UNCHANGED << event, selected, counterVars >>
    BY <1>0, <1>2, <1>3, <1>10 DEF DeletionAccounted, DeletionAt, PoolOK
  <2>2. DeletionOK(d)' /\ DeletionAt(l, d)'
    BY <1>2, <2>1 DEF DeletionOK, DeletionAt, counterVars
  <2>3. \A b \in Deletion : b # d => phase'[b] = phase[b]
    BY <1>0, <2>1 DEF PoolOK
  <2> QED
    BY <1>0, <1>4, <2>1, <2>2, <2>3 DEF Deletions, counterVars
<1>11. ASSUME NEW s \in Scope, DeletionClear(s) PROVE DeletionsInv'
  <2>1. /\ phase[d] = "accounting_applied" /\ l = "clear"
        /\ UNCHANGED << event, phase, selected, workflowTokens >>
        /\ accountingTokens' = [accountingTokens EXCEPT ![s] = @ \ {d}]
    BY <1>0, <1>2, <1>3, <1>11 DEF DeletionClear, ClearAccounting, DeletionAt, PoolOK
  <2>2. \A b \in Deletion, t \in Scope : b \in accountingTokens'[t] => b \in accountingTokens[t]
    BY <1>0, <2>1 DEF TokensOK
  <2>3. DeletionOK(d)' /\ DeletionAt(l, d)'
    BY <1>2, <2>1 DEF DeletionOK, DeletionAt
  <2> QED
    BY <1>0, <1>4, <2>1, <2>2, <2>3 DEF Deletions
<1>12. CASE DeletionFinish
  <2>1. /\ phase[d] = "accounting_applied" /\ l = "remove"
        /\ UNCHANGED << event, phase, selected, accountingTokens >>
    BY <1>0, <1>2, <1>3, <1>12
      DEF DeletionFinish, FinishManifestMutation, DeletionAt, PoolOK, counterVars
  <2>2. workflowTokens' = IF selected[d] # {} THEN [workflowTokens EXCEPT ![Global] = @ \ {d}]
                          ELSE workflowTokens
    BY <1>2, <1>12 DEF DeletionFinish, FinishManifestMutation, counterVars
  <2>3. /\ d \notin workflowTokens'[Global]
        /\ \A b \in Deletion : b \in workflowTokens'[Global] => b \in workflowTokens[Global]
        /\ \A s \in Author : workflowTokens'[s] = {}
    BY <1>0, <1>2, <2>2, GlobalAssumption DEF TokensOK, Deletions, DeletionOK
  <2>4. DeletionOK(d)' /\ DeletionAt(l, d)'
    BY <1>2, <2>1, <2>3 DEF DeletionOK, DeletionAt
  <2> QED
    BY <1>4, <2>1, <2>3, <2>4
<1> QED
  BY <1>5, <1>6, <1>7, <1>8, <1>9, <1>10, <1>11, <1>12 DEF Delete

-------------------------------------------------------------------------------
(*****************************************************************************)
(* Deletions.                                                                *)
(*****************************************************************************)
\* Taking, dropping, finishing and queueing operations.
LEMMA DeletionsQueue ==
  ASSUME Control, DeletionsInv,
         \/ Remove \/ ProcessorAbort \/ \E o \in OpKey : Take(o)
         \/ \E d \in Deletion, S \in SUBSET Event : RequestDeletion(d, S)
  PROVE  DeletionsInv'
<1> USE DEF queueVars, At, Then
<1>0. /\ PoolOK /\ TokensOK /\ CurOwned /\ Processor \in Actor /\ Deletions /\ Deleting
      /\ \A d \in Deletion : d \in OpKey /\ d \notin Reservation
  BY KeysDiffer DEF Control, ShapeOK, DeletionsInv
<1>1. UNCHANGED << selected, event, accountingTokens, workflowTokens >>
  BY DEF Remove, ProcessorAbort, Take, RequestDeletion, counterVars
<1>2. ASSUME NEW d \in Deletion, phase'[d] = phase[d] PROVE DeletionOK(d)'
  BY <1>0, <1>1, <1>2 DEF Deletions, DeletionOK, Announced, Stored
<1>3. CASE Remove
  <2>1. /\ phase' = [phase EXCEPT ![cur] = "gone"] /\ pc'[Processor] = "idle"
        /\ pc[Processor] = "remove"
    BY <1>0, <1>3 DEF Remove, PoolOK
  <2>2. ASSUME NEW d \in Deletion PROVE DeletionOK(d)'
    <3>1. CASE d = cur
      BY <1>0, <1>1, <2>1, <3>1 DEF PoolOK, DeletionOK, Deletions, Deleting, DeletionAt
    <3>2. CASE d # cur
      BY <1>0, <1>2, <2>1, <3>2 DEF PoolOK
    <3> QED
      BY <3>1, <3>2
  <2>3. Deleting'
    BY <2>1 DEF Deleting, DeletionAt
  <2> QED
    BY <1>0, <1>1, <2>2, <2>3 DEF DeletionsInv, Deletions
<1>4. CASE ProcessorAbort
  <2>1. phase' = phase /\ pc'[Processor] = "idle"
    BY <1>0, <1>4 DEF ProcessorAbort, PoolOK
  <2>2. Deleting'
    BY <2>1 DEF Deleting, DeletionAt
  <2> QED
    BY <1>0, <1>1, <1>2, <2>1, <2>2 DEF DeletionsInv, Deletions
<1>5. ASSUME NEW o \in OpKey, Take(o) PROVE DeletionsInv'
  <2>1. phase' = phase /\ cur' = o /\ phase[o] \notin {"none", "gone"}
    BY <1>0, <1>5 DEF Take, Started, Queued
  <2>2. PICK l : l = pc'[Processor]
    OBVIOUS
  <2>3. ASSUME o \in Deletion PROVE DeletionAt(l, o)'
    <3>1. phase[o] \in {"queued", "prepared", "events_deleted", "accounting_applied"}
      BY <1>0, <2>1, <2>3 DEF Deletions, DeletionOK, PoolOK, Phase
    <3>2. l = CASE phase[o] = "queued" -> "select"
                [] phase[o] = "prepared" -> "begin"
                [] phase[o] = "events_deleted" -> "rebegin"
                [] OTHER -> "clear"
      <4>1. l = CASE o \in Reservation -> "open"
                  [] o \in Deletion /\ phase[o] = "queued" -> "select"
                  [] o \in Deletion /\ phase[o] = "prepared" -> "begin"
                  [] o \in Deletion /\ phase[o] = "events_deleted" -> "rebegin"
                  [] OTHER -> "clear"
        BY <1>0, <1>5, <2>2 DEF Take, PoolOK
      <4> QED
        BY <1>0, <2>3, <3>1, <4>1
    <3> QED
      BY <2>1, <3>1, <3>2 DEF DeletionAt
  <2>4. Deleting'
    BY <2>1, <2>2, <2>3 DEF Deleting
  <2> QED
    BY <1>0, <1>1, <1>2, <2>1, <2>4 DEF DeletionsInv, Deletions
<1>6. ASSUME NEW d \in Deletion, NEW S \in SUBSET Event, RequestDeletion(d, S) PROVE DeletionsInv'
  <2>1. /\ phase[d] = "none" /\ phase' = [phase EXCEPT ![d] = "queued"]
        /\ UNCHANGED << pc, cur, todo >>
    BY <1>6 DEF RequestDeletion, Enqueue, workVars
  <2>2. ASSUME NEW b \in Deletion PROVE DeletionOK(b)'
    <3>1. CASE b = d
      BY <1>0, <1>1, <2>1, <3>1 DEF PoolOK, DeletionOK, Deletions
    <3>2. CASE b # d
      BY <1>0, <1>2, <2>1, <3>2 DEF PoolOK
    <3> QED
      BY <3>1, <3>2
  <2>3. ASSUME cur \in Deletion PROVE DeletionAt(pc[Processor], cur)'
    <3>1. cur # d \/ pc[Processor] = "idle"
      BY <1>0, <2>1 DEF CurOwned
    <3>2. phase'[cur] = phase[cur] \/ pc[Processor] = "idle"
      BY <1>0, <2>1, <2>3, <3>1 DEF PoolOK
    <3> QED
      BY <1>0, <1>1, <2>1, <2>3, <3>2 DEF Deleting, DeletionAt, Announced, Accounted, Touched, Stored
  <2>4. Deleting'
    BY <2>1, <2>3 DEF Deleting
  <2> QED
    BY <1>0, <1>1, <2>2, <2>4 DEF DeletionsInv, Deletions
<1> QED
  BY <1>3, <1>4, <1>5, <1>6

\* A reconciliation forgets no deletion that is still to be charged elsewhere.
LEMMA DeletionsReconcile ==
  ASSUME Control, DeletionsInv, ScanExact, NEW s \in Scope, JobReconcile(s)
  PROVE  DeletionsInv'
<1> USE DEF queueVars, JobAt
<1>0. /\ TokensOK /\ Deletions /\ Deleting /\ PoolOK /\ Processor \in Actor /\ Processor # Job
  BY KeysDiffer DEF Control, ShapeOK, DeletionsInv
<1>1. /\ UNCHANGED << event, queueVars, pc, cur, workflowTokens >> /\ todo'[Processor] = todo[Processor]
      /\ pc[Job] = "reconcile" /\ s \in todo[Job] /\ (s = Global \/ Global \notin todo[Job])
  BY <1>0 DEF JobReconcile, ReconcileCounter, counterVars, PoolOK
<1>2. \/ accountingTokens' = accountingTokens
      \/ CanReconcile(s) /\ accountingTokens' = [accountingTokens EXCEPT ![s] = {}]
  BY DEF JobReconcile, ReconcileCounter, counterVars
<1>3. CanReconcile(s) => \A d \in accountingTokens[s] : phase[d] = "events_deleted" => selected[d] = {}
  BY <1>1 DEF ScanExact, ScanOfExact, Trusted, Fresh, CanReconcile
<1>4. \A d \in Deletion, t \in Scope :
        /\ d \in accountingTokens'[t] => d \in accountingTokens[t]
        /\ phase[d] = "events_deleted" /\ selected[d] # {} /\ d \in accountingTokens[t]
             => d \in accountingTokens'[t]
  BY <1>0, <1>2, <1>3 DEF TokensOK
<1>5. \A d \in Deletion : DeletionOK(d)'
  BY <1>0, <1>1, <1>4 DEF Deletions, DeletionOK, Announced, Stored
<1>6. ASSUME cur \in Deletion PROVE DeletionAt(pc[Processor], cur)'
  <2>1. \A t \in Touched(cur) : t \in Scope
    BY <1>0, <1>6, EventAssumption DEF Touched, Scope, PoolOK
  <2> QED
    BY <1>0, <1>1, <1>4, <1>6, <2>1 DEF Deleting, DeletionAt, Announced, Accounted, Touched, Stored
<1>7. Deleting'
  BY <1>1, <1>6 DEF Deleting
<1> QED
  BY <1>0, <1>1, <1>5, <1>7 DEF DeletionsInv, Deletions

\* A deletion works through its phases: inductive, given the order of the queue.
LEMMA DeletionsStep ==
  ASSUME Control, QueueInv, DeletionsInv, ScanExact, [Next]_vars
  PROVE  DeletionsInv'
<1>0. /\ PoolOK /\ CurOwned /\ Processor \in Actor /\ Job \in Actor /\ Processor # Job
      /\ \A d \in Deletion : d \in OpKey /\ d \notin Reservation
      /\ \A r \in Reservation : r # Processor /\ r \in Actor
  BY KeysDiffer DEF Control, ShapeOK
<1> USE DEF reservationVars, queueVars
<1>1. ASSUME NEW r \in Reservation, Saver(r) \/ SaverCrash(r) PROVE DeletionsInv'
  <2>1. /\ UNCHANGED << event, selected, accountingTokens, workflowTokens, cur, todo >>
        /\ pc'[Processor] = pc[Processor]
        /\ \A d \in Deletion : phase'[d] = phase[d]
    BY <1>0, <1>1
      DEF Saver, SaverCrash, BeginSave, SaverGlobal, SaverAuthor, Reserve, ReserveCounter, SaverMark,
        SaverReject, SaverEnqueue, SaverEnqueueFails, SaverCancelled, Enqueue, Goto, PoolOK, counterVars
  <2> QED
    BY <2>1, DeletionsFrame
<1>2. CASE Settlement
  <2>1. PICK a \in Actor : CallNext(a) /\ UNCHANGED << event, queueVars, workVars >>
    BY <1>2 DEF Settlement
  <2>2. UNCHANGED << accountingTokens, workflowTokens >>
    BY <2>1 DEF CallNext, CallRead, CallSettle, SettleCounter, CallFlag, CallState, CallClear,
      ClearSettlement, counterVars
  <2> QED
    BY <2>1, <2>2, DeletionsFrame DEF workVars
<1>3. CASE Upsert
  <2>1. UpsertMoves /\ cur \in Reservation /\ pc[Processor] # "idle"
    BY <1>0, <1>3, UpsertStepMoves DEF UpsertMoves, CurOwned, UpsertPc
  <2>2. /\ UNCHANGED << selected, accountingTokens, workflowTokens, cur, todo >>
        /\ pc[Processor] \in UpsertPc /\ pc'[Processor] \in UpsertPc
        /\ \A d \in Deletion : phase'[d] = phase[d]
    BY <1>0, <2>1 DEF UpsertMoves, counterVars, PoolOK
  <2>3. Deleting'
    BY <1>0, <2>1, <2>2 DEF Deleting
  <2>4. ASSUME NEW d \in Deletion PROVE DeletionOK(d)'
    <3>1. phase[d] \notin {"prepared", "events_deleted"}
      BY <1>0, <2>1, Front DEF Begun, Started, Queued
    <3> QED
      BY <2>2, <3>1 DEF DeletionsInv, Deletions, DeletionOK
  <2> QED
    BY <2>2, <2>3, <2>4 DEF DeletionsInv, Deletions
<1>4. CASE Delete
  BY <1>4, DeletionsDelete
<1>5. CASE Remove \/ ProcessorAbort \/ \E o \in OpKey : Take(o)
  BY <1>5, DeletionsQueue
<1>6. ASSUME NEW d \in Deletion, NEW S \in SUBSET Event, RequestDeletion(d, S) PROVE DeletionsInv'
  BY <1>6, DeletionsQueue
<1>7. CASE JobStep \/ JobAbort
  <2>1. ASSUME NEW s \in Scope, JobReconcile(s) PROVE DeletionsInv'
    BY <2>1, DeletionsReconcile
  <2>2. CASE ~\E s \in Scope : JobReconcile(s)
    <3>1. UNCHANGED << event, queueVars, cur >> /\ pc'[Processor] = pc[Processor]
      <4>1. CASE JobRetire
        BY <1>0, <4>1 DEF JobRetire, JobThen, PoolOK
      <4>2. CASE ~JobRetire
        BY <1>0, <1>7, <4>2, JobStepMoves DEF JobMoves, PoolOK
      <4> QED
        BY <4>1, <4>2
    <3>2. UNCHANGED << accountingTokens, workflowTokens >> /\ todo'[Processor] = todo[Processor]
      BY <1>0, <1>7, <2>2
        DEF JobStep, JobAbort, JobRest, JobStart, JobFinish, JobVisit, JobInspect, JobSkip,
          JobCancelOrphan, JobCalled, JobTerminal, ClearSettlement, Visit, JobRetire, JobSnapshot,
          JobReconciled, JobScan, PoolOK, counterVars
    <3> QED
      BY <3>1, <3>2, DeletionsFrame
  <2> QED
    BY <2>1, <2>2
<1>8. CASE UNCHANGED vars
  BY <1>8, DeletionsFrame DEF vars, counterVars, workVars
<1> QED
  BY <1>1, <1>2, <1>3, <1>4, <1>5, <1>6, <1>7, <1>8 DEF Next, ProcessorStep

-------------------------------------------------------------------------------
(*****************************************************************************)
(* Sums.                                                                     *)
(*****************************************************************************)
\* Induction over the subsets of a finite set, for the members of a set: a least
\* counterexample has an element whose removal leaves another one.
LEMMA FiniteInduction ==
  ASSUME NEW S, IsFiniteSet(S), NEW B, {} \in B,
         \A T \in SUBSET S, x \in S : T \in B => T \cup {x} \in B
  PROVE  S \in B
<1> DEFINE M == {T \in SUBSET S : T \notin B}
           R == StrictSubsetOrdering(S)
<1>1. SUFFICES M = {}
  OBVIOUS
<1>2. SUFFICES ASSUME M # {} PROVE FALSE
  OBVIOUS
<1>3. IsWellFoundedOn(R, SUBSET S)
  BY FS_StrictSubsetOrderingWellFounded, FS_FiniteSubsetsOfFinite
<1>4. M \subseteq SUBSET S
  OBVIOUS
<1>5. PICK T \in M : \A U \in M : <<U, T>> \notin R
  <2> HIDE DEF M, R
  <2> QED BY <1>2, <1>3, <1>4, WFMin
<1>6. PICK x \in T : TRUE
  OBVIOUS
<1>7. <<T \ {x}, T>> \in R
  BY <1>6 DEF StrictSubsetOrdering
<1>8. T \ {x} \in B
  BY <1>5, <1>7
<1>9. T = (T \ {x}) \cup {x} /\ T \ {x} \in SUBSET S /\ x \in S
  BY <1>6
<1> QED BY <1>8, <1>9

\* f[x] cells for every element x of S.
Cells(f, S) == UNION { {x} \X (1 .. f[x]) : x \in S }

\* Cells of one element.
LEMMA Block ==
  ASSUME NEW x, NEW n \in Nat
  PROVE  IsFiniteSet({x} \X (1 .. n)) /\ Cardinality({x} \X (1 .. n)) = n
<1>1. IsFiniteSet({x}) /\ Cardinality({x}) = 1
  BY FS_Singleton
<1>2. IsFiniteSet(1 .. n) /\ Cardinality(1 .. n) = n
  BY FS_Interval
<1>3. /\ IsFiniteSet({x} \X (1 .. n))
      /\ Cardinality({x} \X (1 .. n)) = Cardinality({x}) * Cardinality(1 .. n)
  BY <1>1, <1>2, FS_Product
<1> QED BY <1>1, <1>2, <1>3

\* Finitely many elements with natural numbers have finitely many cells.
LEMMA CellsFinite ==
  ASSUME NEW S, IsFiniteSet(S), NEW f, \A x \in S : f[x] \in Nat
  PROVE  IsFiniteSet(Cells(f, S))
<1> DEFINE B == {T \in SUBSET S : IsFiniteSet(Cells(f, T))}
<1>1. {} \in B
  <2>1. Cells(f, {}) = {}
    BY DEF Cells
  <2> QED BY <2>1, FS_EmptySet
<1>2. ASSUME NEW T \in SUBSET S, NEW x \in S, T \in B
      PROVE  T \cup {x} \in B
  <2>1. Cells(f, T \cup {x}) = Cells(f, T) \cup ({x} \X (1 .. f[x]))
    BY DEF Cells
  <2>2. IsFiniteSet({x} \X (1 .. f[x]))
    BY Block
  <2>3. IsFiniteSet(Cells(f, T))
    BY <1>2
  <2>4. IsFiniteSet(Cells(f, T) \cup ({x} \X (1 .. f[x])))
    <3> HIDE DEF B
    <3> QED BY <2>2, <2>3, FS_Union
  <2>5. IsFiniteSet(Cells(f, T \cup {x}))
    BY <2>1, <2>4
  <2> QED BY <2>5
<1> QED
  <2> HIDE DEF B
  <2>1. S \in B
    BY <1>1, <1>2, FiniteInduction
  <2> QED BY <2>1 DEF B

\* The cells of one element apart from those of the others.
LEMMA CellsSplit ==
  ASSUME NEW S, IsFiniteSet(S), NEW f, \A x \in S : f[x] \in Nat, NEW x \in S
  PROVE  Cardinality(Cells(f, S)) = f[x] + Cardinality(Cells(f, S \ {x}))
<1> DEFINE U == Cells(f, S \ {x})
           V == {x} \X (1 .. f[x])
<1>1. Cells(f, S) = U \cup V
  BY DEF Cells
<1>2. U \cap V = {}
  BY DEF Cells
<1>3. IsFiniteSet(U) /\ IsFiniteSet(V) /\ Cardinality(V) = f[x]
  BY Block, CellsFinite, FS_RemoveElement
<1>4. Cardinality(U \cap V) = 0 /\ Cardinality(U) \in Nat
  BY <1>2, <1>3, FS_EmptySet, FS_CardinalityType
<1>5. Cardinality(U \cup V) = Cardinality(U) + Cardinality(V) - Cardinality(U \cap V)
  BY <1>3, FS_Union
<1> QED BY <1>1, <1>3, <1>4, <1>5

\* tlapm reads a recursive function as the choice of one that satisfies its equation.
LEMMA SumEquation ==
  ASSUME NEW f, NEW S
  PROVE  SumFunctionOnSet(f, S) =
    (CHOOSE iter : iter = [s \in SUBSET S |->
       IF s = {} THEN 0 ELSE f[CHOOSE x \in s : TRUE] + iter[s \ {CHOOSE x \in s : TRUE}]])[S]
BY DEF SumFunctionOnSet, FoldFunctionOnSet, MapThenFoldSet

\* A sum of natural numbers counts cells, whatever order the fold takes.
LEMMA SumIsCount ==
  ASSUME NEW S, IsFiniteSet(S), NEW f, \A x \in S : f[x] \in Nat
  PROVE  SumFunctionOnSet(f, S) = Cardinality(Cells(f, S))
<1> DEFINE E(g) == g = [s \in SUBSET S |->
              IF s = {} THEN 0 ELSE f[CHOOSE x \in s : TRUE] + g[s \ {CHOOSE x \in s : TRUE}]]
           h == [s \in SUBSET S |-> Cardinality(Cells(f, s))]
           g == CHOOSE it : E(it)
<1>1. E(h)
  <2>1. h[{}] = 0
    <3>1. Cells(f, {}) = {}
      BY DEF Cells
    <3> QED BY <3>1, FS_EmptySet
  <2>2. ASSUME NEW s \in SUBSET S, s # {}
        PROVE  h[s] = f[CHOOSE x \in s : TRUE] + h[s \ {CHOOSE x \in s : TRUE}]
    <3> DEFINE y == CHOOSE x \in s : TRUE
    <3>1. y \in s
      BY <2>2
    <3>2. IsFiniteSet(s)
      BY FS_Subset
    <3> HIDE DEF y
    <3>3. h[s] = f[y] + h[s \ {y}]
      BY <3>1, <3>2, CellsSplit
    <3> QED BY <3>3 DEF y
  <2> QED
    <3> DEFINE H(s) == IF s = {} THEN 0 ELSE f[CHOOSE x \in s : TRUE] + h[s \ {CHOOSE x \in s : TRUE}]
    <3>1. \A s \in SUBSET S : h[s] = H(s)
      BY <2>1, <2>2
    <3>2. h = [s \in SUBSET S |-> h[s]]
      OBVIOUS
    <3> HIDE DEF h, H
    <3>3. h = [s \in SUBSET S |-> H(s)]
      BY <3>1, <3>2
    <3> QED BY <3>3 DEF H
<1> HIDE DEF h
<1>2. E(g)
  <2> HIDE DEF E
  <2> QED BY <1>1
<1> HIDE DEF g
<1> DEFINE B == {T \in SUBSET S : g[T] = h[T]}
<1>3. \A s \in SUBSET S : s # {} => \E y \in s : h[s] = f[y] + h[s \ {y}] /\ g[s] = f[y] + g[s \ {y}]
  <2> TAKE s \in SUBSET S
  <2> HAVE s # {}
  <2> DEFINE y == CHOOSE x \in s : TRUE
  <2>1. y \in s
    OBVIOUS
  <2>2. h[s] = f[y] + h[s \ {y}] /\ g[s] = f[y] + g[s \ {y}]
    BY <1>1, <1>2
  <2> QED BY <2>1, <2>2
<1>4. g[{}] = h[{}]
  BY <1>1, <1>2
<1> HIDE DEF E
<1>5. B = SUBSET S
  <2> DEFINE M == {T \in SUBSET S : g[T] # h[T]}
             R == StrictSubsetOrdering(S)
  <2>1. IsWellFoundedOn(R, SUBSET S)
    BY FS_StrictSubsetOrderingWellFounded, FS_FiniteSubsetsOfFinite
  <2>2. M \subseteq SUBSET S
    OBVIOUS
  <2>3. ASSUME M # {} PROVE FALSE
    <3>1. PICK T \in M : \A U \in M : <<U, T>> \notin R
      <4> HIDE DEF M, R
      <4> QED BY <2>1, <2>2, <2>3, WFMin
    <3>2. PICK y \in T : h[T] = f[y] + h[T \ {y}] /\ g[T] = f[y] + g[T \ {y}]
      BY <1>3, <1>4
    <3>3. <<T \ {y}, T>> \in R
      BY <3>2 DEF StrictSubsetOrdering
    <3> QED BY <3>1, <3>2, <3>3
  <2> QED BY <2>3
<1>6. g[S] = h[S]
  BY <1>5
<1>7. SumFunctionOnSet(f, S) = g[S]
  BY SumEquation DEF g, E
<1> QED BY <1>6, <1>7 DEF h

\* The empty sum.
LEMMA SumEmpty == ASSUME NEW f PROVE SumFunctionOnSet(f, {}) = 0
<1>1. Cells(f, {}) = {}
  BY DEF Cells
<1> QED BY <1>1, SumIsCount, FS_EmptySet

\* A sum of natural numbers is one.
LEMMA SumNat ==
  ASSUME NEW S, IsFiniteSet(S), NEW f, \A x \in S : f[x] \in Nat
  PROVE  SumFunctionOnSet(f, S) \in Nat
BY SumIsCount, CellsFinite, FS_CardinalityType

\* One summand apart from the others.
LEMMA SumRemove ==
  ASSUME NEW S, IsFiniteSet(S), NEW f, \A x \in S : f[x] \in Nat, NEW x \in S
  PROVE  SumFunctionOnSet(f, S) = f[x] + SumFunctionOnSet(f, S \ {x})
<1>1. IsFiniteSet(S \ {x})
  BY FS_RemoveElement
<1> QED BY <1>1, SumIsCount, CellsSplit

\* Equal summands, equal sums.
LEMMA SumSame ==
  ASSUME NEW S, IsFiniteSet(S), NEW f, NEW g,
         \A x \in S : f[x] \in Nat, \A x \in S : f[x] = g[x]
  PROVE  SumFunctionOnSet(f, S) = SumFunctionOnSet(g, S)
<1>1. Cells(f, S) = Cells(g, S)
  BY DEF Cells
<1> QED BY <1>1, SumIsCount

\* Sums over disjoint sets add up.
LEMMA SumUnion ==
  ASSUME NEW S, IsFiniteSet(S), NEW T, IsFiniteSet(T), S \cap T = {},
         NEW f, \A x \in S \cup T : f[x] \in Nat
  PROVE  SumFunctionOnSet(f, S \cup T) = SumFunctionOnSet(f, S) + SumFunctionOnSet(f, T)
<1> DEFINE U == Cells(f, S)
           V == Cells(f, T)
<1>1. Cells(f, S \cup T) = U \cup V /\ U \cap V = {}
  BY DEF Cells
<1>2. IsFiniteSet(U) /\ IsFiniteSet(V) /\ IsFiniteSet(S \cup T)
  BY CellsFinite, FS_Union
<1>3. /\ SumFunctionOnSet(f, S) = Cardinality(U) /\ SumFunctionOnSet(f, T) = Cardinality(V)
      /\ SumFunctionOnSet(f, S \cup T) = Cardinality(U \cup V)
  BY <1>1, <1>2, SumIsCount
<1> HIDE DEF U, V
<1>4. /\ Cardinality(U \cap V) = 0 /\ Cardinality(U) \in Nat /\ Cardinality(V) \in Nat
  BY <1>1, <1>2, FS_EmptySet, FS_CardinalityType
<1>5. Cardinality(U \cup V) = Cardinality(U) + Cardinality(V) - Cardinality(U \cap V)
  BY <1>2, FS_Union
<1> QED BY <1>3, <1>4, <1>5

\* One summand more.
LEMMA SumGain ==
  ASSUME NEW S, IsFiniteSet(S), NEW r, r \notin S, NEW f, NEW g,
         DOMAIN f = S, DOMAIN g = S \cup {r},
         \A x \in S : f[x] \in Nat /\ g[x] = f[x], g[r] \in Nat
  PROVE  SumFunction(g) = g[r] + SumFunction(f)
<1>1. IsFiniteSet(S \cup {r}) /\ (S \cup {r}) \ {r} = S
  BY FS_AddElement
<1>2. \A x \in S \cup {r} : g[x] \in Nat
  OBVIOUS
<1>3. SumFunctionOnSet(g, S \cup {r}) = g[r] + SumFunctionOnSet(g, S)
  BY <1>1, <1>2, SumRemove
<1>4. SumFunctionOnSet(f, S) = SumFunctionOnSet(g, S)
  BY SumSame
<1> QED BY <1>3, <1>4 DEF SumFunction

\* One summand less.
LEMMA SumDrop ==
  ASSUME NEW S, IsFiniteSet(S), NEW r \in S, NEW T, T = S \ {r}, NEW f, NEW g,
         DOMAIN f = S, DOMAIN g = T,
         \A x \in S : f[x] \in Nat,
         \A x \in T : g[x] = f[x]
  PROVE  SumFunction(f) = f[r] + SumFunction(g)
<1>1. SumFunctionOnSet(f, S) = f[r] + SumFunctionOnSet(f, S \ {r})
  BY SumRemove
<1>2. IsFiniteSet(S \ {r})
  BY FS_RemoveElement
<1>3. SumFunctionOnSet(f, S \ {r}) = SumFunctionOnSet(g, S \ {r})
  BY <1>2, SumSame
<1> QED BY <1>1, <1>3 DEF SumFunction

\* One summand changed.
LEMMA SumSwap ==
  ASSUME NEW S, IsFiniteSet(S), NEW r \in S, NEW f, NEW g,
         DOMAIN f = S, DOMAIN g = S,
         \A x \in S : f[x] \in Nat /\ g[x] \in Nat /\ (x # r => g[x] = f[x])
  PROVE  SumFunction(g) - g[r] = SumFunction(f) - f[r]
<1>1. IsFiniteSet(S \ {r})
  BY FS_RemoveElement
<1>2. /\ SumFunctionOnSet(g, S) = g[r] + SumFunctionOnSet(g, S \ {r})
      /\ SumFunctionOnSet(f, S) = f[r] + SumFunctionOnSet(f, S \ {r})
  BY SumRemove
<1>3. SumFunctionOnSet(f, S \ {r}) = SumFunctionOnSet(g, S \ {r})
  BY <1>1, SumSame
<1>4. SumFunctionOnSet(f, S \ {r}) \in Nat
  BY <1>1, SumNat
<1> QED BY <1>2, <1>3, <1>4 DEF SumFunction

\* A summand is at most the sum.
LEMMA SumPart ==
  ASSUME NEW S, IsFiniteSet(S), NEW r \in S, NEW f, DOMAIN f = S, \A x \in S : f[x] \in Nat
  PROVE  f[r] <= SumFunction(f)
<1>1. SumFunctionOnSet(f, S) = f[r] + SumFunctionOnSet(f, S \ {r})
  BY SumRemove
<1>2. IsFiniteSet(S \ {r})
  BY FS_RemoveElement
<1>3. SumFunctionOnSet(f, S \ {r}) \in Nat
  BY <1>2, SumNat
<1> QED BY <1>1, <1>3 DEF SumFunction

\* The sum of a function with natural values.
LEMMA SumIsNat ==
  ASSUME NEW f, IsFiniteSet(DOMAIN f), \A x \in DOMAIN f : f[x] \in Nat
  PROVE  SumFunction(f) \in Nat
BY SumNat DEF SumFunction

-------------------------------------------------------------------------------
(*****************************************************************************)
(* What the counters show and hold.                                          *)
(*****************************************************************************)
\* Sets of events are finite and have natural sizes.
LEMMA EventSet ==
  ASSUME NEW S \in SUBSET Event
  PROVE  IsFiniteSet(S) /\ Bytes(S) \in Nat /\ Cardinality(S) \in Nat
<1>1. IsFiniteSet(S)
  BY AddressAssumption, FS_Subset
<1>2. \A e \in S : Size[e] \in Nat
  BY EventAssumption
<1> QED
  BY <1>1, <1>2, SumNat, FS_CardinalityType DEF Bytes

\* Disjoint sets of events.
LEMMA EventUnion ==
  ASSUME NEW S \in SUBSET Event, NEW T \in SUBSET Event, S \cap T = {}
  PROVE  /\ Bytes(S \cup T) = Bytes(S) + Bytes(T)
         /\ Cardinality(S \cup T) = Cardinality(S) + Cardinality(T)
<1>1. IsFiniteSet(S) /\ IsFiniteSet(T) /\ Cardinality(S) \in Nat /\ Cardinality(T) \in Nat
  BY EventSet
<1>2. \A e \in S \cup T : Size[e] \in Nat
  BY EventAssumption
<1>3. Cardinality(S \cap T) = 0
  BY FS_EmptySet
<1>4. Cardinality(S \cup T) = Cardinality(S) + Cardinality(T) - Cardinality(S \cap T)
  BY <1>1, FS_Union
<1> QED
  BY <1>1, <1>2, <1>3, <1>4, SumUnion DEF Bytes

\* A set of events and a part of it.
LEMMA EventWithin ==
  ASSUME NEW S \in SUBSET Event, NEW T \in SUBSET S
  PROVE  /\ Bytes(S \ T) = Bytes(S) - Bytes(T) /\ Bytes(T) <= Bytes(S)
         /\ Cardinality(S \ T) = Cardinality(S) - Cardinality(T)
         /\ Cardinality(T) <= Cardinality(S)
<1>1. S = (S \ T) \cup T /\ (S \ T) \cap T = {} /\ S \ T \in SUBSET Event /\ T \in SUBSET Event
  OBVIOUS
<1>2. /\ Bytes(S) \in Nat /\ Bytes(T) \in Nat /\ Bytes(S \ T) \in Nat
      /\ Cardinality(S) \in Nat /\ Cardinality(T) \in Nat /\ Cardinality(S \ T) \in Nat
  BY <1>1, EventSet
<1>3. /\ Bytes(S) = Bytes(S \ T) + Bytes(T)
      /\ Cardinality(S) = Cardinality(S \ T) + Cardinality(T)
  BY <1>1, EventUnion
<1> QED
  BY <1>2, <1>3

\* One event.
LEMMA EventAlone ==
  ASSUME NEW e \in Event
  PROVE  Bytes({e}) = Size[e] /\ Cardinality({e}) = 1
<1>1. IsFiniteSet({e}) /\ Cardinality({e}) = 1 /\ {e} \ {e} = {}
  BY FS_Singleton
<1>2. SumFunctionOnSet(Size, {e}) = Size[e] + SumFunctionOnSet(Size, {e} \ {e})
  BY <1>1, EventAssumption, SumRemove
<1>3. SumFunctionOnSet(Size, {}) = 0 /\ Size[e] \in Nat
  BY SumEmpty, EventAssumption
<1> QED
  BY <1>1, <1>2, <1>3 DEF Bytes

\* What a counter shows is events, the stored ones among them.
LEMMA ShownEvents ==
  ASSUME PoolOK, NEW s \in Scope
  PROVE  /\ Stored \in SUBSET Event /\ Owed(s) \in SUBSET Event /\ Shown(s) \in SUBSET Event
         /\ InScope(s, Stored) \in SUBSET Shown(s)
<1>1. Stored \in SUBSET Event /\ Owed(s) \in SUBSET Event
  BY DEF PoolOK, Stored, Owed
<1> QED
  BY <1>1 DEF Shown, InScope, By

\* A reservation never holds less than nothing.
LEMMA HeldNat ==
  ASSUME ReservationsOK, TokenScopes, WaysInv, NEW s \in Scope, NEW r \in reservationTokens[s],
         r \in Reservation
  PROVE  Held(r).bytes \in Nat /\ Held(r).count \in Nat
<1>1. /\ doc[r] \in Doc /\ delta[r] \in Amount \cup {None} /\ Covered(r)
  BY DEF ReservationsOK, TokenScopes, WaysInv, Straight
<1>2. doc[r].reserved.bytes \in Nat /\ doc[r].reserved.count \in Nat
  BY <1>1 DEF Doc
<1>3. CASE Written(r)
  <2>1. /\ delta[r] \in Amount
        /\ delta[r].bytes <= doc[r].reserved.bytes
        /\ delta[r].count <= doc[r].reserved.count
    BY <1>1, <1>3 DEF Covered, Written
  <2>2. delta[r].bytes \in Int /\ delta[r].count \in Int
    BY <2>1 DEF Amount
  <2> QED
    BY <1>2, <1>3, <2>1, <2>2 DEF Held
<1>4. CASE ~Written(r)
  BY <1>2, <1>4 DEF Held
<1> QED
  BY <1>3, <1>4

\* What makes every amount a natural number.
Solid == TokensInv /\ WaysInv /\ TokensFinite

\* The tokens of a counter, and what they hold.
LEMMA TokenKnown ==
  ASSUME Solid, NEW s \in Scope
  PROVE  /\ IsFiniteSet(reservationTokens[s])
         /\ \A r \in reservationTokens[s] :
              r \in Reservation /\ Held(r).bytes \in Nat /\ Held(r).count \in Nat
<1>1. reservationTokens[s] \subseteq Reservation
  BY DEF Solid, TokensInv, Control, ShapeOK, TokensOK
<1>2. ReservationsOK /\ TokenScopes /\ WaysInv
  BY DEF Solid, TokensInv, Control, ShapeOK
<1> QED
  BY <1>1, <1>2, HeldNat DEF Solid, TokensFinite

\* All amounts of a counter are natural numbers.
LEMMA SumsNat ==
  ASSUME Solid, NEW s \in Scope
  PROVE  /\ HeldBytes(s) \in Nat /\ HeldCount(s) \in Nat
         /\ Shown(s) \in SUBSET Event /\ Bytes(Shown(s)) \in Nat /\ Cardinality(Shown(s)) \in Nat
<1>1. PoolOK
  BY DEF Solid, TokensInv, Control, ShapeOK
<1>2. HeldBytes(s) \in Nat /\ HeldCount(s) \in Nat
  BY TokenKnown, SumIsNat DEF HeldBytes, HeldCount
<1> QED
  BY <1>1, <1>2, ShownEvents, EventSet

\* A counter nothing happens to.
LEMMA LedgerFrame ==
  ASSUME NEW s \in Scope, Balanced(s),
         logicalBytes'[s] = logicalBytes[s], manifestCount'[s] = manifestCount[s],
         reservationTokens'[s] = reservationTokens[s], Shown(s)' = Shown(s),
         \A r \in reservationTokens[s] : Held(r)' = Held(r)
  PROVE  Balanced(s)'
<1>1. /\ [r \in reservationTokens'[s] |-> Held(r)'.bytes] = [r \in reservationTokens[s] |-> Held(r).bytes]
      /\ [r \in reservationTokens'[s] |-> Held(r)'.count] = [r \in reservationTokens[s] |-> Held(r).count]
  OBVIOUS
<1>2. HeldBytes(s)' = HeldBytes(s) /\ HeldCount(s)' = HeldCount(s)
  BY <1>1 DEF HeldBytes, HeldCount
<1> QED
  BY <1>2 DEF Balanced

\* A counter that takes a reservation and charges what it holds.
LEMMA LedgerGain ==
  ASSUME Solid, NEW s \in Scope, Balanced(s), NEW r, r \notin reservationTokens[s],
         reservationTokens'[s] = reservationTokens[s] \cup {r},
         Held(r)'.bytes \in Nat, Held(r)'.count \in Nat,
         logicalBytes'[s] = logicalBytes[s] + Held(r)'.bytes,
         manifestCount'[s] = manifestCount[s] + Held(r)'.count,
         Shown(s)' = Shown(s),
         \A q \in reservationTokens[s] : Held(q)' = Held(q)
  PROVE  Balanced(s)'
<1>1. HeldBytes(s)' = Held(r)'.bytes + HeldBytes(s)
  BY TokenKnown, SumGain DEF HeldBytes
<1>2. HeldCount(s)' = Held(r)'.count + HeldCount(s)
  BY TokenKnown, SumGain DEF HeldCount
<1>3. /\ HeldBytes(s) \in Nat /\ HeldCount(s) \in Nat
      /\ Bytes(Shown(s)) \in Nat /\ Cardinality(Shown(s)) \in Nat
  BY SumsNat
<1> QED
  BY <1>1, <1>2, <1>3 DEF Balanced

\* A counter that loses a reservation and gives back what it held.
LEMMA LedgerLose ==
  ASSUME Solid, NEW s \in Scope, Balanced(s), NEW r \in reservationTokens[s],
         reservationTokens'[s] = reservationTokens[s] \ {r},
         logicalBytes'[s] = logicalBytes[s] - Held(r).bytes,
         manifestCount'[s] = manifestCount[s] - Held(r).count,
         Shown(s)' = Shown(s),
         \A q \in reservationTokens[s] : q # r => Held(q)' = Held(q)
  PROVE  Balanced(s)'
<1>1. IsFiniteSet(reservationTokens[s] \ {r})
  BY TokenKnown, FS_RemoveElement
<1>2. reservationTokens[s] = (reservationTokens[s] \ {r}) \cup {r}
  OBVIOUS
<1>3. HeldBytes(s) = Held(r).bytes + HeldBytes(s)'
  <2>1. PICK f : f = [q \in reservationTokens[s] |-> Held(q).bytes]
    OBVIOUS
  <2>2. PICK g : g = [q \in reservationTokens'[s] |-> Held(q)'.bytes]
    OBVIOUS
  <2>3. HeldBytes(s) = SumFunction(f) /\ HeldBytes(s)' = SumFunction(g)
    BY <2>1, <2>2 DEF HeldBytes
  <2>4. PICK S : S = reservationTokens[s]
    OBVIOUS
  <2>7. PICK T : T = S \ {r}
    OBVIOUS
  <2>5. /\ r \in S /\ IsFiniteSet(S) /\ DOMAIN f = S /\ DOMAIN g = T
        /\ \A x \in S : f[x] \in Nat
        /\ \A x \in T : g[x] = f[x]
    BY <1>1, <1>2, <2>1, <2>2, <2>4, <2>7, TokenKnown
  <2>6. SumFunction(f) = f[r] + SumFunction(g)
    BY <2>5, <2>7, SumDrop
  <2>8. f[r] = Held(r).bytes
    BY <2>1
  <2> QED
    BY <2>3, <2>6, <2>8
<1>4. HeldCount(s) = Held(r).count + HeldCount(s)'
  <2>1. PICK f : f = [q \in reservationTokens[s] |-> Held(q).count]
    OBVIOUS
  <2>2. PICK g : g = [q \in reservationTokens'[s] |-> Held(q)'.count]
    OBVIOUS
  <2>3. HeldCount(s) = SumFunction(f) /\ HeldCount(s)' = SumFunction(g)
    BY <2>1, <2>2 DEF HeldCount
  <2>4. PICK S : S = reservationTokens[s]
    OBVIOUS
  <2>7. PICK T : T = S \ {r}
    OBVIOUS
  <2>5. /\ r \in S /\ IsFiniteSet(S) /\ DOMAIN f = S /\ DOMAIN g = T
        /\ \A x \in S : f[x] \in Nat
        /\ \A x \in T : g[x] = f[x]
    BY <1>1, <1>2, <2>1, <2>2, <2>4, <2>7, TokenKnown
  <2>6. SumFunction(f) = f[r] + SumFunction(g)
    BY <2>5, <2>7, SumDrop
  <2>8. f[r] = Held(r).count
    BY <2>1
  <2> QED
    BY <2>3, <2>6, <2>8
<1>5. HeldBytes(s)' \in Nat /\ HeldCount(s)' \in Nat
  <2>1. \A q \in reservationTokens'[s] : Held(q)'.bytes \in Nat /\ Held(q)'.count \in Nat
    BY TokenKnown
  <2> QED
    BY <1>1, <2>1, SumIsNat DEF HeldBytes, HeldCount
<1>6. /\ Held(r).bytes \in Nat /\ Held(r).count \in Nat
      /\ Bytes(Shown(s)) \in Nat /\ Cardinality(Shown(s)) \in Nat
  BY SumsNat, TokenKnown
<1> QED
  BY <1>3, <1>4, <1>5, <1>6 DEF Balanced

\* A reservation holds a part of what all of them do.
LEMMA HoldsPart ==
  ASSUME Solid, NEW s \in Scope, NEW r \in reservationTokens[s]
  PROVE  Held(r).bytes <= HeldBytes(s) /\ Held(r).count <= HeldCount(s)
<1>1. PICK f : f = [q \in reservationTokens[s] |-> Held(q).bytes]
  OBVIOUS
<1>2. PICK g : g = [q \in reservationTokens[s] |-> Held(q).count]
  OBVIOUS
<1>3. PICK S : S = reservationTokens[s]
  OBVIOUS
<1>4. /\ r \in S /\ IsFiniteSet(S) /\ DOMAIN f = S /\ DOMAIN g = S
      /\ \A x \in S : f[x] \in Nat
      /\ \A x \in S : g[x] \in Nat
  BY <1>1, <1>2, <1>3, TokenKnown
<1>5. f[r] <= SumFunction(f) /\ g[r] <= SumFunction(g)
  BY <1>4, SumPart
<1> QED
  BY <1>1, <1>2, <1>5 DEF HeldBytes, HeldCount

\* A manifest is written: what the reservation held is shown instead.
LEMMA LedgerSwap ==
  ASSUME Solid, NEW s \in Scope, Balanced(s), NEW r \in reservationTokens[s],
         reservationTokens'[s] = reservationTokens[s],
         logicalBytes'[s] = logicalBytes[s], manifestCount'[s] = manifestCount[s],
         Held(r)'.bytes \in Nat, Held(r)'.count \in Nat,
         Shown(s)' \in SUBSET Event,
         Bytes(Shown(s)') + Held(r)'.bytes = Bytes(Shown(s)) + Held(r).bytes,
         Cardinality(Shown(s)') + Held(r)'.count = Cardinality(Shown(s)) + Held(r).count,
         \A q \in reservationTokens[s] : q # r => Held(q)' = Held(q)
  PROVE  Balanced(s)'
<1>0. \A q \in reservationTokens[s] : Held(q)'.bytes \in Nat /\ Held(q)'.count \in Nat
  BY TokenKnown
<1>1. HeldBytes(s)' - Held(r)'.bytes = HeldBytes(s) - Held(r).bytes
  <2>1. PICK f : f = [q \in reservationTokens[s] |-> Held(q).bytes]
    OBVIOUS
  <2>2. PICK g : g = [q \in reservationTokens'[s] |-> Held(q)'.bytes]
    OBVIOUS
  <2>3. HeldBytes(s) = SumFunction(f) /\ HeldBytes(s)' = SumFunction(g)
    BY <2>1, <2>2 DEF HeldBytes
  <2>4. PICK S : S = reservationTokens[s]
    OBVIOUS
  <2>5. /\ r \in S /\ IsFiniteSet(S) /\ DOMAIN f = S /\ DOMAIN g = S
        /\ f[r] = Held(r).bytes /\ g[r] = Held(r)'.bytes
        /\ \A x \in S : f[x] \in Nat /\ g[x] \in Nat /\ (x # r => g[x] = f[x])
    BY <1>0, <2>1, <2>2, <2>4, TokenKnown
  <2>6. SumFunction(g) - g[r] = SumFunction(f) - f[r]
    BY <2>5, SumSwap
  <2> QED
    BY <2>3, <2>5, <2>6
<1>2. HeldCount(s)' - Held(r)'.count = HeldCount(s) - Held(r).count
  <2>1. PICK f : f = [q \in reservationTokens[s] |-> Held(q).count]
    OBVIOUS
  <2>2. PICK g : g = [q \in reservationTokens'[s] |-> Held(q)'.count]
    OBVIOUS
  <2>3. HeldCount(s) = SumFunction(f) /\ HeldCount(s)' = SumFunction(g)
    BY <2>1, <2>2 DEF HeldCount
  <2>4. PICK S : S = reservationTokens[s]
    OBVIOUS
  <2>5. /\ r \in S /\ IsFiniteSet(S) /\ DOMAIN f = S /\ DOMAIN g = S
        /\ f[r] = Held(r).count /\ g[r] = Held(r)'.count
        /\ \A x \in S : f[x] \in Nat /\ g[x] \in Nat /\ (x # r => g[x] = f[x])
    BY <1>0, <2>1, <2>2, <2>4, TokenKnown
  <2>6. SumFunction(g) - g[r] = SumFunction(f) - f[r]
    BY <2>5, SumSwap
  <2> QED
    BY <2>3, <2>5, <2>6
<1>3. HeldBytes(s)' \in Nat /\ HeldCount(s)' \in Nat
  BY <1>0, TokenKnown, SumIsNat DEF HeldBytes, HeldCount
<1>4. /\ HeldBytes(s) \in Nat /\ HeldCount(s) \in Nat
      /\ Bytes(Shown(s)) \in Nat /\ Cardinality(Shown(s)) \in Nat
      /\ Held(r).bytes \in Nat /\ Held(r).count \in Nat
  BY SumsNat, TokenKnown
<1>5. Bytes(Shown(s)') \in Nat /\ Cardinality(Shown(s)') \in Nat
  <2>1. PICK S \in SUBSET Event : S = Shown(s)'
    OBVIOUS
  <2> QED BY <2>1, EventSet
<1>6. Bytes(Shown(s))' = Bytes(Shown(s)') /\ Cardinality(Shown(s))' = Cardinality(Shown(s)')
  BY DEF Bytes
<1> QED
  BY <1>1, <1>2, <1>3, <1>4, <1>5, <1>6 DEF Balanced

\* Events are charged that were shown.
LEMMA LedgerShown ==
  ASSUME Solid, NEW s \in Scope, Balanced(s),
         reservationTokens'[s] = reservationTokens[s],
         NEW T \in SUBSET Shown(s), Shown(s)' = Shown(s) \ T,
         logicalBytes'[s] = logicalBytes[s] - Bytes(T),
         manifestCount'[s] = manifestCount[s] - Cardinality(T),
         \A r \in reservationTokens[s] : Held(r)' = Held(r)
  PROVE  Balanced(s)'
<1>1. /\ [r \in reservationTokens'[s] |-> Held(r)'.bytes] = [r \in reservationTokens[s] |-> Held(r).bytes]
      /\ [r \in reservationTokens'[s] |-> Held(r)'.count] = [r \in reservationTokens[s] |-> Held(r).count]
  OBVIOUS
<1>2. HeldBytes(s)' = HeldBytes(s) /\ HeldCount(s)' = HeldCount(s)
  BY <1>1 DEF HeldBytes, HeldCount
<1>3. /\ HeldBytes(s) \in Nat /\ HeldCount(s) \in Nat /\ Shown(s) \in SUBSET Event
      /\ Bytes(Shown(s)) \in Nat /\ Cardinality(Shown(s)) \in Nat
  BY SumsNat
<1>4. PICK S : S = Shown(s)
  OBVIOUS
<1>5. T \in SUBSET Event /\ S \in SUBSET Event /\ T \in SUBSET S
  BY <1>3, <1>4
<1>6. Bytes(T) \in Nat /\ Cardinality(T) \in Nat
  BY <1>5, EventSet
<1>7. Bytes(S \ T) = Bytes(S) - Bytes(T) /\ Cardinality(S \ T) = Cardinality(S) - Cardinality(T)
  BY <1>5, EventWithin
<1>8. Bytes(Shown(s))' = Bytes(S \ T) /\ Cardinality(Shown(s))' = Cardinality(S \ T)
  BY <1>4 DEF Bytes
<1> QED
  BY <1>2, <1>3, <1>4, <1>6, <1>7, <1>8 DEF Balanced

\* No counter moves and nothing they show or hold does.
LEMMA LedgerStill ==
  ASSUME LedgerBalances, UNCHANGED << logicalBytes, manifestCount, reservationTokens >>,
         \A s \in Scope : Shown(s)' = Shown(s),
         \A s \in Scope : \A r \in reservationTokens[s] : Held(r)' = Held(r)
  PROVE  LedgerBalances'
<1>1. ASSUME NEW s \in Scope PROVE Balanced(s)'
  BY LedgerFrame DEF LedgerBalances, Balanced, Shown
<1> QED
  BY <1>1 DEF LedgerBalances, Balanced, Shown

\* What a counter shows depends on what is stored and on open deletions.
LEMMA ShownSame ==
  ASSUME NEW s \in Scope, UNCHANGED << event, selected >>,
         accountingTokens'[s] = accountingTokens[s],
         \A d \in Deletion : phase'[d] = phase[d]
  PROVE  Shown(s)' = Shown(s)
<1>1. Owed(s)' = Owed(s) /\ Stored' = Stored
  BY DEF Owed, Stored
<1> QED
  BY <1>1 DEF Shown, InScope, By

\* What a reservation holds depends on its document and on what is stored.
LEMMA HeldSame ==
  ASSUME NEW r, event' = event, phase'[r] = phase[r], doc'[r].event = doc[r].event,
         doc'[r].reserved = doc[r].reserved, delta'[r] = delta[r]
  PROVE  Held(r)' = Held(r)
BY DEF Held, Written

\* A reservation that is not written holds what it reserved.
LEMMA HeldUnwritten ==
  ASSUME NEW r, ~Written(r), ~Written(r)', doc'[r].reserved = doc[r].reserved
  PROVE  Held(r)' = Held(r)
BY DEF Held

\* reserveCounter charges what the new token holds.
LEMMA LedgerReserve ==
  ASSUME Solid, AmountsOK, LedgerBalances, NEW r \in Reservation, NEW s \in Scope,
         phase[r] = "none", r \notin reservationTokens[s], doc[r] \in Doc,
         ReserveCounter(s, r, doc[r].reserved.bytes, doc[r].reserved.count),
         UNCHANGED << event, selected, phase, doc, delta >>
  PROVE  LedgerBalances' /\ AmountsOK' /\ TokensFinite'
<1>1. doc[r].reserved.bytes \in Nat /\ doc[r].reserved.count \in Nat
  BY DEF Doc
<1>2. /\ logicalBytes' = [logicalBytes EXCEPT ![s] = logicalBytes[s] + doc[r].reserved.bytes]
      /\ manifestCount' = [manifestCount EXCEPT ![s] = manifestCount[s] + doc[r].reserved.count]
      /\ reservationTokens' = [reservationTokens EXCEPT ![s] = reservationTokens[s] \cup {r}]
      /\ accountingTokens' = accountingTokens
  <2>1. logicalBytes[s] \in Nat /\ manifestCount[s] \in Nat
    BY DEF AmountsOK
  <2>2. /\ AtLeastZero(logicalBytes[s] + doc[r].reserved.bytes) = logicalBytes[s] + doc[r].reserved.bytes
        /\ AtLeastZero(manifestCount[s] + doc[r].reserved.count) = manifestCount[s] + doc[r].reserved.count
    BY <1>1, <2>1 DEF AtLeastZero
  <2> QED
    BY <2>2 DEF ReserveCounter, Charge
<1>3. \A t \in Scope : Shown(t)' = Shown(t)
  BY <1>2, ShownSame
<1>4. \A q : Held(q)' = Held(q)
  BY HeldSame
<1>5. Held(r) = doc[r].reserved
  BY DEF Held, Written
<1>6. TokensOK
  BY DEF Solid, TokensInv, Control, ShapeOK
<1>7. ASSUME NEW t \in Scope PROVE Balanced(t)'
  <2>1. Balanced(t)
    BY DEF LedgerBalances, Balanced, Shown
  <2>2. CASE t = s
    <3>1. /\ logicalBytes'[t] = logicalBytes[t] + Held(r)'.bytes
          /\ manifestCount'[t] = manifestCount[t] + Held(r)'.count
          /\ reservationTokens'[t] = reservationTokens[t] \cup {r}
          /\ Held(r)'.bytes \in Nat /\ Held(r)'.count \in Nat
      BY <1>1, <1>2, <1>4, <1>5, <1>6, <2>2 DEF AmountsOK, TokensOK
    <3> QED
      BY <1>3, <1>4, <2>1, <2>2, <3>1, LedgerGain
  <2>3. CASE t # s
    <3>1. /\ logicalBytes'[t] = logicalBytes[t] /\ manifestCount'[t] = manifestCount[t]
          /\ reservationTokens'[t] = reservationTokens[t]
      BY <1>2, <2>3
    <3> QED
      BY <1>3, <1>4, <2>1, <3>1, LedgerFrame
  <2> QED
    BY <2>2, <2>3
<1>8. LedgerBalances'
  BY <1>7 DEF LedgerBalances, Balanced, Shown
<1>9. AmountsOK'
  BY <1>1, <1>2 DEF AmountsOK
<1>10. TokensFinite'
  <2>1. IsFiniteSet(reservationTokens[s] \cup {r})
    BY FS_AddElement DEF Solid, TokensFinite
  <2> QED
    BY <1>2, <1>6, <2>1 DEF Solid, TokensFinite, TokensOK
<1> QED
  BY <1>8, <1>9, <1>10

\* What a step of reserveManifestCapacity does to the counters.
Reserves(r, s) ==
  /\ \/ s = Global /\ pc[r] = "global"
     \/ s = AuthorScope(r) /\ pc[r] = "author"
  /\ \/ ReserveCounter(s, r, doc[r].reserved.bytes, doc[r].reserved.count)
     \/ UNCHANGED counterVars
  /\ UNCHANGED << event, selected, phase, doc, delta >>

\* Every step of save().
LEMMA LedgerSaver ==
  ASSUME Solid, AmountsOK, LedgerBalances, NEW r \in Reservation, Saver(r) \/ SaverCrash(r)
  PROVE  LedgerBalances' /\ AmountsOK' /\ TokensFinite'
<1>0. /\ ReservationsOK /\ PoolOK /\ TokensOK /\ r \in Actor /\ r \in OpKey /\ r \notin Deletion
      /\ Untouched /\ Refused /\ DocKnown /\ TokenScopes
  BY KeysDiffer DEF Solid, TokensInv, Control, ShapeOK
<1> USE DEF reservationVars, queueVars
<1>1. ASSUME NEW s \in Scope, Reserves(r, s)
      PROVE  LedgerBalances' /\ AmountsOK' /\ TokensFinite'
  <2>1. /\ phase[r] = "none" /\ doc[r] \in Doc
    BY <1>0, <1>1 DEF Reserves, Untouched, Early, DocKnown
  <2>2. r \notin reservationTokens[s]
    <3>1. AuthorScope(r) # Global
      BY <2>1, AuthorScopeType, GlobalAssumption
    <3> QED
      BY <1>0, <1>1, <3>1 DEF Reserves, Refused
  <2>3. CASE ReserveCounter(s, r, doc[r].reserved.bytes, doc[r].reserved.count)
    BY <1>1, <2>1, <2>2, <2>3, LedgerReserve DEF Reserves
  <2>4. CASE UNCHANGED counterVars
    <3>1. /\ UNCHANGED << logicalBytes, manifestCount, reservationTokens, accountingTokens >>
          /\ UNCHANGED << event, selected, phase, doc, delta >>
      BY <1>1, <2>4 DEF Reserves, counterVars
    <3>2. LedgerBalances'
      BY <3>1, LedgerStill, ShownSame, HeldSame
    <3> QED
      BY <3>1, <3>2 DEF AmountsOK, TokensFinite, Solid
  <2> QED
    BY <1>1, <2>3, <2>4 DEF Reserves
<1>2. CASE SaverGlobal(r) \/ SaverAuthor(r)
  <2>1. CASE SaverGlobal(r)
    <3>1. Global \in Scope
      BY DEF Scope
    <3>2. Reserves(r, Global)
      BY <2>1 DEF SaverGlobal, Reserve, Reserves
    <3> QED
      BY <1>1, <3>1, <3>2
  <2>2. CASE SaverAuthor(r)
    <3>1. AuthorScope(r) \in Scope
      BY <1>0, <2>2, AuthorScopeType DEF SaverAuthor, DocKnown, Scope
    <3>2. Reserves(r, AuthorScope(r))
      BY <2>2 DEF SaverAuthor, Reserve, Reserves
    <3> QED
      BY <1>1, <3>1, <3>2
  <2> QED
    BY <1>2, <2>1, <2>2
<1>3. CASE ~(SaverGlobal(r) \/ SaverAuthor(r))
  <2>1. /\ UNCHANGED << logicalBytes, manifestCount, reservationTokens, accountingTokens >>
        /\ UNCHANGED << event, selected, delta >>
        /\ \A o \in OpKey : o # r => phase'[o] = phase[o]
        /\ phase'[r] = phase[r] \/ (pc[r] = "enqueue" /\ phase'[r] = "queued")
    BY <1>0, <1>3
      DEF Saver, SaverCrash, BeginSave, SaverMark, SaverReject, SaverEnqueue, SaverEnqueueFails,
        SaverCancelled, Enqueue, PoolOK, counterVars
  <2>2. \A q \in Reservation : q # r => doc'[q] = doc[q]
    BY <1>0, <1>3
      DEF Saver, SaverCrash, BeginSave, SaverMark, SaverReject, SaverEnqueue, SaverEnqueueFails,
        SaverCancelled, Reject, ReservationsOK
  <2>3. \/ pc[r] = "idle"
        \/ doc'[r].event = doc[r].event /\ doc'[r].reserved = doc[r].reserved
    <3>1. CASE SaverReject(r)
      <4>1. doc[r] \in Doc
        BY <1>0, <3>1 DEF SaverReject, DocKnown
      <4> QED
        BY <1>0, <3>1, <4>1, RejectKeeps DEF SaverReject, ReservationsOK
    <3>2. CASE ~SaverReject(r)
      BY <1>0, <1>3, <3>2
        DEF Saver, SaverCrash, BeginSave, SaverMark, SaverEnqueue, SaverEnqueueFails, SaverCancelled
    <3> QED
      BY <3>1, <3>2
  <2>4. \A s \in Scope : Shown(s)' = Shown(s)
    BY <1>0, <2>1, ShownSame DEF OpKey
  <2>5. ASSUME NEW s \in Scope, NEW q \in reservationTokens[s] PROVE Held(q)' = Held(q)
    <3>1. q \in Reservation /\ q \in OpKey
      BY <1>0, <2>5 DEF TokensOK, OpKey
    <3>2. CASE q # r
      BY <2>1, <2>2, <3>1, <3>2, HeldSame
    <3>3. CASE q = r
      <4>1. doc'[r].event = doc[r].event /\ doc'[r].reserved = doc[r].reserved
        BY <1>0, <2>3, <2>5, <3>3 DEF Refused
      <4>2. CASE phase'[r] = phase[r]
        BY <2>1, <3>3, <4>1, <4>2, HeldSame
      <4>3. CASE pc[r] = "enqueue" /\ phase'[r] = "queued"
        <5>1. ~Written(r) /\ ~Written(r)'
          BY <1>0, <4>3 DEF Written, Untouched, Early
        <5> QED
          BY <3>3, <4>1, <5>1, HeldUnwritten
      <4> QED
        BY <2>1, <4>2, <4>3
    <3> QED
      BY <3>2, <3>3
  <2>6. LedgerBalances'
    BY <2>1, <2>4, <2>5, LedgerStill
  <2> QED
    BY <2>1, <2>6 DEF AmountsOK, TokensFinite, Solid
<1> QED
  BY <1>2, <1>3

\* What is released is what the token held, so that no clamp is reached.
LEMMA LedgerRelease ==
  ASSUME Solid, AmountsOK, LedgerBalances, NEW s \in Scope, NEW r \in reservationTokens[s],
         NEW b, NEW n, b = -Held(r).bytes, n = -Held(r).count, Charge(s, b, n),
         reservationTokens' = [reservationTokens EXCEPT ![s] = @ \ {r}],
         UNCHANGED << accountingTokens, event, selected, phase, doc, delta >>
  PROVE  LedgerBalances' /\ AmountsOK' /\ TokensFinite'
<1>1. Held(r).bytes \in Nat /\ Held(r).count \in Nat /\ TokensOK
  BY TokenKnown DEF Solid, TokensInv, Control, ShapeOK
<1>2. logicalBytes[s] - Held(r).bytes \in Nat /\ manifestCount[s] - Held(r).count \in Nat
  <2>1. /\ HeldBytes(s) \in Nat /\ HeldCount(s) \in Nat
        /\ Bytes(Shown(s)) \in Nat /\ Cardinality(Shown(s)) \in Nat
    BY SumsNat
  <2>2. /\ logicalBytes[s] = Bytes(Shown(s)) + HeldBytes(s)
        /\ manifestCount[s] = Cardinality(Shown(s)) + HeldCount(s)
    BY DEF LedgerBalances, Shown
  <2>3. Held(r).bytes <= HeldBytes(s) /\ Held(r).count <= HeldCount(s)
    BY HoldsPart
  <2> QED
    BY <1>1, <2>1, <2>2, <2>3
<1>3. /\ logicalBytes' = [logicalBytes EXCEPT ![s] = logicalBytes[s] - Held(r).bytes]
      /\ manifestCount' = [manifestCount EXCEPT ![s] = manifestCount[s] - Held(r).count]
  <2>1. logicalBytes[s] \in Nat /\ manifestCount[s] \in Nat
    BY DEF AmountsOK
  <2>2. /\ AtLeastZero(logicalBytes[s] + b) = logicalBytes[s] - Held(r).bytes
        /\ AtLeastZero(manifestCount[s] + n) = manifestCount[s] - Held(r).count
    BY <1>1, <1>2, <2>1 DEF AtLeastZero
  <2> QED
    BY <2>2 DEF Charge
<1>4. \A t \in Scope : Shown(t)' = Shown(t)
  BY ShownSame
<1>5. \A q : Held(q)' = Held(q)
  BY HeldSame
<1>6. ASSUME NEW t \in Scope PROVE Balanced(t)'
  <2>1. Balanced(t)
    BY DEF LedgerBalances, Balanced, Shown
  <2>2. CASE t = s
    <3>1. /\ logicalBytes'[t] = logicalBytes[t] - Held(r).bytes
          /\ manifestCount'[t] = manifestCount[t] - Held(r).count
          /\ reservationTokens'[t] = reservationTokens[t] \ {r}
      BY <1>1, <1>3, <2>2 DEF AmountsOK, TokensOK
    <3> QED
      BY <1>4, <1>5, <2>1, <2>2, <3>1, LedgerLose
  <2>3. CASE t # s
    <3>1. /\ logicalBytes'[t] = logicalBytes[t] /\ manifestCount'[t] = manifestCount[t]
          /\ reservationTokens'[t] = reservationTokens[t]
      BY <1>3, <2>3
    <3> QED
      BY <1>4, <1>5, <2>1, <3>1, LedgerFrame
  <2> QED
    BY <2>2, <2>3
<1>7. LedgerBalances'
  BY <1>6 DEF LedgerBalances, Balanced, Shown
<1>8. AmountsOK'
  BY <1>1, <1>2, <1>3 DEF AmountsOK
<1>9. TokensFinite'
  <2>1. IsFiniteSet(reservationTokens[s] \ {r})
    BY FS_RemoveElement DEF Solid, TokensFinite
  <2> QED
    BY <1>1, <2>1 DEF Solid, TokensFinite, TokensOK
<1> QED
  BY <1>7, <1>8, <1>9

\* Every step of a run of finalize or cancel.
LEMMA LedgerCall ==
  ASSUME Solid, AmountsOK, LedgerBalances, NEW a \in Actor, CallNext(a),
         UNCHANGED << event, queueVars, workVars >>
  PROVE  LedgerBalances' /\ AmountsOK' /\ TokensFinite'
<1> USE DEF queueVars
<1>0. TokensInv /\ WaysInv /\ Control
  BY DEF Solid, TokensInv
<1>1. doc' = doc /\ delta' = delta
  BY <1>0, CallTouches
<1>2. CASE UNCHANGED << logicalBytes, manifestCount, reservationTokens, accountingTokens >>
  <2>1. LedgerBalances'
    BY <1>1, <1>2, LedgerStill, ShownSame, HeldSame
  <2> QED
    BY <1>2, <2>1 DEF AmountsOK, TokensFinite, Solid
<1>3. CASE ~UNCHANGED << logicalBytes, manifestCount, reservationTokens, accountingTokens >>
  <2>1. CallSettle(a)
    BY <1>3 DEF CallNext, CallRead, CallFlag, CallState, CallClear, ClearSettlement, counterVars
  <2>2. PICK c : c = call[a]
    OBVIOUS
  <2>3. PICK r : r = c.r
    OBVIOUS
  <2>4. PICK s : s = c.scope
    OBVIOUS
  <2>5. c.step = "settle"
    BY <2>1, <2>2 DEF CallSettle
  <2>6. /\ r \in Reservation /\ s \in Scope /\ c.outcome \in Outcome /\ doc[r] \in Doc
        /\ Straight(r) /\ CallOneWay(c)
    BY <1>0, <2>2, <2>3, <2>4, <2>5, CallKnows
  <2>7. /\ r \in reservationTokens[s]
        /\ reservationTokens' = [reservationTokens EXCEPT ![s] = @ \ {r}]
        /\ UNCHANGED accountingTokens
        /\ c.outcome = "commit" =>
             Charge(s, c.delta.bytes - doc[r].reserved.bytes, c.delta.count - doc[r].reserved.count)
        /\ c.outcome = "cancel" =>
             Charge(s, 0 - doc[r].reserved.bytes, 0 - doc[r].reserved.count)
    BY <1>3, <2>1, <2>2, <2>3, <2>4 DEF CallSettle, SettleCounter, counterVars
  <2>8. doc[r].reserved.bytes \in Nat /\ doc[r].reserved.count \in Nat
    BY <2>6 DEF Doc
  <2>9. CASE c.outcome = "commit"
    <3>1. Applied(r) /\ c.delta = delta[r] /\ state[r] \in Live
      BY <1>0, <2>3, <2>5, <2>6, <2>7, <2>9 DEF CallOneWay, TokensInv, ReservationTokensOwned
    <3>2. Stage(r) /\ Covered(r)
      BY <2>6 DEF Straight, Placed
    <3>3. Written(r)
      BY <3>1, <3>2 DEF Stage, Applied, Live, Terminal
    <3>4. delta[r] \in Amount
      BY <1>0, <2>6, <3>2, <3>3 DEF Written, Covered, Control, ShapeOK, ReservationsOK
    <3>5. delta[r].bytes \in Int /\ delta[r].count \in Int
      BY <3>4 DEF Amount
    <3>6. /\ Held(r).bytes = doc[r].reserved.bytes - delta[r].bytes
          /\ Held(r).count = doc[r].reserved.count - delta[r].count
      BY <3>3 DEF Held
    <3>7. /\ c.delta.bytes - doc[r].reserved.bytes = -Held(r).bytes
          /\ c.delta.count - doc[r].reserved.count = -Held(r).count
      BY <2>8, <3>1, <3>5, <3>6
    <3> QED
      BY <1>1, <2>6, <2>7, <2>9, <3>7, LedgerRelease
  <2>10. CASE c.outcome = "cancel"
    <3>1. Dropped(r) /\ Stage(r)
      BY <2>3, <2>5, <2>6, <2>10 DEF CallOneWay, Straight, Placed
    <3>2. ~Written(r)
      BY <3>1 DEF Dropped, Stage, Written
    <3>3. Held(r) = doc[r].reserved
      BY <3>2 DEF Held
    <3>4. /\ 0 - doc[r].reserved.bytes = -Held(r).bytes
          /\ 0 - doc[r].reserved.count = -Held(r).count
      BY <2>8, <3>3
    <3> QED
      BY <1>1, <2>6, <2>7, <2>10, <3>4, LedgerRelease
  <2> QED
    BY <2>6, <2>9, <2>10 DEF Outcome
<1> QED
  BY <1>2, <1>3

-------------------------------------------------------------------------------
(*****************************************************************************)
(* Writing a manifest.                                                       *)
(*****************************************************************************)
\* What the upsert of r knows when it writes a manifest that is not there yet.
Writes(r) ==
  LET e == doc[r].event
      x == KeyOf(r)
  IN /\ r = cur /\ r \in Reservation /\ e \in Event /\ x \in Ref /\ event[x] # e
     /\ pc[Processor] = "apply" /\ phase[r] = "prepared"
     /\ event' = [event EXCEPT ![x] = e]
     /\ ~Wins(event[x], e)
     /\ state[r] = "prepared" /\ Exact(r) /\ Covered(r)
     /\ \A s \in Scopes(r) : r \in reservationTokens[s]
     /\ UNCHANGED << counterVars, selected, phase, doc, delta, state >>

\* addDocuments in processManifestUpsert writes for a covered reservation only.
LEMMA ApplyWrites ==
  ASSUME TokensInv, QueueInv, WaysInv, Upsert
  PROVE  event' = event \/ Writes(cur)
<1>0. UpsertMoves
  BY UpsertStepMoves DEF TokensInv
<1>1. PICK r : r = cur
  OBVIOUS
<1>2. /\ r \in Reservation /\ phase[r] \notin {"none", "gone"} /\ doc[r] \in Doc /\ PoolOK
      /\ Straight(r) /\ UpsertAt(pc[Processor], r)
  BY <1>0, <1>1 DEF UpsertMoves, TokensInv, Control, ShapeOK, CurOwned, DocKnown, UpsertPc,
    WaysInv, Upserting
<1>3. doc[r].event \in Event /\ KeyOf(r) \in Ref
  BY <1>2, EventAssumption DEF Doc, KeyOf
<1>4. event' = event \/ UpsertApply
  BY DEF Upsert, UpsertOpen, UpsertCheck, PatchOp, UpsertApplied, UpsertFinalize,
    UpsertFinalized, UpsertFailed, UpsertCompensate, UpsertCancelled
<1>5. CASE UpsertApply /\ event' # event
  <2>1. /\ ~Wins(event[KeyOf(r)], doc[r].event) /\ pc[Processor] = "apply"
        /\ event' = [event EXCEPT ![KeyOf(r)] = doc[r].event]
        /\ UNCHANGED << counterVars, selected, phase, doc, delta, state >>
    BY <1>1, <1>5 DEF UpsertApply, At, Candidate, Current, KeyOf, queueVars
  <2>2. event[KeyOf(r)] # doc[r].event
    BY <1>2, <1>3, <1>5, <2>1 DEF PoolOK
  <2>3. phase[r] = "prepared" /\ ~Written(r)
    BY <1>2, <2>1, <2>2 DEF UpsertAt, Written, KeyOf
  <2>4. state[r] = "prepared"
    BY <1>2, <2>3 DEF Straight, Placed, Stage
  <2>5. \A s \in Scopes(r) : r \in reservationTokens[s]
    BY <1>2, <2>3, <2>4 DEF Straight, Backed
  <2> QED
    BY <1>1, <1>2, <1>3, <2>1, <2>2, <2>3, <2>4, <2>5 DEF Writes, Straight
<1> QED
  BY <1>4, <1>5

\* Nothing is owed and nothing else is written while an upsert runs.
LEMMA NothingElse ==
  ASSUME Control, QueueInv, NEW r \in Reservation, r = cur, pc[Processor] # "idle"
  PROVE  /\ \A s \in Scope : Owed(s) = {}
         /\ \A q \in Reservation : q # r => ~Written(q) /\ phase[q] \notin {"prepared", "event_applied", "accounting_applied"}
<1>1. PoolOK
  BY DEF Control, ShapeOK
<1>2. \A o \in OpKey : o # r => phase[o] \in {"none", "queued", "gone"}
  BY <1>1, Front DEF Begun, Started, Queued
<1>3. \A d \in Deletion : d \in OpKey /\ d # r
  BY KeysDiffer
<1>4. \A q \in Reservation : q \in OpKey
  BY KeysDiffer
<1> QED
  BY <1>2, <1>3, <1>4 DEF Owed, Written

\* A write exchanges the manifest at its address, which is of the same author.
LEMMA WriteShows ==
  ASSUME TokensInv, QueueInv, WaysInv, NEW r, Writes(r), NEW s \in Scope
  PROVE  LET e == doc[r].event
             old == event[KeyOf(r)]
         IN /\ s \notin Scopes(r) => Shown(s)' = Shown(s)
            /\ s \in Scopes(r) => /\ e \notin Shown(s)
                                  /\ old # None => old \in Shown(s)
                                  /\ Shown(s)' = (Shown(s) \ {old}) \cup {e}
<1> DEFINE e == doc[r].event
           x == KeyOf(r)
           old == event[x]
<1>1. /\ r \in Reservation /\ e \in Event /\ x \in Ref /\ x = RefOf[e] /\ e # old /\ e # None
      /\ event' = [event EXCEPT ![x] = e] /\ event \in [Ref -> Event \cup {None}] /\ AtHome
      /\ Control /\ pc[Processor] # "idle" /\ r = cur
  BY EventAssumption DEF Writes, KeyOf, TokensInv, Control, ShapeOK, PoolOK, WaysInv
<1>2. Owed(s) = {} /\ Owed(s)' = {}
  <2>1. Owed(s) = {}
    BY <1>1, NothingElse
  <2>2. Owed(s)' = Owed(s)
    BY DEF Writes, Owed, counterVars
  <2> QED
    BY <2>1, <2>2
<1>3. e \notin Stored /\ (old # None => old \in Stored) /\ Stored' = (Stored \ {old}) \cup {e}
  <2>1. \A y \in Ref : event[y] # None => RefOf[event[y]] = y
    BY <1>1 DEF AtHome
  <2>2. e \notin Stored
    BY <1>1, <2>1 DEF Stored
  <2>3. old # None => old \in Stored
    BY <1>1 DEF Stored
  <2>4. \A y \in Ref : y # x /\ event[y] # None => event[y] # old
    BY <1>1, <2>1
  <2>5. Stored' = (Stored \ {old}) \cup {e}
    BY <1>1, <2>4 DEF Stored
  <2> QED
    BY <2>2, <2>3, <2>5
<1>4. old # None => AuthorOf[old] = AuthorOf[e]
  BY <1>1, AddressAssumption DEF AtHome
<1>5. old \in Event \cup {None} /\ None \notin Stored
  BY <1>1 DEF Stored
<1>6. Scopes(r) = {Global, AuthorOf[e]}
  BY DEF Scopes, AuthorScope
<1> HIDE DEF e, x, old
<1>7. s \notin Scopes(r) => Shown(s)' = Shown(s)
  BY <1>2, <1>3, <1>4, <1>5, <1>6 DEF Shown, InScope, By
<1>8. s \in Scopes(r) => /\ e \notin Shown(s)
                         /\ old # None => old \in Shown(s)
                         /\ Shown(s)' = (Shown(s) \ {old}) \cup {e}
  BY <1>2, <1>3, <1>4, <1>5, <1>6, GlobalAssumption DEF Shown, InScope, By, Scope
<1> QED
  BY <1>7, <1>8 DEF e, x, old

\* The exchange costs what the upsert recorded.
LEMMA ExchangeCosts ==
  ASSUME NEW S \in SUBSET Event, NEW T \in SUBSET Event, NEW e \in Event, NEW old \in Event \cup {None},
         e \notin S, old # None => old \in S, T = (S \ {old}) \cup {e}
  PROVE  /\ Bytes(T) = Bytes(S) + Size[e] - (IF old = None THEN 0 ELSE Size[old])
         /\ Cardinality(T) = Cardinality(S) + (IF old = None THEN 1 ELSE 0)
<1>1. PICK U : U = S \ {old}
  OBVIOUS
<1>2. U \in SUBSET Event /\ {e} \in SUBSET Event /\ U \cap {e} = {} /\ T = U \cup {e}
  BY <1>1
<1>3. Bytes(T) = Bytes(U) + Bytes({e}) /\ Cardinality(T) = Cardinality(U) + Cardinality({e})
  BY <1>2, EventUnion
<1>4. /\ Bytes({e}) = Size[e] /\ Cardinality({e}) = 1 /\ Size[e] \in Nat
      /\ Bytes(U) \in Nat /\ Cardinality(U) \in Nat /\ Bytes(S) \in Nat /\ Cardinality(S) \in Nat
  BY <1>2, EventAlone, EventSet, EventAssumption
<1>5. CASE old = None
  <2>1. U = S
    BY <1>1, <1>5, EventAssumption
  <2> QED
    BY <1>3, <1>4, <1>5, <2>1
<1>6. CASE old # None
  <2>1. old \in Event /\ old \in S /\ {old} \in SUBSET S
    BY <1>6
  <2>2. Bytes(U) = Bytes(S) - Bytes({old}) /\ Cardinality(U) = Cardinality(S) - Cardinality({old})
    BY <1>1, <2>1, EventWithin
  <2>3. Bytes({old}) = Size[old] /\ Cardinality({old}) = 1 /\ Size[old] \in Nat
    BY <2>1, EventAlone, EventAssumption
  <2> QED
    BY <1>3, <1>4, <1>6, <2>2, <2>3
<1> QED
  BY <1>5, <1>6

\* The write moves bytes from held to shown in both counters.
LEMMA LedgerWrite ==
  ASSUME Solid, AmountsOK, LedgerBalances, QueueInv, NEW r, Writes(r)
  PROVE  LedgerBalances'
<1>0. /\ TokensInv /\ WaysInv /\ Control /\ ReservationsOK /\ PoolOK /\ TokensOK /\ TokenScopes
      /\ r \in Reservation /\ r = cur /\ pc[Processor] # "idle"
  BY DEF Solid, TokensInv, Control, ShapeOK, Writes
<1>1. /\ UNCHANGED << logicalBytes, manifestCount, reservationTokens, phase, doc, delta >>
      /\ event' = [event EXCEPT ![KeyOf(r)] = doc[r].event]
  BY DEF Writes, counterVars
<1>2. \A q \in Reservation : q # r => Held(q)' = Held(q)
  <2> SUFFICES ASSUME NEW q \in Reservation, q # r PROVE Held(q)' = Held(q)
    OBVIOUS
  <2>1. ~Written(q) /\ phase[q] \notin {"prepared", "event_applied", "accounting_applied"}
    BY <1>0, NothingElse
  <2>2. ~Written(q)'
    BY <1>1, <2>1 DEF Written
  <2> QED
    BY <1>1, <2>1, <2>2, HeldUnwritten
<1>3. ASSUME NEW s \in Scope PROVE Balanced(s)'
  <2>1. Balanced(s)
    BY DEF LedgerBalances, Balanced, Shown
  <2>2. CASE s \notin Scopes(r)
    <3>1. r \notin reservationTokens[s]
      BY <1>0, <2>2 DEF TokenScopes, Scopes
    <3>2. \A q \in reservationTokens[s] : Held(q)' = Held(q)
      BY <1>0, <1>2, <3>1 DEF TokensOK
    <3>3. Shown(s)' = Shown(s)
      BY <1>0, <2>2, WriteShows
    <3> QED
      BY <1>1, <2>1, <3>2, <3>3, LedgerFrame
  <2>3. CASE s \in Scopes(r)
    <3>1. PICK e : e = doc[r].event
      OBVIOUS
    <3>2. PICK old : old = event[KeyOf(r)]
      OBVIOUS
    <3>3. PICK S : S = Shown(s)
      OBVIOUS
    <3>4. PICK T : T = Shown(s)'
      OBVIOUS
    <3>5. e \notin S /\ (old # None => old \in S) /\ T = (S \ {old}) \cup {e}
      BY <1>0, <2>3, <3>1, <3>2, <3>3, <3>4, WriteShows
    <3>6. /\ r \in reservationTokens[s] /\ Exact(r) /\ Covered(r) /\ state[r] = "prepared"
          /\ e \in Event /\ old \in Event \cup {None} /\ event[KeyOf(r)] # doc[r].event
          /\ S \in SUBSET Event /\ T \in SUBSET Event /\ phase[r] = "prepared"
      <4>1. S \in SUBSET Event
        BY <1>0, <3>3, ShownEvents
      <4> QED
        BY <1>0, <2>3, <3>1, <3>2, <3>5, <4>1 DEF Writes, PoolOK
    <3>7. ~Written(r) /\ Written(r)'
      BY <1>0, <1>1, <3>6 DEF Written, KeyOf, Writes, PoolOK
    <3>8. /\ delta[r].bytes = Size[e] - (IF old = None THEN 0 ELSE Size[old])
          /\ delta[r].count = (IF old = None THEN 1 ELSE 0)
      BY <3>1, <3>2, <3>6, <3>7 DEF Exact
    <3>9. /\ delta[r] \in Amount
          /\ delta[r].bytes <= doc[r].reserved.bytes /\ delta[r].count <= doc[r].reserved.count
      BY <1>0, <3>6 DEF Covered, ReservationsOK
    <3>10. /\ delta[r].bytes \in Int /\ delta[r].count \in Int
           /\ doc[r].reserved.bytes \in Nat /\ doc[r].reserved.count \in Nat
      BY <1>0, <3>6, <3>9 DEF Amount, TokenScopes, Doc
    <3>11. /\ Held(r).bytes = doc[r].reserved.bytes /\ Held(r).count = doc[r].reserved.count
           /\ Held(r)'.bytes = doc[r].reserved.bytes - delta[r].bytes
           /\ Held(r)'.count = doc[r].reserved.count - delta[r].count
      BY <1>1, <3>7 DEF Held
    <3>12. Held(r)'.bytes \in Nat /\ Held(r)'.count \in Nat
      BY <3>9, <3>10, <3>11
    <3>13. /\ Bytes(T) = Bytes(S) + Size[e] - (IF old = None THEN 0 ELSE Size[old])
           /\ Cardinality(T) = Cardinality(S) + (IF old = None THEN 1 ELSE 0)
      BY <3>5, <3>6, ExchangeCosts
    <3>14. Bytes(S) \in Nat /\ Cardinality(S) \in Nat /\ Size[e] \in Nat /\ (old # None => Size[old] \in Nat)
      BY <3>6, EventSet, EventAssumption
    <3>15. /\ Bytes(T) + Held(r)'.bytes = Bytes(S) + Held(r).bytes
           /\ Cardinality(T) + Held(r)'.count = Cardinality(S) + Held(r).count
      BY <3>8, <3>10, <3>11, <3>13, <3>14
    <3>16. \A q \in reservationTokens[s] : q # r => Held(q)' = Held(q)
      BY <1>0, <1>2 DEF TokensOK
    <3> QED
      BY <1>1, <2>1, <3>3, <3>4, <3>6, <3>12, <3>15, <3>16, LedgerSwap
  <2> QED
    BY <2>2, <2>3
<1> QED
  BY <1>3 DEF LedgerBalances, Balanced, Shown

\* Every step of processManifestUpsert.
LEMMA LedgerUpsert ==
  ASSUME Solid, AmountsOK, LedgerBalances, QueueInv, Upsert
  PROVE  LedgerBalances' /\ AmountsOK' /\ TokensFinite'
<1> USE DEF At, Then, Patch, queueVars, reservationVars
<1>0. /\ TokensInv /\ WaysInv /\ Control /\ ReservationsOK /\ PoolOK /\ TokensOK
  BY DEF Solid, TokensInv, Control, ShapeOK
<1>1. UpsertMoves
  BY <1>0, UpsertStepMoves
<1>2. UNCHANGED << logicalBytes, manifestCount, reservationTokens, accountingTokens, selected >>
  BY <1>1 DEF UpsertMoves, counterVars
<1>3. PICK r : r = cur
  OBVIOUS
<1>4. /\ r \in Reservation /\ r \in OpKey /\ doc[r] \in Doc /\ Straight(r) /\ UpsertAt(pc[Processor], r)
  BY <1>0, <1>1, <1>3, KeysDiffer DEF UpsertMoves, CurOwned, UpsertPc, Control, DocKnown,
    WaysInv, Upserting
<1>5. ASSUME event' = event PROVE LedgerBalances'
  <2>1. \A q \in Reservation : q # r => doc'[q] = doc[q] /\ delta'[q] = delta[q] /\ phase'[q] = phase[q]
    <3>1. \A q \in Reservation : q # r => doc'[q] = doc[q]
      BY <1>0, <1>1, <1>3, <1>4, RejectKeeps DEF UpsertMoves, ReservationsOK
    <3> QED
      BY <1>0, <1>1, <1>3, <3>1, KeysDiffer DEF UpsertMoves, ReservationsOK, PoolOK
  <2>2. doc'[r].event = doc[r].event /\ doc'[r].reserved = doc[r].reserved
    BY <1>0, <1>1, <1>3, <1>4, RejectKeeps DEF UpsertMoves, ReservationsOK
  <2>3. Held(r)' = Held(r)
    <3>1. CASE delta'[r] = delta[r] /\ phase'[r] = phase[r]
      BY <1>5, <2>2, <3>1, HeldSame
    <3>2. CASE UpsertCheck
      <4>1. phase[r] = "queued" /\ phase' = phase
        BY <1>4, <3>2 DEF UpsertCheck, UpsertAt
      <4> QED
        BY <2>2, <4>1, HeldUnwritten DEF Written
    <3>3. CASE PatchOp("phase1", "prepared", "apply")
      <4>1. /\ phase[r] = "queued" /\ state[r] = "prepared" /\ phase'[r] = "prepared"
            /\ Exact(r) /\ doc' = doc
        BY <1>0, <1>3, <1>4, <3>3 DEF PatchOp, UpsertAt, Straight, PoolOK
      <4>2. ~Written(r)
        BY <4>1 DEF Written
      <4>3. event[KeyOf(r)] # doc[r].event
        BY <4>1, <4>2 DEF Exact
      <4> QED
        BY <1>5, <2>2, <4>1, <4>2, <4>3, HeldUnwritten DEF Written, KeyOf
    <3>4. CASE UpsertApply
      <4>1. CASE delta' = delta
        BY <1>5, <2>2, <3>4, <4>1, HeldSame DEF UpsertApply
      <4>2. CASE delta' # delta
        <5>1. Wins(event[KeyOf(r)], doc[r].event) /\ doc' = doc
          BY <1>3, <3>4, <4>2 DEF UpsertApply, Candidate, Current, KeyOf
        <5>2. event[KeyOf(r)] # doc[r].event
          BY <1>4, <5>1, PoolAssumption DEF Wins, Doc
        <5> QED
          BY <1>5, <2>2, <5>1, <5>2, HeldUnwritten DEF Written, KeyOf
      <4> QED
        BY <4>1, <4>2
    <3>5. CASE \/ PatchOp("phase2", "event_applied", "finalize")
               \/ PatchOp("phase3", "accounting_applied", "remove")
      <4>1. /\ phase[r] \in {"prepared", "event_applied"} /\ delta' = delta
            /\ phase'[r] \in {"event_applied", "accounting_applied"} /\ doc' = doc
        BY <1>0, <1>3, <1>4, <3>5 DEF PatchOp, UpsertAt, PoolOK
      <4> QED
        BY <1>5, <4>1 DEF Held, Written
    <3>6. ~UpsertCompensate
      BY <1>3, <1>4 DEF UpsertCompensate, UpsertAt
    <3> QED
      BY <3>1, <3>2, <3>3, <3>4, <3>5, <3>6
        DEF Upsert, UpsertOpen, UpsertApplied, UpsertFinalize, UpsertFinalized, UpsertFailed, UpsertCancelled
  <2>4. \A s \in Scope : \A q \in reservationTokens[s] : Held(q)' = Held(q)
    BY <1>0, <1>5, <2>1, <2>3, HeldSame DEF TokensOK
  <2>5. \A d \in Deletion : phase'[d] = phase[d]
    BY <1>0, <1>1, <1>3, <1>4, KeysDiffer DEF UpsertMoves, PoolOK
  <2>6. \A s \in Scope : Shown(s)' = Shown(s)
    BY <1>2, <1>5, <2>5, ShownSame
  <2> QED
    BY <1>2, <2>4, <2>6, LedgerStill
<1>6. LedgerBalances'
  BY <1>0, <1>5, ApplyWrites, LedgerWrite
<1> QED
  BY <1>2, <1>6 DEF AmountsOK, TokensFinite, Solid

-------------------------------------------------------------------------------
(*****************************************************************************)
(* Deleting manifests.                                                       *)
(*****************************************************************************)
\* d is under way and not charged to s yet.
Owing(d, s) == phase[d] \in {"prepared", "events_deleted"} /\ d \notin accountingTokens[s]

\* While a deletion runs, only its events may be owed and no upsert is half done.
LEMMA DeletingAlone ==
  ASSUME Control, QueueInv, NEW d \in Deletion, d = cur, pc[Processor] # "idle"
  PROVE  /\ \A q \in Reservation : phase[q] \in {"none", "queued", "gone"}
         /\ \A b \in Deletion : b # d => phase[b] \in {"none", "queued", "gone"}
         /\ \A s \in Scope : Owed(s) = IF Owing(d, s) THEN selected[d] ELSE {}
<1>1. PoolOK
  BY DEF Control, ShapeOK
<1>2. \A o \in OpKey : o # d => phase[o] \in {"none", "queued", "gone"}
  BY <1>1, Front DEF Begun, Started, Queued
<1>3. \A b \in Deletion : b \in OpKey
  BY KeysDiffer
<1>4. \A q \in Reservation : q \in OpKey /\ q # d
  BY KeysDiffer
<1>5. \A b \in Deletion : b # d => phase[b] \in {"none", "queued", "gone"}
  BY <1>2, <1>3
<1>6. \A s \in Scope : Owed(s) = IF Owing(d, s) THEN selected[d] ELSE {}
  BY <1>5 DEF Owed, Owing
<1> QED
  BY <1>2, <1>4, <1>5, <1>6

\* Likewise after a step of that deletion.
LEMMA OwedThen ==
  ASSUME Control, QueueInv, NEW d \in Deletion, d = cur, pc[Processor] # "idle",
         \A b \in Deletion : b # d => phase'[b] = phase[b], NEW s \in Scope
  PROVE  Owed(s)' = IF Owing(d, s)' THEN selected'[d] ELSE {}
<1>1. \A b \in Deletion : b # d => phase'[b] \notin {"prepared", "events_deleted"}
  BY DeletingAlone
<1> QED
  BY <1>1 DEF Owed, Owing

\* What every step of deleteEventsWithAccounting leaves alone.
LEMMA DeletionShape ==
  ASSUME Control, Delete
  PROVE  /\ cur \in Deletion /\ pc[Processor] # "idle" /\ pc[Processor] \in DeletionPc
         /\ phase[cur] \notin {"none", "gone"}
         /\ UNCHANGED << doc, delta, reservationTokens >>
         /\ \A o \in OpKey : o # cur => phase'[o] = phase[o]
<1> USE DEF At, counterVars, reservationVars, queueVars
<1>1. PoolOK /\ CurOwned
  BY DEF Control, ShapeOK
<1>2. pc[Processor] \in DeletionPc
  BY DEF Delete, DeletionSelect, DeletionBegin, DeletionDelete, PatchOp, DeletionAccount,
    DeletionAccounted, DeletionClear, DeletionFinish, DeletionPc
<1>3. cur \in Deletion /\ cur \in OpKey /\ pc[Processor] # "idle" /\ phase[cur] \notin {"none", "gone"}
  BY <1>1, <1>2, KeysDiffer DEF CurOwned, DeletionPc
<1>4. \A o \in OpKey : o # cur => phase'[o] = phase[o]
  BY <1>1, <1>3 DEF Delete, DeletionSelect, DeletionBegin, DeletionDelete, PatchOp, DeletionAccount,
    DeletionAccounted, DeletionClear, DeletionFinish, PoolOK
<1>5. UNCHANGED << doc, delta, reservationTokens >>
  BY DEF Delete, DeletionSelect, DeletionBegin, DeletionDelete, PatchOp, DeletionAccount,
    DeletionAccounted, DeletionClear, DeletionFinish, BeginManifestMutation, AccountOnce,
    ClearAccounting, FinishManifestMutation
<1> QED
  BY <1>2, <1>3, <1>4, <1>5

\* A step of a deletion leaves what a counter shows, unless it charges it.
LEMMA ShownDelete ==
  ASSUME Control, QueueInv, DeletionsInv, Delete,
         NEW t \in Scope, DeletionAccount(t) => cur \in accountingTokens[t]
  PROVE  Shown(t)' = Shown(t)
<1> USE DEF At, counterVars, reservationVars, queueVars
<1>0. PoolOK /\ TokensOK
  BY DEF Control, ShapeOK
<1>1. PICK d : d = cur
  OBVIOUS
<1>2. /\ d \in Deletion /\ d \in OpKey /\ pc[Processor] # "idle"
      /\ DeletionOK(d) /\ DeletionAt(pc[Processor], d)
  BY <1>0, <1>1, DeletionShape, KeysDiffer DEF DeletionsInv, Deleting, Deletions
<1>3. /\ Owed(t) = (IF Owing(d, t) THEN selected[d] ELSE {})
      /\ Owed(t)' = (IF Owing(d, t)' THEN selected'[d] ELSE {})
  <2>1. \A b \in Deletion : b # d => phase'[b] = phase[b]
    BY <1>1, DeletionShape, KeysDiffer
  <2> QED
    BY <1>1, <1>2, <2>1, DeletingAlone, OwedThen
<1>4. CASE DeletionSelect
  <2>1. /\ phase[d] = "queued" /\ phase'[d] = "prepared" /\ d \notin accountingTokens[t]
        /\ UNCHANGED << event, accountingTokens >>
        /\ selected'[d] = {e \in requested[d] : event[RefOf[e]] = e}
    BY <1>0, <1>1, <1>2, <1>4 DEF DeletionSelect, DeletionAt, DeletionOK, PoolOK
  <2>2. selected'[d] \subseteq Stored
    <3>1. ASSUME NEW e \in selected'[d] PROVE e \in Stored
      <4>1. e \in Event /\ RefOf[e] \in Ref /\ event[RefOf[e]] = e /\ e # None
        BY <1>0, <1>2, <2>1, <3>1, EventAssumption DEF PoolOK
      <4> QED
        BY <4>1 DEF Stored
    <3> QED
      BY <3>1
  <2>3. Owed(t) = {} /\ Owed(t)' \subseteq Stored /\ Stored' = Stored
    BY <1>3, <2>1, <2>2 DEF Owing, Stored
  <2> QED
    BY <2>3 DEF Shown, InScope, By
<1>5. CASE DeletionDelete
  <2>1. /\ phase[d] = "prepared" /\ d \notin accountingTokens[t]
        /\ UNCHANGED << phase, selected, accountingTokens >>
        /\ event' = [x \in Ref |-> IF event[x] \in selected[d] THEN None ELSE event[x]]
    BY <1>1, <1>2, <1>5 DEF DeletionDelete, DeletionAt, DeletionOK
  <2>2. Owed(t) = selected[d] /\ Owed(t)' = selected[d]
    BY <1>3, <2>1 DEF Owing
  <2>3. None \notin selected[d]
    BY <1>0, <1>2, EventAssumption DEF PoolOK
  <2>4. Stored' = Stored \ selected[d]
    BY <1>0, <2>1, <2>3 DEF Stored, PoolOK
  <2> QED
    BY <2>2, <2>4 DEF Shown, InScope, By
<1>6. CASE DeletionAccounted
  <2>1. /\ phase[d] = "events_deleted" /\ phase'[d] = "accounting_applied"
        /\ UNCHANGED << event, selected, accountingTokens >>
        /\ Accounted(d) /\ todo[Processor] = {} /\ selected[d] \cap Stored = {}
    BY <1>0, <1>1, <1>2, <1>6 DEF DeletionAccounted, DeletionAt, DeletionOK, PoolOK
  <2>2. Owed(t)' = {} /\ Stored' = Stored
    BY <1>3, <2>1 DEF Owing, Stored
  <2>3. InScope(t, Owed(t)) = {}
    <3>1. CASE t \in Touched(d)
      BY <1>3, <2>1, <3>1 DEF Accounted, Owing, InScope, By
    <3>2. CASE t \notin Touched(d)
      BY <1>3, <3>2 DEF Touched, InScope, By
    <3> QED
      BY <3>1, <3>2
  <2> QED
    BY <2>2, <2>3 DEF Shown, InScope, By
<1>7. ASSUME NEW s \in Scope, DeletionClear(s) PROVE Shown(t)' = Shown(t)
  <2>1. /\ phase[d] = "accounting_applied" /\ UNCHANGED << phase, event, selected >>
    BY <1>1, <1>2, <1>7 DEF DeletionClear, DeletionAt
  <2> QED
    BY <1>3, <2>1 DEF Owing, Stored, Shown, InScope, By
<1>8. CASE PatchOp("deleted", "events_deleted", "rebegin")
  <2>1. /\ phase[d] = "prepared" /\ phase'[d] = "events_deleted"
        /\ UNCHANGED << event, selected, accountingTokens >>
    BY <1>0, <1>1, <1>2, <1>8 DEF PatchOp, DeletionAt, PoolOK
  <2> QED
    BY <1>3, <2>1 DEF Owing, Stored, Shown, InScope, By
<1>9. ASSUME UNCHANGED << event, selected, phase >>, accountingTokens'[t] = accountingTokens[t]
      PROVE  Shown(t)' = Shown(t)
  BY <1>9, ShownSame
<1>10. CASE DeletionBegin("begin", "delete") \/ DeletionBegin("rebegin", "account") \/ DeletionFinish
  BY <1>9, <1>10 DEF DeletionBegin, BeginManifestMutation, DeletionFinish, FinishManifestMutation
<1>11. ASSUME NEW s \in Scope, DeletionAccount(s) PROVE Shown(t)' = Shown(t)
  <2>1. UNCHANGED << event, selected, phase >>
    BY <1>11 DEF DeletionAccount
  <2>2. accountingTokens'[t] = accountingTokens[t]
    <3>1. CASE s = t
      BY <1>11, <3>1 DEF DeletionAccount, AccountOnce
    <3>2. CASE s # t
      BY <1>0, <1>11, <3>2 DEF DeletionAccount, AccountOnce, TokensOK
    <3> QED
      BY <3>1, <3>2
  <2> QED
    BY <1>9, <2>1, <2>2
<1> QED
  BY <1>4, <1>5, <1>6, <1>7, <1>8, <1>10, <1>11 DEF Delete

\* A deletion charges a counter for exactly what it still shows.
LEMMA LedgerAccount ==
  ASSUME Solid, AmountsOK, LedgerBalances, QueueInv, DeletionsInv,
         NEW s \in Scope, DeletionAccount(s), NEW d, d = cur, d \notin accountingTokens[s],
         \A q \in Reservation : Held(q)' = Held(q)
  PROVE  LedgerBalances' /\ AmountsOK' /\ TokensFinite'
<1> USE DEF At, counterVars, reservationVars, queueVars
<1>0. /\ TokensInv /\ Control /\ PoolOK /\ TokensOK
  BY DEF Solid, TokensInv, Control, ShapeOK
<1>1. /\ d \in Deletion /\ pc[Processor] # "idle"
      /\ \A o \in OpKey : o # d => phase'[o] = phase[o]
  BY <1>0, DeletionShape DEF Delete
<1>2. PICK T : T = InScope(s, selected[d])
  OBVIOUS
<1>3. /\ Charge(s, -Bytes(T), -Cardinality(T))
      /\ accountingTokens' = [accountingTokens EXCEPT ![s] = @ \cup {d}]
      /\ UNCHANGED << event, phase, selected, reservationTokens >>
      /\ pc[Processor] = "account"
  BY <1>2 DEF DeletionAccount, AccountOnce
<1>4. phase[d] = "events_deleted" /\ selected[d] \cap Stored = {}
  BY <1>1, <1>3 DEF DeletionsInv, Deleting, Deletions, DeletionAt, DeletionOK
<1>5. \A t \in Scope : Owed(t) = IF Owing(d, t) THEN selected[d] ELSE {}
  BY <1>0, <1>1, DeletingAlone
<1>6. \A t \in Scope : Owed(t)' = IF Owing(d, t)' THEN selected[d] ELSE {}
  <2> SUFFICES ASSUME NEW t \in Scope PROVE Owed(t)' = IF Owing(d, t)' THEN selected[d] ELSE {}
    OBVIOUS
  <2>1. \A b \in Deletion : b # d => phase'[b] = phase[b]
    BY <1>1, KeysDiffer
  <2> QED
    BY <1>0, <1>1, <1>3, <2>1, OwedThen
<1>7. Owed(s) = selected[d] /\ Owed(s)' = {} /\ Stored' = Stored
  BY <1>0, <1>3, <1>4, <1>5, <1>6 DEF Owing, TokensOK, Stored
<1>8. \A t \in Scope : t # s => Shown(t)' = Shown(t)
  <2> SUFFICES ASSUME NEW t \in Scope, t # s PROVE Shown(t)' = Shown(t)
    OBVIOUS
  <2>1. accountingTokens'[t] = accountingTokens[t]
    BY <1>0, <1>3 DEF TokensOK
  <2> QED
    BY <1>3, <2>1, ShownSame
<1>9. T \in SUBSET Shown(s) /\ Shown(s)' = Shown(s) \ T
  BY <1>2, <1>4, <1>7 DEF Shown, InScope, By
<1>10. /\ Shown(s) \in SUBSET Event /\ Bytes(T) \in Nat /\ Cardinality(T) \in Nat
       /\ Bytes(T) <= Bytes(Shown(s)) /\ Cardinality(T) <= Cardinality(Shown(s))
       /\ HeldBytes(s) \in Nat /\ HeldCount(s) \in Nat
       /\ Bytes(Shown(s)) \in Nat /\ Cardinality(Shown(s)) \in Nat
  <2>1. PICK S : S = Shown(s)
    OBVIOUS
  <2>2. S \in SUBSET Event /\ T \in SUBSET S /\ T \in SUBSET Event
    BY <1>9, <2>1, SumsNat
  <2>3. Bytes(T) <= Bytes(S) /\ Cardinality(T) <= Cardinality(S)
    BY <2>2, EventWithin
  <2>4. Bytes(T) \in Nat /\ Cardinality(T) \in Nat
    BY <2>2, EventSet
  <2> QED
    BY <2>1, <2>2, <2>3, <2>4, SumsNat
<1>11. /\ logicalBytes[s] \in Nat /\ manifestCount[s] \in Nat
       /\ logicalBytes[s] - Bytes(T) \in Nat /\ manifestCount[s] - Cardinality(T) \in Nat
  BY <1>10 DEF LedgerBalances, Shown, AmountsOK
<1>12. /\ logicalBytes' = [logicalBytes EXCEPT ![s] = logicalBytes[s] - Bytes(T)]
       /\ manifestCount' = [manifestCount EXCEPT ![s] = manifestCount[s] - Cardinality(T)]
  <2>1. /\ AtLeastZero(logicalBytes[s] + (-Bytes(T))) = logicalBytes[s] - Bytes(T)
        /\ AtLeastZero(manifestCount[s] + (-Cardinality(T))) = manifestCount[s] - Cardinality(T)
    BY <1>10, <1>11 DEF AtLeastZero
  <2> QED
    BY <1>3, <2>1 DEF Charge
<1>13. ASSUME NEW t \in Scope PROVE Balanced(t)'
  <2>1. Balanced(t) /\ reservationTokens'[t] = reservationTokens[t]
    BY <1>3 DEF LedgerBalances, Balanced, Shown
  <2>2. \A r \in reservationTokens[t] : Held(r)' = Held(r)
    BY <1>0 DEF TokensOK
  <2>3. CASE t = s
    <3>1. /\ logicalBytes'[t] = logicalBytes[t] - Bytes(T)
          /\ manifestCount'[t] = manifestCount[t] - Cardinality(T)
      BY <1>12, <2>3 DEF AmountsOK
    <3> QED
      BY <1>9, <2>1, <2>2, <2>3, <3>1, LedgerShown
  <2>4. CASE t # s
    <3>1. /\ logicalBytes'[t] = logicalBytes[t] /\ manifestCount'[t] = manifestCount[t]
      BY <1>12, <2>4
    <3> QED
      BY <1>8, <2>1, <2>2, <2>4, <3>1, LedgerFrame
  <2> QED
    BY <2>3, <2>4
<1>14. LedgerBalances'
  BY <1>13 DEF LedgerBalances, Balanced, Shown
<1> QED
  BY <1>3, <1>11, <1>12, <1>14 DEF AmountsOK, TokensFinite, Solid

\* Every step of deleteEventsWithAccounting.
LEMMA LedgerDelete ==
  ASSUME Solid, AmountsOK, LedgerBalances, QueueInv, DeletionsInv, Delete
  PROVE  LedgerBalances' /\ AmountsOK' /\ TokensFinite'
<1> USE DEF At, counterVars, reservationVars, queueVars
<1>0. Control /\ TokensOK
  BY DEF Solid, TokensInv, Control, ShapeOK
<1>1. /\ cur \in Deletion /\ pc[Processor] # "idle" /\ UNCHANGED << doc, delta, reservationTokens >>
      /\ \A o \in OpKey : o # cur => phase'[o] = phase[o]
  BY <1>0, DeletionShape
<1>2. \A q \in Reservation : Held(q)' = Held(q)
  <2> SUFFICES ASSUME NEW q \in Reservation PROVE Held(q)' = Held(q)
    OBVIOUS
  <2>1. phase[q] \in {"none", "queued", "gone"} /\ phase'[q] = phase[q]
    BY <1>0, <1>1, DeletingAlone, KeysDiffer
  <2>2. ~Written(q) /\ ~Written(q)'
    BY <2>1 DEF Written
  <2> QED
    BY <1>1, <2>2, HeldUnwritten
<1>3. ASSUME NEW s \in Scope, DeletionAccount(s), cur \notin accountingTokens[s]
      PROVE  LedgerBalances' /\ AmountsOK' /\ TokensFinite'
  BY <1>2, <1>3, LedgerAccount
<1>4. CASE \A s \in Scope : DeletionAccount(s) => cur \in accountingTokens[s]
  <2>1. \A s \in Scope : Shown(s)' = Shown(s)
    BY <1>0, <1>4, ShownDelete
  <2>2. UNCHANGED << logicalBytes, manifestCount >>
    BY <1>4
      DEF Delete, DeletionSelect, DeletionBegin, DeletionDelete, PatchOp, DeletionAccount,
        DeletionAccounted, DeletionClear, DeletionFinish, BeginManifestMutation, AccountOnce,
        ClearAccounting, FinishManifestMutation
  <2>3. \A s \in Scope : \A q \in reservationTokens[s] : Held(q)' = Held(q)
    BY <1>0, <1>2 DEF TokensOK
  <2>4. LedgerBalances'
    BY <1>1, <2>1, <2>2, <2>3, LedgerStill
  <2> QED
    BY <1>1, <2>2, <2>4 DEF AmountsOK, TokensFinite, Solid
<1> QED
  BY <1>3, <1>4

-------------------------------------------------------------------------------
(*****************************************************************************)
(* The queue and the job.                                                    *)
(*****************************************************************************)
\* Taking, dropping, finishing and queueing operations changes nothing that is shown.
LEMMA ShownQueue ==
  ASSUME PoolOK, DeletionsInv,
         \/ Remove \/ ProcessorAbort \/ \E o \in OpKey : Take(o)
         \/ \E d \in Deletion, S \in SUBSET Event : RequestDeletion(d, S)
  PROVE  /\ UNCHANGED << counterVars, event, selected, doc, delta >>
         /\ \A o \in OpKey :
              \/ phase'[o] = phase[o]
              \/ phase[o] = "none" /\ phase'[o] = "queued" /\ o \in Deletion
              \/ pc[Processor] = "remove" /\ o = cur /\ phase'[o] = "gone"
         /\ \A s \in Scope : Shown(s)' = Shown(s)
<1> USE DEF At, counterVars, reservationVars, queueVars
<1>1. UNCHANGED << counterVars, event, selected, doc, delta >>
  BY DEF Remove, ProcessorAbort, Take, RequestDeletion
<1>2. \A o \in OpKey :
        \/ phase'[o] = phase[o]
        \/ phase[o] = "none" /\ phase'[o] = "queued" /\ o \in Deletion
        \/ pc[Processor] = "remove" /\ o = cur /\ phase'[o] = "gone"
  BY DEF Remove, ProcessorAbort, Take, RequestDeletion, Enqueue, PoolOK
<1>3. \A d \in Deletion :
        phase'[d] \in {"prepared", "events_deleted"} <=> phase[d] \in {"prepared", "events_deleted"}
  <2> SUFFICES ASSUME NEW d \in Deletion, phase'[d] # phase[d]
               PROVE  /\ phase'[d] \notin {"prepared", "events_deleted"}
                      /\ phase[d] \notin {"prepared", "events_deleted"}
    OBVIOUS
  <2>1. CASE phase[d] = "none" /\ phase'[d] = "queued"
    BY <2>1
  <2>2. CASE pc[Processor] = "remove" /\ d = cur /\ phase'[d] = "gone"
    <3>1. DeletionAt(pc[Processor], d)
      BY <2>2 DEF DeletionsInv, Deleting
    <3> QED
      BY <2>2, <3>1 DEF DeletionAt
  <2> QED
    BY <1>2, <2>1, <2>2, KeysDiffer
<1>4. \A s \in Scope : Shown(s)' = Shown(s)
  <2> SUFFICES ASSUME NEW s \in Scope PROVE Shown(s)' = Shown(s)
    OBVIOUS
  <2>1. Owed(s)' = Owed(s) /\ Stored' = Stored
    BY <1>1, <1>3 DEF Owed, Stored
  <2> QED
    BY <2>1 DEF Shown, InScope, By
<1> QED
  BY <1>1, <1>2, <1>4

\* Taking, dropping, finishing and queueing operations changes no account.
LEMMA LedgerQueue ==
  ASSUME Solid, AmountsOK, LedgerBalances, DeletionsInv,
         \/ Remove \/ ProcessorAbort \/ \E o \in OpKey : Take(o)
         \/ \E d \in Deletion, S \in SUBSET Event : RequestDeletion(d, S)
  PROVE  LedgerBalances' /\ AmountsOK' /\ TokensFinite'
<1> USE DEF At, counterVars, reservationVars, queueVars
<1>0. /\ TokensOK /\ PoolOK /\ CurOwned /\ WaysInv /\ ReservationTokensOwned
  BY DEF Solid, TokensInv, Control, ShapeOK
<1>1. /\ UNCHANGED << logicalBytes, manifestCount, reservationTokens, event, doc, delta >>
      /\ \A o \in OpKey :
           \/ phase'[o] = phase[o]
           \/ phase[o] = "none" /\ phase'[o] = "queued" /\ o \in Deletion
           \/ pc[Processor] = "remove" /\ o = cur /\ phase'[o] = "gone"
      /\ \A s \in Scope : Shown(s)' = Shown(s)
  BY <1>0, ShownQueue
<1>5. ASSUME NEW s \in Scope, NEW q \in reservationTokens[s] PROVE Held(q)' = Held(q)
  <2>1. q \in Reservation /\ q \in OpKey /\ q \notin Deletion /\ state[q] \in Live
    BY <1>0, KeysDiffer DEF TokensOK, ReservationTokensOwned
  <2>2. phase'[q] = phase[q]
    <3>1. CASE pc[Processor] = "remove" /\ q = cur
      BY <1>0, <2>1, <3>1 DEF WaysInv, Upserting, UpsertAt, Live, Terminal
    <3> QED
      BY <1>1, <2>1, <3>1
  <2> QED
    BY <1>1, <2>2, HeldSame
<1>6. LedgerBalances'
  BY <1>1, <1>5, LedgerStill
<1> QED
  BY <1>1, <1>6 DEF AmountsOK, TokensFinite, Solid

\* A reconciliation writes what the counter shows already.
LEMMA LedgerReconcile ==
  ASSUME Solid, AmountsOK, LedgerBalances, DeletionsInv, ScanExact,
         NEW s \in Scope, JobReconcile(s), CanReconcile(s)
  PROVE  /\ LedgerBalances' /\ AmountsOK' /\ TokensFinite'
         /\ \A t \in Scope : logicalBytes'[t] = logicalBytes[t] /\ manifestCount'[t] = manifestCount[t]
<1> USE DEF JobAt, reservationVars, queueVars
<1>0. /\ TokensOK /\ PoolOK
  BY DEF Solid, TokensInv, Control, ShapeOK
<1>1. PICK T : T = InScope(s, {seen[x] : x \in Ref} \ {None})
  OBVIOUS
<1>2. /\ pc[Job] = "reconcile" /\ s \in todo[Job] /\ (s = Global \/ Global \notin todo[Job])
      /\ logicalBytes' = [logicalBytes EXCEPT ![s] = Bytes(T)]
      /\ manifestCount' = [manifestCount EXCEPT ![s] = Cardinality(T)]
      /\ accountingTokens' = [accountingTokens EXCEPT ![s] = {}]
      /\ UNCHANGED << event, selected, phase, doc, delta, reservationTokens >>
  BY <1>1 DEF JobReconcile, ReconcileCounter
<1>3. ScanOfExact(s) /\ \A x \in Ref : seen[x] # "unread"
  BY <1>2 DEF ScanExact, Trusted, Fresh, CanReconcile
<1>4. Shown(s) \in SUBSET Event
  BY <1>0, ShownEvents
<1>5. T = Shown(s)
  <2>1. \A x \in Ref : ScanOf(s, x) = ShownOf(s, x)
    BY <1>3 DEF ScanOfExact
  <2>2. ASSUME NEW e \in T PROVE e \in Shown(s)
    <3>1. PICK x \in Ref : e = seen[x] /\ e # None
      BY <1>1, <2>2 DEF InScope, By
    <3>2. e \in ScanOf(s, x)
      BY <1>1, <2>2, <3>1 DEF ScanOf, InScope, By
    <3> QED
      BY <2>1, <3>2 DEF ShownOf
  <2>3. ASSUME NEW e \in Shown(s) PROVE e \in T
    <3>1. RefOf[e] \in Ref
      BY <1>4, <2>3, EventAssumption
    <3>2. e \in ScanOf(s, RefOf[e])
      BY <2>1, <2>3, <3>1 DEF ShownOf
    <3>3. e \in {seen[x] : x \in Ref} \ {None}
      BY <3>1, <3>2 DEF ScanOf, InScope, By
    <3> QED
      BY <1>1, <3>2, <3>3 DEF ScanOf, InScope, By
  <2> QED
    BY <2>2, <2>3
<1>6. \A t \in Scope : Shown(t)' = Shown(t)
  <2> SUFFICES ASSUME NEW t \in Scope PROVE Shown(t)' = Shown(t)
    OBVIOUS
  <2>1. CASE t # s
    <3>1. accountingTokens'[t] = accountingTokens[t]
      BY <1>0, <1>2, <2>1 DEF TokensOK
    <3> QED
      BY <1>2, <3>1, ShownSame
  <2>2. CASE t = s
    <3>1. \A d \in accountingTokens[s] :
            phase[d] \in {"prepared", "events_deleted"} => selected[d] = {}
      BY <1>0, <1>3 DEF ScanOfExact, DeletionsInv, Deletions, DeletionOK, TokensOK
    <3>2. accountingTokens'[s] = {}
      BY <1>0, <1>2 DEF TokensOK
    <3>3. Owed(s)' = Owed(s) /\ Stored' = Stored
      BY <1>2, <3>1, <3>2 DEF Owed, Stored
    <3> QED
      BY <2>2, <3>3 DEF Shown, InScope, By
  <2> QED
    BY <2>1, <2>2
<1>7. \A q : Held(q)' = Held(q)
  BY <1>2, HeldSame
<1>8. Bytes(T) \in Nat /\ Cardinality(T) \in Nat
  BY <1>4, <1>5, EventSet
<1>9. ASSUME NEW t \in Scope PROVE logicalBytes'[t] = logicalBytes[t] /\ manifestCount'[t] = manifestCount[t]
  <2>1. Balanced(t)
    BY DEF LedgerBalances, Balanced, Shown
  <2>2. CASE t # s
    BY <1>2, <2>2
  <2>3. CASE t = s
    <3>1. reservationTokens[s] = {}
      BY DEF CanReconcile, Active
    <3>2. PICK f : f = [r \in reservationTokens[s] |-> Held(r).bytes]
      OBVIOUS
    <3>3. PICK g : g = [r \in reservationTokens[s] |-> Held(r).count]
      OBVIOUS
    <3>4. DOMAIN f = {} /\ DOMAIN g = {}
      BY <3>1, <3>2, <3>3
    <3>5. SumFunction(f) = 0 /\ SumFunction(g) = 0
      BY <3>4, SumEmpty DEF SumFunction
    <3>6. HeldBytes(s) = 0 /\ HeldCount(s) = 0
      BY <3>2, <3>3, <3>5 DEF HeldBytes, HeldCount
    <3>7. logicalBytes[s] = Bytes(T) /\ manifestCount[s] = Cardinality(T)
      <4>1. Bytes(Shown(s)) = Bytes(T) /\ Cardinality(Shown(s)) = Cardinality(T)
        BY <1>5
      <4> QED
        BY <1>8, <2>1, <2>3, <3>6, <4>1 DEF Balanced
    <3> QED
      BY <1>2, <2>3, <3>7 DEF AmountsOK
  <2> QED
    BY <2>2, <2>3
<1>10. ASSUME NEW t \in Scope PROVE Balanced(t)'
  <2>1. Balanced(t)
    BY DEF LedgerBalances, Balanced, Shown
  <2> QED
    BY <1>2, <1>6, <1>7, <1>9, <2>1, LedgerFrame
<1>11. LedgerBalances'
  BY <1>10 DEF LedgerBalances, Balanced, Shown
<1>12. AmountsOK' /\ TokensFinite'
  BY <1>2, <1>8 DEF AmountsOK, TokensFinite, Solid
<1> QED
  BY <1>9, <1>11, <1>12

\* Every step of the maintenance job.
LEMMA LedgerJob ==
  ASSUME Solid, AmountsOK, LedgerBalances, DeletionsInv, ScanExact, JobStep \/ JobAbort
  PROVE  LedgerBalances' /\ AmountsOK' /\ TokensFinite'
<1> USE DEF counterVars, reservationVars, queueVars
<1>0. /\ Control /\ TokensOK /\ ReservationTokensOwned
  BY DEF Solid, TokensInv, Control, ShapeOK
<1>1. ASSUME NEW s \in Scope, JobReconcile(s), CanReconcile(s)
      PROVE  LedgerBalances' /\ AmountsOK' /\ TokensFinite'
  BY <1>1, LedgerReconcile
<1>2. CASE \A s \in Scope : JobReconcile(s) => ~CanReconcile(s)
  <2>1. UNCHANGED << logicalBytes, manifestCount, reservationTokens, accountingTokens >>
    BY <1>2
      DEF JobStep, JobAbort, JobRest, JobStart, JobFinish, JobVisit, JobInspect, JobSkip,
        JobCancelOrphan, JobCalled, JobTerminal, ClearSettlement, JobRetire, JobSnapshot,
        JobReconciled, JobScan, JobReconcile, ReconcileCounter
  <2>2. UNCHANGED << event, selected, phase >>
    BY <1>0, JobStepMoves DEF JobMoves, JobRetire
  <2>3. ASSUME NEW s \in Scope, NEW q \in reservationTokens[s] PROVE Held(q)' = Held(q)
    <3>1. q \in Reservation /\ state[q] \in Live
      BY <1>0 DEF TokensOK, ReservationTokensOwned
    <3>2. doc'[q] = doc[q] /\ delta'[q] = delta[q]
      <4>1. CASE JobRetire
        BY <1>0, <3>1, <4>1 DEF JobRetire, Live, Terminal, Control, ShapeOK, ReservationsOK
      <4>2. CASE ~JobRetire
        BY <1>0, <4>2, JobStepMoves DEF JobMoves
      <4> QED
        BY <4>1, <4>2
    <3> QED
      BY <2>2, <3>2, HeldSame
  <2>4. \A s \in Scope : Shown(s)' = Shown(s)
    BY <2>1, <2>2, ShownSame
  <2>5. LedgerBalances'
    BY <2>1, <2>3, <2>4, LedgerStill
  <2> QED
    BY <2>1, <2>5 DEF AmountsOK, TokensFinite, Solid
<1> QED
  BY <1>1, <1>2

\* The balance is inductive, given the other invariants.
LEMMA LedgerStep ==
  ASSUME Solid, AmountsOK, LedgerBalances, QueueInv, DeletionsInv, ScanExact, [Next]_vars
  PROVE  LedgerBalances' /\ AmountsOK' /\ TokensFinite'
<1>1. ASSUME NEW r \in Reservation, Saver(r) \/ SaverCrash(r)
      PROVE  LedgerBalances' /\ AmountsOK' /\ TokensFinite'
  BY <1>1, LedgerSaver
<1>2. CASE Settlement
  BY <1>2, LedgerCall DEF Settlement
<1>3. CASE Upsert
  BY <1>3, LedgerUpsert
<1>4. CASE Delete
  BY <1>4, LedgerDelete
<1>5. CASE Remove \/ ProcessorAbort \/ \E o \in OpKey : Take(o)
  BY <1>5, LedgerQueue
<1>6. ASSUME NEW d \in Deletion, NEW S \in SUBSET Event, RequestDeletion(d, S)
      PROVE  LedgerBalances' /\ AmountsOK' /\ TokensFinite'
  BY <1>6, LedgerQueue
<1>7. CASE JobStep \/ JobAbort
  BY <1>7, LedgerJob
<1>8. CASE UNCHANGED vars
  <2> USE DEF vars, counterVars, reservationVars, queueVars
  <2>1. LedgerBalances'
    BY <1>8, LedgerStill, ShownSame, HeldSame
  <2> QED
    BY <1>8, <2>1 DEF AmountsOK, TokensFinite, Solid
<1> QED
  BY <1>1, <1>2, <1>3, <1>4, <1>5, <1>6, <1>7, <1>8 DEF Next, ProcessorStep

-------------------------------------------------------------------------------
(*****************************************************************************)
(* The scan of a reconciliation.                                             *)
(*****************************************************************************)
\* A step that leaves the job's scan alone and moves every counter it disturbs.
LEMMA ScanFrame ==
  ASSUME ScanExact, pc'[Job] = pc[Job], todo'[Job] = todo[Job], seen' = seen, moved \subseteq moved',
         Active(Global)' => Active(Global) \/ Global \in moved',
         \A s \in Scope : Trusted(s) /\ s \notin moved' =>
           /\ Shown(s)' = Shown(s)
           /\ reservationTokens'[s] \cap reservationTokens'[Global]
                \subseteq reservationTokens[s] \cap reservationTokens[Global]
           /\ \A d \in accountingTokens'[s] : phase'[d] = "events_deleted" =>
                \/ d \in accountingTokens[s] /\ phase[d] = "events_deleted" /\ selected'[d] = selected[d]
                \/ selected'[d] = {}
  PROVE  ScanExact'
<1>1. Fresh' = Fresh
  BY DEF Fresh
<1>2. \A s \in Scope : Trusted(s)' => Trusted(s) /\ s \notin moved'
  BY <1>1 DEF Trusted
<1>3. ASSUME NEW s \in Scope, Trusted(s)' PROVE ScanOfExact(s)'
  <2>1. Trusted(s) /\ s \notin moved' /\ ScanOfExact(s)
    BY <1>2, <1>3 DEF ScanExact
  <2>2. Shown(s)' = Shown(s)
    BY <2>1
  <2>3. \A x \in Ref : seen'[x] # "unread" => ScanOf(s, x)' = ShownOf(s, x)'
    BY <2>1, <2>2 DEF ScanOfExact, ScanOf, ShownOf, InScope, By
  <2> QED
    BY <2>1, <2>3 DEF ScanOfExact
<1> QED
  BY <1>1, <1>3 DEF ScanExact

\* A reservation moves the counter it enters.
LEMMA ScanSaver ==
  ASSUME Solid, ScanExact, NEW r \in Reservation, Saver(r) \/ SaverCrash(r)
  PROVE  ScanExact'
<1> USE DEF reservationVars, queueVars, counterVars
<1>0. /\ ReservationsOK /\ PoolOK /\ TokensOK /\ r \in Actor /\ r \in OpKey /\ r # Job
      /\ Refused /\ DocKnown /\ \A d \in Deletion : d \in OpKey /\ d # r
  BY KeysDiffer DEF Solid, TokensInv, Control, ShapeOK
<1>1. /\ UNCHANGED << event, selected, settlementTokens, accountingTokens, workflowTokens, seen, todo >>
      /\ pc'[Job] = pc[Job] /\ moved \subseteq moved'
  <2>1. UNCHANGED << event, selected, settlementTokens, accountingTokens, workflowTokens, seen, todo >>
    BY DEF Saver, SaverCrash, BeginSave, SaverGlobal, SaverAuthor, Reserve, ReserveCounter, Charge,
      SaverMark, SaverReject, SaverEnqueue, SaverEnqueueFails, SaverCancelled
  <2>2. \E l : pc' = [pc EXCEPT ![r] = l]
    BY DEF Saver, SaverCrash, BeginSave, SaverGlobal, SaverAuthor, Reserve,
      SaverMark, SaverReject, SaverEnqueue, SaverEnqueueFails, SaverCancelled, Goto
  <2>3. moved \subseteq moved'
    BY DEF Saver, SaverCrash, BeginSave, SaverGlobal, SaverAuthor, Reserve, ReserveCounter, Charge,
      SaverMark, SaverReject, SaverEnqueue, SaverEnqueueFails, SaverCancelled
  <2> QED
    BY <1>0, <2>1, <2>2, <2>3 DEF PoolOK
<1>2. \A d \in Deletion : phase'[d] = phase[d]
  BY <1>0 DEF Saver, SaverCrash, BeginSave, SaverGlobal, SaverAuthor, Reserve, SaverMark, SaverReject,
    SaverEnqueue, SaverEnqueueFails, SaverCancelled, Enqueue, PoolOK
<1>3. \/ UNCHANGED reservationTokens
      \/ \E s \in Scope :
           /\ reservationTokens' = [reservationTokens EXCEPT ![s] = @ \cup {r}]
           /\ moved' = moved \cup {s}
           /\ s = Global => pc[r] = "global"
  <2>1. CASE SaverGlobal(r)
    <3>1. Global \in Scope
      BY DEF Scope
    <3> QED
      BY <2>1, <3>1 DEF SaverGlobal, Reserve, ReserveCounter, Charge
  <2>2. CASE SaverAuthor(r)
    <3>1. AuthorScope(r) \in Scope /\ AuthorScope(r) # Global
      BY <1>0, <2>2, AuthorScopeType, GlobalAssumption DEF SaverAuthor, DocKnown, Scope
    <3> QED
      BY <2>2, <3>1 DEF SaverAuthor, Reserve, ReserveCounter, Charge
  <2>3. CASE ~SaverGlobal(r) /\ ~SaverAuthor(r)
    BY <2>3 DEF Saver, SaverCrash, BeginSave, SaverMark, SaverReject, SaverEnqueue,
      SaverEnqueueFails, SaverCancelled
  <2> QED
    BY <2>1, <2>2, <2>3
<1>4. ASSUME NEW t \in Scope, t \notin moved'
      PROVE  reservationTokens'[t] \cap reservationTokens'[Global]
               \subseteq reservationTokens[t] \cap reservationTokens[Global]
  <2>1. CASE UNCHANGED reservationTokens
    BY <2>1
  <2>2. ASSUME NEW s \in Scope, reservationTokens' = [reservationTokens EXCEPT ![s] = @ \cup {r}],
               moved' = moved \cup {s}, s = Global => pc[r] = "global"
        PROVE  reservationTokens'[t] \cap reservationTokens'[Global]
                 \subseteq reservationTokens[t] \cap reservationTokens[Global]
    <3>1. t # s /\ reservationTokens'[t] = reservationTokens[t]
      BY <1>0, <1>4, <2>2 DEF TokensOK
    <3>2. CASE s # Global
      BY <1>0, <2>2, <3>1, <3>2 DEF TokensOK, Scope
    <3>3. CASE s = Global
      <4>1. r \notin reservationTokens[t]
        BY <1>0, <2>2, <3>3 DEF Refused
      <4> QED
        BY <1>0, <2>2, <3>1, <3>3, <4>1 DEF TokensOK
    <3> QED
      BY <3>2, <3>3
  <2> QED
    BY <1>3, <2>1, <2>2
<1>5. Active(Global)' => Active(Global) \/ Global \in moved'
  <2>1. reservationTokens'[Global] = reservationTokens[Global] \/ Global \in moved'
    BY <1>0, <1>3 DEF TokensOK, Scope
  <2> QED
    BY <1>1, <2>1 DEF Active
<1>6. \A s \in Scope : Shown(s)' = Shown(s)
  BY <1>1, <1>2, ShownSame
<1>7. \A s \in Scope : \A d \in accountingTokens'[s] : phase'[d] = phase[d]
  BY <1>0, <1>1, <1>2 DEF TokensOK
<1> QED
  BY <1>1, <1>4, <1>5, <1>6, <1>7, ScanFrame

\* A settlement moves the counter it leaves.
LEMMA ScanCall ==
  ASSUME Solid, ScanExact, NEW a \in Actor, CallNext(a),
         UNCHANGED << event, queueVars, workVars >>
  PROVE  ScanExact'
<1> USE DEF queueVars, counterVars, workVars
<1>0. TokensOK /\ Control /\ TokensInv /\ WaysInv
  BY DEF Solid, TokensInv, Control, ShapeOK
<1>1. UNCHANGED << accountingTokens, workflowTokens >> /\ moved \subseteq moved'
  BY DEF CallNext, CallRead, CallSettle, SettleCounter, Charge, CallFlag, CallState, CallClear, ClearSettlement
<1>2. \A s \in Scope : reservationTokens'[s] \subseteq reservationTokens[s]
  BY <1>0 DEF CallNext, CallRead, CallSettle, SettleCounter, CallFlag, CallState, CallClear, ClearSettlement,
    TokensOK
<1>3. \/ Global \in moved'
      \/ settlementTokens'[Global] \subseteq settlementTokens[Global]
  <2>1. CASE CallSettle(a)
    <3>1. call[a].step = "settle" /\ call[a] \in Call
      BY <1>0, <2>1, CallHolds DEF CallSettle
    <3>2. call[a].scope \in Scope
      BY <1>0, <3>1, CallHolds DEF Call, Scope
    <3>3. CASE call[a].scope = Global
      BY <1>0, <2>1, <3>3 DEF CallSettle, SettleCounter, Charge
    <3>4. CASE call[a].scope # Global
      <4>1. PICK s \in Scope : s = call[a].scope
        BY <3>2
      <4>2. \/ settlementTokens' = settlementTokens
            \/ \E T : settlementTokens' = [settlementTokens EXCEPT ![s] = T]
        BY <2>1, <4>1 DEF CallSettle, SettleCounter, counterVars
      <4>3. Global \in Scope
        BY DEF Scope
      <4> QED
        BY <1>0, <3>4, <4>1, <4>2, <4>3 DEF TokensOK
    <3> QED
      BY <3>3, <3>4
  <2>2. CASE CallClear(a)
    BY <1>0, <2>2 DEF CallClear, ClearSettlement, TokensOK
  <2>3. CASE ~CallSettle(a) /\ ~CallClear(a)
    BY <2>3 DEF CallNext, CallRead, CallFlag, CallState
  <2> QED
    BY <2>1, <2>2, <2>3
<1>4. Active(Global)' => Active(Global) \/ Global \in moved'
  BY <1>1, <1>2, <1>3 DEF Active, Scope
<1>5. \A s \in Scope : Shown(s)' = Shown(s)
  BY <1>1, ShownSame
<1>6. \A s \in Scope : reservationTokens'[s] \cap reservationTokens'[Global]
                         \subseteq reservationTokens[s] \cap reservationTokens[Global]
  BY <1>2 DEF Scope
<1> QED
  BY <1>1, <1>4, <1>5, <1>6, ScanFrame

\* A manifest is written only under tokens, which a trusted counter has none of.
LEMMA ScanUpsert ==
  ASSUME Solid, QueueInv, ScanExact, Upsert
  PROVE  ScanExact'
<1> USE DEF counterVars
<1>0. /\ TokensInv /\ WaysInv /\ Control /\ PoolOK /\ TokensOK
      /\ Processor \in Actor /\ Job \in Actor /\ Processor # Job
  BY KeysDiffer DEF Solid, TokensInv, Control, ShapeOK
<1>1. UpsertMoves
  BY <1>0, UpsertStepMoves
<1>2. UNCHANGED << counterVars, selected, seen, todo >> /\ pc'[Job] = pc[Job]
  BY <1>0, <1>1 DEF UpsertMoves, PoolOK
<1>3. cur \in Reservation
  BY <1>0, <1>1 DEF UpsertMoves, Control, CurOwned, UpsertPc
<1>4. \A d \in Deletion : phase'[d] = phase[d]
  BY <1>0, <1>1, <1>3, KeysDiffer DEF UpsertMoves, PoolOK
<1>5. \A s \in Scope : Trusted(s) => Shown(s)' = Shown(s)
  <2> SUFFICES ASSUME NEW s \in Scope, Trusted(s) PROVE Shown(s)' = Shown(s)
    OBVIOUS
  <2>1. CASE event' = event
    BY <1>2, <1>4, <2>1, ShownSame
  <2>2. CASE Writes(cur)
    <3>1. reservationTokens[s] \cap reservationTokens[Global] = {}
      BY DEF ScanExact, ScanOfExact
    <3>2. s \notin Scopes(cur)
      BY <2>2, <3>1 DEF Writes, Scopes
    <3> QED
      BY <1>0, <2>2, <3>2, WriteShows
  <2> QED
    BY <1>0, <2>1, <2>2, ApplyWrites
<1>6. \A s \in Scope : \A d \in accountingTokens'[s] : phase'[d] = phase[d]
  BY <1>0, <1>2, <1>4 DEF TokensOK
<1>7. Active(Global)' => Active(Global)
  BY <1>2 DEF Active
<1> QED
  BY <1>2, <1>5, <1>6, <1>7, ScanFrame

\* A deletion announces itself in the global counter before it removes anything.
LEMMA ScanDelete ==
  ASSUME Solid, QueueInv, DeletionsInv, ScanExact, Delete
  PROVE  ScanExact'
<1> USE DEF counterVars, queueVars, reservationVars, At
<1>0. /\ Control /\ PoolOK /\ TokensOK /\ Processor \in Actor /\ Job \in Actor /\ Processor # Job
      /\ Global \in Scope
  BY KeysDiffer DEF Solid, TokensInv, Control, ShapeOK, Scope
<1>1. PICK d : d = cur
  OBVIOUS
<1>2. /\ d \in Deletion /\ d \in OpKey /\ DeletionOK(d) /\ DeletionAt(pc[Processor], d)
      /\ pc[Processor] # "idle" /\ UNCHANGED reservationTokens
      /\ \A o \in OpKey : o # d => phase'[o] = phase[o]
  BY <1>0, <1>1, DeletionShape, KeysDiffer DEF DeletionsInv, Deleting, Deletions
<1>3. /\ seen' = seen /\ todo'[Job] = todo[Job] /\ pc'[Job] = pc[Job] /\ moved \subseteq moved'
      /\ settlementTokens' = settlementTokens
  BY <1>0 DEF Delete, DeletionSelect, DeletionBegin, DeletionDelete, PatchOp, DeletionAccount, Visit,
    DeletionAccounted, DeletionClear, DeletionFinish, BeginManifestMutation, AccountOnce, Charge,
    ClearAccounting, FinishManifestMutation, Then, PoolOK
<1>4. Active(Global)' => Active(Global) \/ Global \in moved'
  <2>1. workflowTokens'[Global] \subseteq workflowTokens[Global] \/ Global \in moved'
    BY <1>0 DEF Delete, DeletionSelect, DeletionBegin, DeletionDelete, PatchOp, DeletionAccount,
      DeletionAccounted, DeletionClear, DeletionFinish, BeginManifestMutation, AccountOnce,
      ClearAccounting, FinishManifestMutation, TokensOK
  <2> QED
    BY <1>2, <1>3, <2>1 DEF Active
<1>5. ASSUME NEW s \in Scope, s \notin moved', DeletionAccount(s) PROVE d \in accountingTokens[s]
  BY <1>1, <1>5 DEF DeletionAccount, AccountOnce, Charge
<1>6. \A s \in Scope : s \notin moved' => Shown(s)' = Shown(s)
  BY <1>0, <1>1, <1>5, ShownDelete
<1>7. ASSUME NEW s \in Scope, s \notin moved', NEW b \in accountingTokens'[s],
             phase'[b] = "events_deleted"
      PROVE  b \in accountingTokens[s] /\ phase[b] = "events_deleted" /\ selected'[b] = selected[b]
  <2>1. b \in accountingTokens[s]
    BY <1>0, <1>7 DEF Delete, DeletionSelect, DeletionBegin, DeletionDelete, PatchOp, DeletionAccount,
      DeletionAccounted, DeletionClear, DeletionFinish, BeginManifestMutation, AccountOnce, Charge,
      ClearAccounting, FinishManifestMutation, TokensOK
  <2>2. b \in Deletion /\ b \in OpKey
    BY <1>0, <2>1, KeysDiffer DEF TokensOK
  <2>3. CASE b # d
    <3>1. selected'[b] = selected[b]
      BY <1>0, <1>1, <2>2, <2>3 DEF Delete, DeletionSelect, DeletionBegin, DeletionDelete, PatchOp,
        DeletionAccount, DeletionAccounted, DeletionClear, DeletionFinish, PoolOK
    <3> QED
      BY <1>2, <1>7, <2>1, <2>2, <2>3, <3>1
  <2>4. CASE b = d
    <3>1. phase[d] \notin {"queued", "prepared"}
      BY <1>2, <2>1, <2>4 DEF DeletionOK
    <3>2. ~DeletionSelect
      BY <1>2, <3>1 DEF DeletionSelect, DeletionAt
    <3>3. ~PatchOp("deleted", "events_deleted", "rebegin")
      BY <1>2, <3>1 DEF PatchOp, DeletionAt
    <3>4. ~DeletionAccounted
      BY <1>0, <1>1, <1>2, <1>7, <2>4 DEF DeletionAccounted, PoolOK
    <3>5. UNCHANGED << phase, selected >>
      BY <3>2, <3>3, <3>4 DEF Delete, DeletionBegin, DeletionDelete, DeletionAccount,
        DeletionClear, DeletionFinish
    <3> QED
      BY <1>7, <2>1, <3>5
  <2> QED
    BY <2>3, <2>4
<1> QED
  BY <1>2, <1>3, <1>4, <1>6, <1>7, ScanFrame

\* The queue is not part of the scan.
LEMMA ScanQueue ==
  ASSUME Solid, DeletionsInv, ScanExact,
         \/ Remove \/ ProcessorAbort \/ \E o \in OpKey : Take(o)
         \/ \E d \in Deletion, S \in SUBSET Event : RequestDeletion(d, S)
  PROVE  ScanExact'
<1> USE DEF counterVars, queueVars, workVars, Then
<1>0. /\ Control /\ PoolOK /\ TokensOK /\ Processor \in Actor /\ Job \in Actor /\ Processor # Job
  BY KeysDiffer DEF Solid, TokensInv, Control, ShapeOK
<1>1. /\ UNCHANGED << counterVars, selected >> /\ \A s \in Scope : Shown(s)' = Shown(s)
      /\ \A o \in OpKey : phase'[o] = phase[o] \/ phase'[o] \in {"queued", "gone"}
  BY <1>0, ShownQueue
<1>2. seen' = seen /\ todo'[Job] = todo[Job] /\ pc'[Job] = pc[Job]
  BY <1>0 DEF Remove, ProcessorAbort, Take, RequestDeletion, PoolOK
<1>3. \A s \in Scope : \A d \in accountingTokens'[s] : d \in OpKey
  BY <1>0, <1>1, KeysDiffer DEF TokensOK
<1>4. Active(Global)' => Active(Global)
  BY <1>1 DEF Active
<1> QED
  BY <1>1, <1>2, <1>3, <1>4, ScanFrame

\* The counters are found without active tokens before the index is read, and
\* what a page of the index shows is exact when it is read.
LEMMA ScanSnapshot ==
  ASSUME Solid, DeletionsInv, ScanExact, JobSnapshot
  PROVE  ScanExact'
<1> USE DEF JobAt, Then, reservationVars, queueVars
<1>0. /\ Control /\ PoolOK /\ TokensOK /\ Job \in Actor /\ Global \in Scope
  BY KeysDiffer DEF Solid, TokensInv, Control, ShapeOK, Scope
<1>1. UNCHANGED << event, selected, phase, reservationTokens, settlementTokens,
                   accountingTokens, workflowTokens, seen, todo >>
  BY DEF JobSnapshot
<1>2. seen = Unread
  BY DEF JobSnapshot, ScanExact
<1>3. CASE pc[Job] = "page"
  <2>1. pc'[Job] = "authors" /\ ~Active(Global)
    BY <1>0, <1>3 DEF JobSnapshot, JobThen, PoolOK
  <2>2. ~Active(Global)'
    BY <1>1, <2>1 DEF Active
  <2>3. ~Fresh' /\ \A s \in Scope : ~Trusted(s)'
    BY <2>1 DEF Fresh, Trusted
  <2> QED
    BY <1>1, <1>2, <2>1, <2>2, <2>3 DEF ScanExact, Unread
<1>4. CASE pc[Job] = "authors"
  <2>1. /\ pc'[Job] = "scan" /\ (Global \in moved \/ ~Active(Global))
        /\ Global \in moved => Global \in moved'
    BY <1>0, <1>4, GlobalAssumption DEF JobSnapshot, JobThen, PoolOK, ScanExact
  <2>2. Active(Global)' = Active(Global)
    BY <1>1 DEF Active
  <2>3. ASSUME NEW s \in Scope, Trusted(s)' PROVE ScanOfExact(s)'
    <3>1. ~Active(Global)
      BY <2>1, <2>3 DEF Trusted
    <3>2. reservationTokens'[Global] = {} /\ workflowTokens[Global] = {}
      BY <1>1, <3>1 DEF Active
    <3>3. \A x \in Ref : seen'[x] = "unread"
      BY <1>1, <1>2 DEF Unread
    <3>4. \A d \in accountingTokens'[s] : phase'[d] = "events_deleted" => selected'[d] = {}
      BY <1>0, <1>1, <3>2 DEF DeletionsInv, Deletions, DeletionOK, Announced, TokensOK
    <3> QED
      BY <3>2, <3>3, <3>4 DEF ScanOfExact
  <2> QED
    BY <1>1, <1>2, <2>1, <2>2, <2>3 DEF ScanExact
<1> QED
  BY <1>3, <1>4 DEF JobSnapshot

\* A page of the index shows what the counters show, with no deletion under way.
LEMMA ScanPage ==
  ASSUME Solid, DeletionsInv, ScanExact, NEW x \in Ref, JobScan(x)
  PROVE  ScanExact'
<1> USE DEF JobAt, Then, reservationVars, queueVars, counterVars
<1>0. /\ Control /\ PoolOK /\ TokensOK /\ Job \in Actor /\ Global \in Scope /\ WaysInv
  BY KeysDiffer DEF Solid, TokensInv, Control, ShapeOK, Scope
<1>1. /\ UNCHANGED << event, selected, phase, reservationTokens, settlementTokens, moved,
                      accountingTokens, workflowTokens >>
      /\ pc[Job] = "scan" /\ seen' = [seen EXCEPT ![x] = event[x]] /\ seen[x] = "unread"
  BY DEF JobScan
<1>2. \/ pc'[Job] = "scan"
      \/ pc'[Job] = "reconcile" /\ todo'[Job] = Scope /\ \A y \in Ref : seen'[y] # "unread"
  BY <1>0, <1>1 DEF JobScan, JobThen, PoolOK
<1>3. Fresh /\ Fresh'
  BY <1>0, <1>1, <1>2 DEF Fresh
<1>4. Active(Global)' = Active(Global)
  BY <1>1 DEF Active
<1>5. ASSUME NEW s \in Scope, Trusted(s)' PROVE ScanOfExact(s)'
  <2>1. Trusted(s) /\ ScanOfExact(s) /\ Global \notin moved /\ ~Active(Global)
    BY <1>0, <1>1, <1>2, <1>3, <1>5 DEF Trusted, ScanExact
  <2>2. workflowTokens[Global] = {}
    BY <2>1 DEF Active
  <2>3. Owed(s) \subseteq Stored
    <3> SUFFICES ASSUME NEW d \in Deletion, phase[d] \in {"prepared", "events_deleted"}
                 PROVE  selected[d] \subseteq Stored
      BY DEF Owed
    <3>1. d \notin workflowTokens[Global] /\ DeletionOK(d)
      BY <2>2 DEF DeletionsInv, Deletions
    <3> QED
      BY <3>1 DEF DeletionOK, Announced
  <2>4. Shown(s) = InScope(s, Stored) /\ Shown(s)' = Shown(s)
    BY <1>1, <2>3, ShownSame DEF Shown, InScope, By
  <2>5. ASSUME NEW y \in Ref, seen'[y] # "unread" PROVE ScanOf(s, y)' = ShownOf(s, y)'
    <3>1. CASE y # x
      <4>1. seen'[y] = seen[y]
        BY <1>0, <1>1, <3>1 DEF PoolOK
      <4>2. ScanOf(s, y) = ShownOf(s, y)
        BY <2>1, <2>5, <4>1 DEF ScanOfExact
      <4> QED
        BY <2>4, <4>1, <4>2 DEF ScanOf, ShownOf, InScope, By
    <3>2. CASE y = x
      <4>1. seen'[x] = event[x]
        BY <1>0, <1>1 DEF PoolOK
      <4>2. InScope(s, {event[x]} \ {None}) = {e \in InScope(s, Stored) : RefOf[e] = x}
        <5>1. ASSUME NEW e \in InScope(s, {event[x]} \ {None})
              PROVE  e \in InScope(s, Stored) /\ RefOf[e] = x
          BY <1>0, <5>1 DEF InScope, By, Stored, WaysInv, AtHome
        <5>2. ASSUME NEW e \in InScope(s, Stored), RefOf[e] = x
              PROVE  e \in InScope(s, {event[x]} \ {None})
          <6>1. PICK y0 \in Ref : e = event[y0] /\ e # None
            BY <5>2 DEF InScope, By, Stored
          <6>2. y0 = x
            BY <1>0, <5>2, <6>1 DEF WaysInv, AtHome
          <6> QED
            BY <5>2, <6>1, <6>2 DEF InScope, By
        <5> QED
          BY <5>1, <5>2
      <4>3. ScanOf(s, x)' = InScope(s, {event[x]} \ {None})
        BY <4>1 DEF ScanOf, InScope, By
      <4>4. ShownOf(s, x)' = {e \in InScope(s, Stored) : RefOf[e] = x}
        BY <2>4 DEF ShownOf
      <4> QED
        BY <3>2, <4>2, <4>3, <4>4
    <3> QED
      BY <3>1, <3>2
  <2> QED
    BY <1>1, <2>1, <2>5 DEF ScanOfExact
<1> QED
  BY <1>1, <1>2, <1>3, <1>4, <1>5 DEF ScanExact

\* The global counter is written first, and then each author's is trusted by itself.
LEMMA ScanReconcile ==
  ASSUME Solid, DeletionsInv, ScanExact, NEW s \in Scope, JobReconcile(s)
  PROVE  ScanExact'
<1> USE DEF JobAt, Then, reservationVars, queueVars, counterVars
<1>0. /\ Control /\ PoolOK /\ TokensOK /\ Job \in Actor /\ Global \in Scope
  BY KeysDiffer DEF Solid, TokensInv, Control, ShapeOK, Scope
<1>1. /\ UNCHANGED << event, selected, phase, reservationTokens, seen, pc >>
      /\ pc[Job] = "reconcile" /\ s \in todo[Job] /\ (s = Global \/ Global \notin todo[Job])
      /\ moved \subseteq moved' /\ (CanReconcile(s) => s \in moved')
  BY DEF JobReconcile, ReconcileCounter
<1>2. /\ todo'[Job] \subseteq todo[Job] \ {s}
      /\ s = Global /\ ~CanReconcile(Global) => todo'[Job] = {}
  BY <1>0 DEF JobReconcile, PoolOK
<1>3. ~Fresh'
  BY <1>1, <1>2 DEF Fresh
<1>4. ASSUME NEW t \in Scope, Trusted(t)' PROVE ScanOfExact(t)'
  <2>1. t # s /\ t \notin moved /\ t \in todo[Job]
    <3>1. t \notin moved' /\ t \in todo'[Job]
      BY <1>3, <1>4 DEF Trusted
    <3> QED
      BY <1>1, <1>2, <3>1
  <2>2. Trusted(t)
    BY <1>1, <1>2, <1>3, <1>4, <2>1 DEF Trusted, Fresh, CanReconcile
  <2>3. accountingTokens'[t] = accountingTokens[t]
    BY <1>0, <2>1 DEF JobReconcile, ReconcileCounter, TokensOK
  <2>4. ScanOfExact(t) /\ Shown(t)' = Shown(t)
    BY <1>1, <2>2, <2>3, ShownSame DEF ScanExact
  <2>5. \A x \in Ref : seen'[x] # "unread" => ScanOf(t, x)' = ShownOf(t, x)'
    BY <1>1, <2>4 DEF ScanOfExact, ScanOf, ShownOf, InScope, By
  <2> QED
    BY <1>1, <2>3, <2>4, <2>5 DEF ScanOfExact
<1> QED
  BY <1>1, <1>3, <1>4 DEF ScanExact

\* The job's other steps are outside of the scan.
LEMMA ScanJob ==
  ASSUME Solid, DeletionsInv, ScanExact, JobStep \/ JobAbort
  PROVE  ScanExact'
<1> USE DEF JobAt, Then
<1>0. /\ Control /\ PoolOK /\ Job \in Actor
  BY KeysDiffer DEF Solid, TokensInv, Control, ShapeOK
<1>1. CASE JobSnapshot
  BY <1>1, ScanSnapshot
<1>2. ASSUME NEW x \in Ref, JobScan(x) PROVE ScanExact'
  BY <1>2, ScanPage
<1>3. ASSUME NEW s \in Scope, JobReconcile(s) PROVE ScanExact'
  BY <1>3, ScanReconcile
<1>4. CASE JobStart \/ JobFinish \/ (\E r \in Reservation : JobVisit(r)) \/ JobInspect \/ JobSkip
           \/ JobCancelOrphan \/ JobCalled \/ (\E s \in Scope : JobTerminal(s)) \/ JobRetire
           \/ JobReconciled \/ JobAbort
  <2>1. pc'[Job] \notin {"authors", "scan", "reconcile"} /\ seen' = Unread
    BY <1>0, <1>4 DEF JobStart, JobFinish, JobVisit, JobInspect, JobSkip, JobCancelOrphan, JobCalled,
      JobTerminal, JobRetire, JobReconciled, JobAbort, JobRest, JobThen, Goto, PoolOK, ScanExact
  <2> QED
    BY <2>1 DEF ScanExact, Trusted, Fresh, Unread
<1> QED
  BY <1>1, <1>2, <1>3, <1>4 DEF JobStep

\* The scan stays exact: inductive, given the other invariants.
LEMMA ScanStep ==
  ASSUME Solid, QueueInv, DeletionsInv, ScanExact, [Next]_vars
  PROVE  ScanExact'
<1>1. ASSUME NEW r \in Reservation, Saver(r) \/ SaverCrash(r) PROVE ScanExact'
  BY <1>1, ScanSaver
<1>2. CASE Settlement
  BY <1>2, ScanCall DEF Settlement
<1>3. CASE Upsert
  BY <1>3, ScanUpsert
<1>4. CASE Delete
  BY <1>4, ScanDelete
<1>5. CASE Remove \/ ProcessorAbort \/ \E o \in OpKey : Take(o)
  BY <1>5, ScanQueue
<1>6. ASSUME NEW d \in Deletion, NEW S \in SUBSET Event, RequestDeletion(d, S) PROVE ScanExact'
  BY <1>6, ScanQueue
<1>7. CASE JobStep \/ JobAbort
  BY <1>7, ScanJob
<1>8. CASE UNCHANGED vars
  <2> USE DEF vars, counterVars, reservationVars, queueVars, workVars
  <2>1. \A s \in Scope : Shown(s)' = Shown(s)
    BY <1>8, ShownSame
  <2>2. Active(Global)' => Active(Global)
    BY <1>8 DEF Active
  <2> QED
    BY <1>8, <2>1, <2>2, ScanFrame
<1> QED
  BY <1>1, <1>2, <1>3, <1>4, <1>5, <1>6, <1>7, <1>8 DEF Next, ProcessorStep

-------------------------------------------------------------------------------
(*****************************************************************************)
(* The invariant.                                                            *)
(*****************************************************************************)
\* Nothing is under way at the start, and the counters show what is stored.
LEMMA LedgerInit == Init => LedgerInv
<1> SUFFICES ASSUME Init PROVE LedgerInv
  OBVIOUS
<1> USE DEF Init, CountersInit, ReservationsInit
<1>0. Control /\ PoolOK
  BY ControlInit DEF Control, ShapeOK
<1>1. /\ \A o \in OpKey : phase[o] = "none" /\ ahead[o] = {}
      /\ \A r \in Reservation : r \in OpKey /\ phase[r] = "none" /\ pc[r] = "idle" /\ state[r] = "absent"
           /\ page[r] = "absent" /\ settled[r] = {}
      /\ \A d \in Deletion : phase[d] = "none" /\ selected[d] = {}
      /\ pc[Processor] = "idle" /\ pc[Job] = "idle" /\ \A a \in Actor : call[a] = NoCall
  BY DEF OpKey, Actor, NoPage
<1>2. \A s \in Scope : /\ reservationTokens[s] = {} /\ settlementTokens[s] = {}
                       /\ accountingTokens[s] = {} /\ workflowTokens[s] = {}
  OBVIOUS
<1>3. QueueInv
  <2>1. \A o \in OpKey : ahead[o] = {} /\ o \notin Queued /\ o \notin Started
    BY <1>1 DEF Queued, Started
  <2>2. \A o \in OpKey : ~Begun(o)
    BY <1>1, <2>1 DEF Begun, Prepared
  <2>3. Queued \subseteq OpKey
    BY DEF Queued
  <2> QED
    BY <2>1, <2>2, <2>3 DEF QueueInv, QueueOrdered, OneAtATime
<1>4. WaysInv
  <2>1. ASSUME NEW r \in Reservation PROVE Straight(r)
    <3>1. ~Written(r) /\ ~Applied(r) /\ Stage(r) /\ Placed(r)
      BY <1>1 DEF Written, Applied, Stage, Placed
    <3>2. Covered(r) /\ Exact(r) /\ Backed(r)
      BY <1>1 DEF Covered, Exact, Backed
    <3>3. TokensOneWay(r) /\ PageOneWay(r) /\ ClearedLast(r)
      BY <1>1, <1>2, <3>1 DEF TokensOneWay, PageOneWay, ClearedLast, Terminal
    <3> QED
      BY <3>1, <3>2, <3>3 DEF Straight
  <2>2. OneWay
    BY <1>1 DEF OneWay, NoCall
  <2>3. call[Processor].step = "off"
    BY <1>1 DEF Actor, NoCall
  <2>4. Upserting /\ ProcessorCall /\ Retiring
    BY <1>1, <2>3 DEF Upserting, UpsertAt, ProcessorCall, Retiring
  <2>5. AtHome
    BY PoolAssumption DEF AtHome
  <2> QED
    BY <2>1, <2>2, <2>4, <2>5 DEF WaysInv
<1>5. DeletionsInv
  <2>1. \A d \in Deletion : DeletionOK(d)
    <3>1. Global \in Scope
      BY DEF Scope
    <3> QED
      BY <1>1, <1>2, <3>1 DEF DeletionOK
  <2>2. \A s \in Author : workflowTokens[s] = {}
    BY <1>2 DEF Scope
  <2>3. Deleting
    BY <1>1 DEF Deleting, DeletionAt
  <2> QED
    BY <2>1, <2>2, <2>3 DEF DeletionsInv, Deletions
<1>6. ScanExact
  BY <1>1 DEF ScanExact, Trusted, Fresh
<1>7. TokensFinite
  BY <1>2, FS_EmptySet DEF TokensFinite
<1>8. ASSUME NEW s \in Scope
      PROVE  /\ Shown(s) = InScope(s, Stored) /\ Shown(s) \in SUBSET Event
             /\ logicalBytes[s] = Bytes(Shown(s)) /\ manifestCount[s] = Cardinality(Shown(s))
             /\ HeldBytes(s) = 0 /\ HeldCount(s) = 0
  <2>1. Owed(s) = {}
    BY <1>1 DEF Owed
  <2>2. Shown(s) = InScope(s, Stored) /\ Shown(s) \in SUBSET Event
    BY <1>0, <2>1, ShownEvents DEF Shown, InScope, By
  <2>3. Stored = {Earlier[x] : x \in Ref} \ {None}
    BY DEF Stored
  <2>4. PICK T : T = InScope(s, {Earlier[x] : x \in Ref} \ {None})
    OBVIOUS
  <2>5. logicalBytes[s] = Bytes(T) /\ manifestCount[s] = Cardinality(T)
    BY <2>4
  <2>6. Shown(s) = T
    BY <2>2, <2>3, <2>4
  <2>7. Bytes(Shown(s)) = Bytes(T) /\ Cardinality(Shown(s)) = Cardinality(T)
    BY <2>6
  <2>8. PICK f : f = [r \in reservationTokens[s] |-> Held(r).bytes]
    OBVIOUS
  <2>9. PICK g : g = [r \in reservationTokens[s] |-> Held(r).count]
    OBVIOUS
  <2>10. DOMAIN f = {} /\ DOMAIN g = {}
    BY <1>2, <2>8, <2>9
  <2>11. SumFunction(f) = 0 /\ SumFunction(g) = 0
    BY <2>10, SumEmpty DEF SumFunction
  <2>12. HeldBytes(s) = 0 /\ HeldCount(s) = 0
    BY <2>8, <2>9, <2>11 DEF HeldBytes, HeldCount
  <2> QED
    BY <2>2, <2>5, <2>7, <2>12
<1>9. \A s \in Scope : Bytes(Shown(s)) \in Nat /\ Cardinality(Shown(s)) \in Nat
  BY <1>8, EventSet
<1>10. AmountsOK
  <2>1. /\ logicalBytes \in [Scope -> {logicalBytes[s] : s \in Scope}]
        /\ manifestCount \in [Scope -> {manifestCount[s] : s \in Scope}]
    OBVIOUS
  <2>2. \A s \in Scope : logicalBytes[s] \in Nat /\ manifestCount[s] \in Nat
    BY <1>8, <1>9
  <2> QED
    BY <2>1, <2>2 DEF AmountsOK
<1>11. LedgerBalances
  <2>1. \A s \in Scope : Balanced(s)
    BY <1>8, <1>9 DEF Balanced
  <2> QED
    BY <2>1 DEF Balanced, LedgerBalances, Shown
<1> QED
  BY <1>3, <1>4, <1>5, <1>6, <1>7, <1>10, <1>11 DEF LedgerInv

\* All invariants of the pool together.
PoolInvariant == OutcomeInv /\ TokensInv /\ LedgerInv

\* The invariant holds in the initial states.
LEMMA PoolInvariantInit == Init => PoolInvariant
BY OutcomeInit, TokensInit, LedgerInit DEF PoolInvariant

\* The invariant is inductive when an enqueue has a known outcome and no saver
\* outlives the orphan lease.
LEMMA PoolInvariantStep ==
  ASSUME Faults = {}, PoolInvariant, [Next]_vars
  PROVE  PoolInvariant'
<1>0. /\ OutcomeInv /\ TokensInv /\ QueueInv /\ WaysInv /\ DeletionsInv /\ ScanExact
      /\ TokensFinite /\ AmountsOK /\ LedgerBalances /\ Control /\ Solid
  BY DEF PoolInvariant, LedgerInv, TokensInv, Solid
<1>1. OutcomeInv' /\ TokensInv'
  BY <1>0, OutcomeStep, TokensStep
<1>2. QueueInv' /\ WaysInv'
  BY <1>0, QueueStep, WaysStep
<1>3. DeletionsInv' /\ ScanExact'
  BY <1>0, DeletionsStep, ScanStep
<1>4. LedgerBalances' /\ AmountsOK' /\ TokensFinite'
  BY <1>0, LedgerStep
<1> QED
  BY <1>1, <1>2, <1>3, <1>4 DEF PoolInvariant, LedgerInv

-------------------------------------------------------------------------------
(*****************************************************************************)
(* The theorems.                                                             *)
(*****************************************************************************)
\* No counter shows more than its emergency limit.
Limited == \A s \in Scope : logicalBytes[s] <= Emergency[s]

\* A charge of nothing or less stays under the limit.
LEMMA ChargeDown ==
  ASSUME AmountsOK, Limited, NEW s \in Scope, NEW bytes \in Int, NEW count, bytes <= 0,
         Charge(s, bytes, count)
  PROVE  Limited'
<1>1. /\ logicalBytes' = [logicalBytes EXCEPT ![s] = AtLeastZero(logicalBytes[s] + bytes)]
      /\ logicalBytes[s] \in Nat /\ Emergency[s] \in Nat
  BY EmergencyAssumption DEF Charge, AmountsOK
<1>2. AtLeastZero(logicalBytes[s] + bytes) <= Emergency[s]
  BY <1>1 DEF AtLeastZero, Limited
<1> QED
  BY <1>1, <1>2 DEF Limited, AmountsOK

\* Only an admitted reservation adds to a counter (reserveCounter).
LEMMA LimitSaver ==
  ASSUME Solid, AmountsOK, Limited, NEW r \in Reservation, Saver(r) \/ SaverCrash(r)
  PROVE  Limited'
<1>0. Control /\ DocKnown
  BY DEF Solid, TokensInv, Control
<1>1. ASSUME NEW s \in Scope, doc[r] \in Doc, Fits(s, doc[r].reserved.bytes),
             ReserveCounter(s, r, doc[r].reserved.bytes, doc[r].reserved.count)
      PROVE  Limited'
  <2>1. PICK n \in Nat : n = doc[r].reserved.bytes
    BY <1>1 DEF Doc
  <2>2. /\ logicalBytes' = [logicalBytes EXCEPT ![s] = AtLeastZero(logicalBytes[s] + n)]
        /\ logicalBytes[s] \in Nat /\ (n = 0 \/ logicalBytes[s] + n <= Emergency[s])
    BY <1>1, <2>1 DEF ReserveCounter, Charge, AmountsOK, Fits
  <2>3. AtLeastZero(logicalBytes[s] + n) <= Emergency[s]
    BY <2>1, <2>2 DEF AtLeastZero, Limited, AmountsOK
  <2> QED
    BY <2>2, <2>3 DEF Limited, AmountsOK
<1>2. CASE SaverGlobal(r)
  <2>1. Global \in Scope
    BY DEF Scope
  <2> QED
    BY <1>0, <1>1, <1>2, <2>1 DEF SaverGlobal, Reserve, DocKnown, counterVars, Limited
<1>3. CASE SaverAuthor(r)
  <2>1. AuthorScope(r) \in Scope /\ doc[r] \in Doc
    BY <1>0, <1>3, AuthorScopeType DEF SaverAuthor, DocKnown, Scope
  <2> QED
    BY <1>1, <1>3, <2>1 DEF SaverAuthor, Reserve, counterVars, Limited
<1>4. CASE ~SaverGlobal(r) /\ ~SaverAuthor(r)
  BY <1>4 DEF Saver, SaverCrash, BeginSave, SaverMark, SaverReject, SaverEnqueue,
    SaverEnqueueFails, SaverCancelled, counterVars, Limited
<1> QED
  BY <1>2, <1>3, <1>4

\* A settlement charges at most what was reserved.
LEMMA LimitCall ==
  ASSUME Solid, AmountsOK, Limited, NEW a \in Actor, CallNext(a)
  PROVE  Limited'
<1>0. TokensInv /\ WaysInv /\ Control
  BY DEF Solid, TokensInv
<1>1. CASE logicalBytes' = logicalBytes
  BY <1>1 DEF Limited
<1>2. CASE logicalBytes' # logicalBytes
  <2>1. CallSettle(a)
    BY <1>2 DEF CallNext, CallRead, CallFlag, CallState, CallClear, ClearSettlement, counterVars
  <2>2. PICK c : c = call[a]
    OBVIOUS
  <2>3. PICK r : r = c.r
    OBVIOUS
  <2>4. PICK s : s = c.scope
    OBVIOUS
  <2>5. c.step = "settle"
    BY <2>1, <2>2 DEF CallSettle
  <2>6. /\ r \in Reservation /\ s \in Scope /\ c.outcome \in Outcome /\ doc[r] \in Doc
        /\ Straight(r) /\ CallOneWay(c)
    BY <1>0, <2>2, <2>3, <2>4, <2>5, CallKnows
  <2>7. /\ r \in reservationTokens[s]
        /\ c.outcome = "commit" =>
             Charge(s, c.delta.bytes - doc[r].reserved.bytes, c.delta.count - doc[r].reserved.count)
        /\ c.outcome = "cancel" =>
             Charge(s, 0 - doc[r].reserved.bytes, 0 - doc[r].reserved.count)
    BY <1>2, <2>1, <2>2, <2>3, <2>4 DEF CallSettle, SettleCounter, counterVars
  <2>8. doc[r].reserved.bytes \in Nat
    BY <2>6 DEF Doc
  <2>9. CASE c.outcome = "commit"
    <3>1. Applied(r) /\ c.delta = delta[r] /\ state[r] \in Live
      BY <1>0, <2>3, <2>5, <2>6, <2>7, <2>9 DEF CallOneWay, TokensInv, ReservationTokensOwned
    <3>2. Stage(r) /\ Covered(r)
      BY <2>6 DEF Straight, Placed
    <3>3. Written(r)
      BY <3>1, <3>2 DEF Stage, Applied, Live, Terminal
    <3>4. delta[r] # None /\ delta[r].bytes <= doc[r].reserved.bytes
      BY <3>2, <3>3 DEF Covered, Written
    <3>5. delta[r] \in Amount
      BY <1>0, <2>6, <3>4 DEF Control, ShapeOK, ReservationsOK
    <3>6. PICK n \in Int : n = c.delta.bytes - doc[r].reserved.bytes /\ n <= 0
      BY <2>8, <3>1, <3>4, <3>5 DEF Amount
    <3> QED
      BY <2>6, <2>7, <2>9, <3>6, ChargeDown
  <2>10. CASE c.outcome = "cancel"
    <3>1. PICK n \in Int : n = 0 - doc[r].reserved.bytes /\ n <= 0
      BY <2>8
    <3> QED
      BY <2>6, <2>7, <2>10, <3>1, ChargeDown
  <2> QED
    BY <2>6, <2>9, <2>10 DEF Outcome
<1> QED
  BY <1>1, <1>2

\* A deletion charges what it removed, and nothing else of the processor's or
\* the queue's changes an amount.
LEMMA LimitProcessor ==
  ASSUME Solid, AmountsOK, Limited,
         \/ ProcessorStep \/ ProcessorAbort
         \/ \E d \in Deletion, S \in SUBSET Event : RequestDeletion(d, S)
  PROVE  Limited'
<1>0. Control /\ PoolOK /\ CurOwned
  BY DEF Solid, TokensInv, Control, ShapeOK
<1>1. ASSUME NEW s \in Scope, DeletionAccount(s), logicalBytes' # logicalBytes PROVE Limited'
  <2>1. cur \in Deletion
    BY <1>0, <1>1 DEF DeletionAccount, At, CurOwned, DeletionPc
  <2>2. PICK T \in SUBSET Event : T = InScope(s, selected[cur])
    BY <1>0, <2>1 DEF PoolOK, InScope, By
  <2>3. Charge(s, -Bytes(T), -Cardinality(T))
    BY <1>1, <2>2 DEF DeletionAccount, AccountOnce, counterVars
  <2>4. PICK n \in Int : n = -Bytes(T) /\ n <= 0
    BY <2>2, EventSet
  <2> QED
    BY <2>3, <2>4, ChargeDown
<1>2. CASE Upsert
  BY <1>0, <1>2, UpsertStepMoves DEF UpsertMoves, counterVars, Limited
<1>3. CASE Delete
  <2>1. \/ logicalBytes' = logicalBytes
        \/ \E s \in Scope : DeletionAccount(s) /\ logicalBytes' # logicalBytes
    BY <1>3 DEF Delete, DeletionSelect, DeletionBegin, DeletionDelete, PatchOp, DeletionAccounted,
      DeletionClear, DeletionFinish, BeginManifestMutation, ClearAccounting, FinishManifestMutation,
      counterVars
  <2> QED
    BY <1>1, <2>1 DEF Limited
<1>4. CASE \/ Remove \/ ProcessorAbort \/ \E o \in OpKey : Take(o)
           \/ \E d \in Deletion, S \in SUBSET Event : RequestDeletion(d, S)
  BY <1>4 DEF Remove, ProcessorAbort, Take, RequestDeletion, counterVars, Limited
<1> QED
  BY <1>2, <1>3, <1>4 DEF ProcessorStep

\* A reconciliation finds what the counter showed.
LEMMA LimitJob ==
  ASSUME Solid, AmountsOK, LedgerBalances, DeletionsInv, ScanExact, Limited, JobStep \/ JobAbort
  PROVE  Limited'
<1>1. ASSUME NEW s \in Scope, JobReconcile(s), CanReconcile(s) PROVE Limited'
  BY <1>1, LedgerReconcile DEF Limited
<1>2. CASE \A s \in Scope : JobReconcile(s) => ~CanReconcile(s)
  <2>1. logicalBytes' = logicalBytes
    BY <1>2
      DEF JobStep, JobAbort, JobRest, JobStart, JobFinish, JobVisit, JobInspect, JobSkip,
        JobCancelOrphan, JobCalled, JobTerminal, ClearSettlement, JobRetire, JobSnapshot,
        JobReconciled, JobScan, JobReconcile, ReconcileCounter, counterVars
  <2> QED
    BY <2>1 DEF Limited
<1> QED
  BY <1>1, <1>2

\* The limits are inductive, given the other invariants.
LEMMA LimitStep ==
  ASSUME PoolInvariant, Limited, [Next]_vars
  PROVE  Limited'
<1>0. Solid /\ AmountsOK /\ LedgerBalances /\ DeletionsInv /\ ScanExact
  BY DEF PoolInvariant, LedgerInv, Solid
<1>1. ASSUME NEW r \in Reservation, Saver(r) \/ SaverCrash(r) PROVE Limited'
  BY <1>0, <1>1, LimitSaver
<1>2. CASE Settlement
  BY <1>0, <1>2, LimitCall DEF Settlement
<1>3. CASE \/ ProcessorStep \/ ProcessorAbort
           \/ \E d \in Deletion, S \in SUBSET Event : RequestDeletion(d, S)
  BY <1>0, <1>3, LimitProcessor
<1>4. CASE JobStep \/ JobAbort
  BY <1>0, <1>4, LimitJob
<1>5. CASE UNCHANGED vars
  BY <1>5 DEF vars, counterVars, Limited
<1> QED
  BY <1>1, <1>2, <1>3, <1>4, <1>5 DEF Next

\* They hold at the start if what was stored did.
LEMMA LimitInit == StartsWithin /\ Init => Limited
<1> SUFFICES ASSUME StartsWithin, Init PROVE Limited
  OBVIOUS
<1> QED
  BY DEF Init, CountersInit, StartsWithin, Limited

\* A counter shows at least what is stored, since what is held is no debt.
LEMMA StoredShown ==
  ASSUME PoolInvariant, NEW s \in Scope
  PROVE  Bytes(InScope(s, Stored)) <= logicalBytes[s]
<1>0. Solid /\ LedgerBalances /\ PoolOK /\ AmountsOK
  BY DEF PoolInvariant, LedgerInv, Solid, TokensInv, Control, ShapeOK
<1>1. PICK T : T = InScope(s, Stored)
  OBVIOUS
<1>2. PICK S : S = Shown(s)
  OBVIOUS
<1>3. S \in SUBSET Event /\ T \in SUBSET S
  BY <1>0, <1>1, <1>2, ShownEvents
<1>4. Bytes(T) <= Bytes(S) /\ Bytes(T) \in Nat /\ Bytes(S) \in Nat
  BY <1>3, EventWithin, EventSet
<1>5. logicalBytes[s] = Bytes(S) + HeldBytes(s) /\ HeldBytes(s) \in Nat
  BY <1>0, <1>2, SumsNat DEF LedgerBalances, Shown
<1> QED
  BY <1>1, <1>4, <1>5

\* The token of a settlement is of a document, that of a deletion of a queued
\* operation.
LEMMA OthersOwned == PoolInvariant => OtherTokensOwned
<1> SUFFICES ASSUME PoolInvariant, NEW s \in Scope
             PROVE  /\ \A t \in settlementTokens[s] : state[t[1]] # "absent"
                    /\ workflowTokens[s] \subseteq Queued
  BY DEF OtherTokensOwned
<1>0. TokensOK /\ WaysInv /\ Deletions
  BY DEF PoolInvariant, LedgerInv, DeletionsInv, TokensInv, Control, ShapeOK
<1>1. ASSUME NEW t \in settlementTokens[s] PROVE state[t[1]] # "absent"
  <2>1. PICK r \in Reservation, o \in Outcome : t = <<r, o>>
    BY <1>0 DEF TokensOK
  <2>2. state[r] # "absent"
    BY <1>0, <2>1 DEF WaysInv, Straight, TokensOneWay
  <2> QED
    BY <2>1, <2>2
<1>2. ASSUME NEW d \in workflowTokens[s] PROVE d \in Queued
  <2>1. s = Global /\ d \in Deletion
    BY <1>0 DEF Deletions, Scope, TokensOK
  <2>2. phase[d] \in {"prepared", "events_deleted", "accounting_applied"}
    BY <1>0, <2>1 DEF Deletions, DeletionOK
  <2> QED
    BY <2>1, <2>2 DEF Queued, OpKey
<1> QED
  BY <1>1, <1>2

\* The pool's books balance at every moment, for every number of savers, events,
\* authors, deletions and stops: each byte and each manifest a counter shows is
\* stored, is being deleted and not charged yet, or is held by a reservation.
THEOREM Balances == Faults = {} /\ Spec => []LedgerBalances
<1> SUFFICES ASSUME Faults = {} PROVE Spec => []LedgerBalances
  OBVIOUS
<1>1. PoolInvariant /\ [Next]_vars => PoolInvariant'
  BY PoolInvariantStep
<1>2. PoolInvariant => LedgerBalances
  BY DEF PoolInvariant, LedgerInv
<1> QED
  BY PoolInvariantInit, <1>1, <1>2, PTL DEF Spec

\* The emergency limits of getManifestPoolLimits hold for what is counted and,
\* since a counter never shows less, for what is stored, if they held at first.
THEOREM LimitsHold == Faults = {} /\ StartsWithin /\ Spec => []WithinEmergency
<1> SUFFICES ASSUME Faults = {}, StartsWithin PROVE Spec => []WithinEmergency
  OBVIOUS
<1>1. Init => PoolInvariant /\ Limited
  BY PoolInvariantInit, LimitInit
<1>2. PoolInvariant /\ Limited /\ [Next]_vars => (PoolInvariant /\ Limited)'
  BY PoolInvariantStep, LimitStep
<1>3. PoolInvariant /\ Limited => WithinEmergency
  BY StoredShown DEF WithinEmergency, Limited
<1> QED
  BY <1>1, <1>2, <1>3, PTL DEF Spec

\* Tokens of settlements and deletions always belong to something that is still
\* on record and whose next run clears them.
THEOREM OthersHaveOwners == Faults = {} /\ Spec => []OtherTokensOwned
<1> SUFFICES ASSUME Faults = {} PROVE Spec => []OtherTokensOwned
  OBVIOUS
<1>1. PoolInvariant /\ [Next]_vars => PoolInvariant'
  BY PoolInvariantStep
<1> QED
  BY PoolInvariantInit, <1>1, OthersOwned, PTL DEF Spec

\* All three for any number of authors, whose limits may differ from the pool's.
THEOREM PoolSafe == Faults = {} /\ StartsWithin /\ Spec => []PoolInv
<1> SUFFICES ASSUME Faults = {}, StartsWithin PROVE Spec => []PoolInv
  OBVIOUS
<1> QED
  BY Balances, LimitsHold, OthersHaveOwners, PTL DEF PoolInv

\* The variables keep their types; amounts do because no charge is made of a
\* document without actual amounts.
THEOREM PoolTypes == Faults = {} /\ Spec => []TypeOK
<1> SUFFICES ASSUME Faults = {} PROVE Spec => []TypeOK
  OBVIOUS
<1>1. PoolInvariant /\ [Next]_vars => PoolInvariant'
  BY PoolInvariantStep
<1>2. PoolInvariant => TypeOK
  BY DEF PoolInvariant, LedgerInv, TokensInv, Control, TypeOK
<1> QED
  BY PoolInvariantInit, <1>1, <1>2, PTL DEF Spec

\* A rebuild from the events index that applyReconciledCounter accepts finds what
\* the counter says already: it never lowers a counter below what is stored, nor
\* takes in what a saver or a deletion is moving meanwhile.
THEOREM RebuildsConfirm == Faults = {} /\ Spec => RebuildConfirms
<1> DEFINE Step == \A s \in Scope : JobReconcile(s) => UNCHANGED << logicalBytes, manifestCount >>
<1> SUFFICES ASSUME Faults = {} PROVE Spec => RebuildConfirms
  OBVIOUS
<1>1. PoolInvariant /\ [Next]_vars => PoolInvariant'
  BY PoolInvariantStep
<1>2. ASSUME PoolInvariant, NEW s \in Scope, JobReconcile(s)
      PROVE  UNCHANGED << logicalBytes, manifestCount >>
  <2>1. Solid /\ AmountsOK /\ LedgerBalances /\ DeletionsInv /\ ScanExact
    BY <1>2 DEF PoolInvariant, LedgerInv, Solid
  <2>2. CASE CanReconcile(s)
    <3>1. /\ AmountsOK' /\ \A t \in Scope : /\ logicalBytes'[t] = logicalBytes[t]
                                          /\ manifestCount'[t] = manifestCount[t]
      BY <1>2, <2>1, <2>2, LedgerReconcile
    <3> QED
      BY <2>1, <3>1 DEF AmountsOK
  <2>3. CASE ~CanReconcile(s)
    BY <1>2, <2>3 DEF JobReconcile, ReconcileCounter, counterVars
  <2> QED
    BY <2>2, <2>3
<1>3. PoolInvariant /\ [Next]_vars => [Step]_vars
  BY <1>2
<1> QED
  BY PoolInvariantInit, <1>1, <1>3, PTL DEF Spec, RebuildConfirms

\* A manifest enters the events index only under a reservation for it that both
\* counters still hold: processManifestUpsert never writes what recovery or the
\* saver has cancelled.
THEOREM WritesReserved == Faults = {} /\ Spec => StoredOnlyUnderReservation
<1> DEFINE Step == \A x \in Ref : event'[x] \notin {None, event[x]} =>
       \E r \in reservationTokens[Global] :
         /\ doc[r].event = event'[x]
         /\ r \in reservationTokens[AuthorOf[event'[x]]]
<1> SUFFICES ASSUME Faults = {} PROVE Spec => StoredOnlyUnderReservation
  OBVIOUS
<1>1. PoolInvariant /\ [Next]_vars => PoolInvariant'
  BY PoolInvariantStep
<1>2. ASSUME PoolInvariant, [Next]_vars PROVE Step
  <2>0. TokensInv /\ QueueInv /\ WaysInv /\ PoolOK /\ Control
    BY <1>2 DEF PoolInvariant, LedgerInv, TokensInv, Control, ShapeOK
  <2>1. CASE event' = event
    BY <2>1
  <2>2. CASE DeletionDelete
    BY <2>2 DEF DeletionDelete
  <2>3. CASE Writes(cur)
    <3>1. PICK r : r = cur
      OBVIOUS
    <3>2. /\ r \in Reservation /\ \A s \in {Global, AuthorOf[doc[r].event]} : r \in reservationTokens[s]
          /\ event' = [event EXCEPT ![KeyOf(r)] = doc[r].event]
      BY <2>3, <3>1 DEF Writes, Scopes, AuthorScope
    <3> QED
      BY <2>0, <3>2 DEF PoolOK
  <2>4. \/ event' = event \/ DeletionDelete \/ Upsert
    <3>1. ASSUME NEW r \in Reservation, Saver(r) \/ SaverCrash(r) PROVE event' = event
      BY <3>1 DEF Saver, SaverCrash, BeginSave, SaverGlobal, SaverAuthor, Reserve, SaverMark,
        SaverReject, SaverEnqueue, SaverEnqueueFails, SaverCancelled
    <3>2. CASE Delete
      BY <3>2 DEF Delete, DeletionSelect, DeletionBegin, PatchOp, DeletionAccount,
        DeletionAccounted, DeletionClear, DeletionFinish
    <3>3. CASE Remove \/ ProcessorAbort \/ (\E o \in OpKey : Take(o)) \/ Settlement
               \/ \E d \in Deletion, S \in SUBSET Event : RequestDeletion(d, S)
      BY <3>3 DEF Remove, ProcessorAbort, Take, Settlement, RequestDeletion
    <3>4. CASE JobStep \/ JobAbort
      BY <2>0, <3>4, JobStepMoves DEF JobMoves, JobRetire
    <3> QED
      BY <1>2, <3>1, <3>2, <3>3, <3>4 DEF Next, ProcessorStep, vars
  <2> QED
    BY <2>0, <2>1, <2>2, <2>3, <2>4, ApplyWrites
<1>3. PoolInvariant /\ [Next]_vars => [Step]_vars
  BY <1>2
<1> QED
  BY PoolInvariantInit, <1>1, <1>3, PTL DEF Spec, StoredOnlyUnderReservation
===============================================================================
