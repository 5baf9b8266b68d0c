------------------------- MODULE ManifestReservations -------------------------
(***************************************************************************)
(* Reservation documents (index manifestPoolReservations) and the two      *)
(* procedures that settle them, finalizeManifestReservation and            *)
(* cancelManifestReservation.  Savers, the pending-operation processor and *)
(* the maintenance job all run these procedures, possibly at the same time *)
(* and on the same reservation; call[a] is where actor a stands in its     *)
(* run, `delta' what its local copy of the document says of the actual     *)
(* amounts; the flags in that copy decide `step' and `scope'.              *)
(*                                                                         *)
(* patchReservation writes and reads the document back; the two requests   *)
(* are one step here.                                                      *)
(***************************************************************************)
EXTENDS ManifestCounters

CONSTANTS
  Event,              \* manifest events
  Ref, RefOf,         \* document keys of the events index, one per address
  AuthorOf,           \* the event's pubkey
  Size,               \* byteSize
  None                \* a missing document or field

ASSUME EventAssumption ==
  /\ RefOf \in [Event -> Ref]
  /\ AuthorOf \in [Event -> Author]
  /\ Size \in [Event -> Nat]
  /\ None \notin Event

\* addressToRef hashes kind, pubkey and d tag: an address has one author.  Ids
\* have 32 bytes, so that there are finitely many events.
ASSUME AddressAssumption ==
  /\ \A e, f \in Event : RefOf[e] = RefOf[f] => AuthorOf[e] = AuthorOf[f]
  /\ IsFiniteSet(Event)

Processor == "processor"
Job == "job"
Actor == Reservation \cup {Processor, Job}

ASSUME ActorAssumption == Processor \notin Reservation /\ Job \notin Reservation

VARIABLES
  state,      \* reservation.state, or "absent"
  doc,        \* eventId and reserved amounts, fixed when the document is added,
              \* and whether a rejectionScope was recorded
  delta,      \* actualDeltaBytes and actualDeltaCount, or None
  settled,    \* which of globalSettled and authorSettled hold, as counters
  call        \* per actor, the run of finalize or cancel it is in

reservationVars == << state, doc, delta, settled >>

Terminal == {"committed", "cancelled", "rejected"}
Live == {"preparing", "reserved", "prepared", "event_applied", "cancel_required"}
Amount == [bytes : Int, count : Int]
ASSUME MissingAssumption == None \notin Amount
Doc == [event : Event, reserved : [bytes : Nat, count : {0, 1}], rejection : BOOLEAN]
CallStep == {"off", "read", "settle", "flag", "state", "clear", "done", "failed"}

AuthorScope(r) == AuthorOf[doc[r].event]

NoCall == [step |-> "off", r |-> None, outcome |-> "cancel",
           terminal |-> "cancelled", scope |-> Global, delta |-> None]

Call == [step : CallStep, r : Reservation \cup {None}, outcome : Outcome,
         terminal : Terminal, scope : Scope, delta : Amount \cup {None}]

ReservationsOK ==
  /\ state \in [Reservation -> Live \cup Terminal \cup {"absent"}]
  /\ doc \in [Reservation -> Doc \cup {None}]
  /\ delta \in [Reservation -> Amount \cup {None}]
  /\ settled \in [Reservation -> SUBSET Scope]
  /\ call \in [Actor -> Call]

ReservationsInit ==
  /\ state = [r \in Reservation |-> "absent"]
  /\ doc = [r \in Reservation |-> None]
  /\ delta = [r \in Reservation |-> None]
  /\ settled = [r \in Reservation |-> {}]
  /\ call = [a \in Actor |-> NoCall]

-------------------------------------------------------------------------------
\* Starting a procedure; the caller waits until the step is done or failed.
Finalize(r) == [NoCall EXCEPT !.step = "read", !.r = r, !.outcome = "commit",
                              !.terminal = "committed"]
Cancel(r, terminal) == [NoCall EXCEPT !.step = "read", !.r = r, !.terminal = terminal]

Finished(a) == call[a].step \in {"done", "failed"}

\* Mutant: a reservation whose global share is settled counts as settled.
WithCopyGlobalOnly(c, flags, amount) ==
  [c EXCEPT !.step = IF Global \in flags THEN "state" ELSE "settle",
            !.scope = Global, !.delta = amount]

\* The run with a fresh copy of the document: the global counter comes first,
\* then the author's, then the state.
WithCopy(c, flags, amount) ==
  [c EXCEPT !.step = IF {Global, AuthorScope(c.r)} \subseteq flags
                     THEN "state" ELSE "settle",
            !.scope = IF Global \in flags /\ AuthorScope(c.r) \notin flags
                      THEN AuthorScope(c.r) ELSE Global,
            !.delta = amount]

CallRead(a) ==
  LET c == call[a]
      over == IF c.outcome = "commit" THEN {"committed"} ELSE Terminal \cup {"absent"}
  IN /\ c.step = "read"
     /\ call' = [call EXCEPT ![a] =
                   IF state[c.r] \in over THEN [c EXCEPT !.step = "done"]
                   ELSE IF c.outcome = "commit" /\ delta[c.r] = None
                   THEN [c EXCEPT !.step = "failed"]
                   ELSE WithCopy(c, settled[c.r], delta[c.r])]
     /\ UNCHANGED << counterVars, reservationVars >>

CallSettle(a) ==
  LET c == call[a] IN
  /\ c.step = "settle"
  /\ SettleCounter(c.scope, c.r, c.outcome, doc[c.r].reserved, c.delta)
  /\ call' = [call EXCEPT ![a].step =
                IF Settles(c.scope, c.r, c.outcome) THEN "flag" ELSE "failed"]
  /\ UNCHANGED reservationVars

CallFlag(a) ==
  LET c == call[a] IN
  /\ c.step = "flag"
  /\ settled' = [settled EXCEPT ![c.r] = @ \cup {c.scope}]
  /\ call' = [call EXCEPT ![a] = WithCopy(c, settled'[c.r], delta[c.r])]
  /\ UNCHANGED << counterVars, state, doc, delta >>

CallState(a) ==
  LET c == call[a] IN
  /\ c.step = "state"
  /\ state' = [state EXCEPT ![c.r] = c.terminal]
  /\ call' = [call EXCEPT ![a].step = "clear"]
  /\ UNCHANGED << counterVars, doc, delta, settled >>

CallClear(a) ==
  LET c == call[a] IN
  /\ c.step = "clear"
  /\ ClearSettlement(c.scope, c.r, c.outcome)
  /\ call' = [call EXCEPT ![a] =
                IF c.scope = Global THEN [c EXCEPT !.scope = AuthorScope(c.r)]
                ELSE [c EXCEPT !.step = "done"]]
  /\ UNCHANGED reservationVars

CallNext(a) ==
  CallRead(a) \/ CallSettle(a) \/ CallFlag(a) \/ CallState(a) \/ CallClear(a)
===============================================================================
