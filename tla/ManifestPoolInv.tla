---------------------------- MODULE ManifestPoolInv ----------------------------
(***************************************************************************)
(* The inductive invariants behind the theorems of ManifestPoolProofs.     *)
(***************************************************************************)
EXTENDS ManifestPoolProps

\* Nobody else works on a reservation before its saver has queued it.
Early == {"idle", "global", "author", "mark", "rejectGlobal", "rejectAuthor", "enqueue"}

PcOK ==
  /\ \A r \in Reservation : pc[r] \in SaverPc
  /\ pc[Processor] \in {"idle"} \cup UpsertPc \cup DeletionPc
  /\ pc[Job] \in {"idle"} \cup JobPc

\* Whoever is going to use a document finds it: it is retired last.
DocKnown ==
  \A r \in Reservation :
    \/ state[r] # "absent"
    \/ pc[r] \notin {"idle", "done", "crashed"}
    \/ phase[r] \notin {"none", "gone"}
    \/ page[r] # "absent"
    => doc[r] \in Doc

\* The processor works on one queued operation, of the kind its step is for.
CurOwned ==
  /\ pc[Processor] # "idle" => cur \in OpKey /\ phase[cur] \notin {"none", "gone"}
  /\ pc[Processor] \in UpsertPc \ {"remove"} => cur \in Reservation
  /\ pc[Processor] \in DeletionPc => cur \in Deletion

\* A run of finalize or cancel is about the reservation its caller holds.
CallsOwned ==
  /\ \A r \in Reservation : call[r].step # "off" => pc[r] = "cancel" /\ call[r].r = r
  /\ call[Processor].step # "off" =>
       pc[Processor] \in {"cancel", "settling"} /\ call[Processor].r = cur
  /\ call[Job].step # "off" => pc[Job] = "calling" /\ call[Job].r = visit

VisitOwned ==
  pc[Job] \in {"inspect", "search", "calling", "terminal"} =>
    visit \in Reservation /\ page[visit] # "absent"

Control == ShapeOK /\ PcOK /\ DocKnown /\ CurOwned /\ CallsOwned /\ VisitOwned

-------------------------------------------------------------------------------
\* A reservation is in a counter as a token or as one settlement, never as two
\* of them, and not before its saver has asked for it.
Exclusive ==
  \A s \in Scope, r \in Reservation :
    /\ r \in reservationTokens[s] =>
         \A o \in Outcome : <<r, o>> \notin settlementTokens[s]
    /\ <<r, "commit">> \in settlementTokens[s] => <<r, "cancel">> \notin settlementTokens[s]

NotAsked(r, s) ==
  \/ pc[r] \in {"idle", "global"}
  \/ pc[r] = "author" /\ s # Global

NotYetIn ==
  \A s \in Scope, r \in Reservation :
    NotAsked(r, s) => /\ r \notin reservationTokens[s]
                      /\ \A o \in Outcome : <<r, o>> \notin settlementTokens[s]

OutcomeInv == Control /\ Exclusive /\ NotYetIn

-------------------------------------------------------------------------------
\* While its saver is early nobody has begun to settle a reservation.
Untouched ==
  \A r \in Reservation : pc[r] \in Early =>
    /\ settled[r] = {}
    /\ phase[r] = "none"
    /\ state[r] \in {"absent", "preparing", "reserved"}
    /\ pc[r] # "idle" => state[r] # "absent"
    /\ page[r] \in {"absent", "preparing", "reserved"}
    /\ \A a \in Actor : call[a].step # "off" => call[a].r # r

Refused ==
  \A r \in Reservation, s \in Scope :
    \/ pc[r] \in {"idle", "global", "rejectGlobal"}
    \/ pc[r] \in {"author", "rejectAuthor"} /\ s # Global
    => r \notin reservationTokens[s]

\* Only the global counter and its author's hold a reservation's token.
TokenScopes ==
  \A s \in Scope : \A r \in reservationTokens[s] :
    doc[r] \in Doc /\ s \in {Global, AuthorScope(r)}

\* A flag is set after the token is gone, and the state after both flags.
FlagsAfterTokens == \A r \in Reservation : \A s \in settled[r] : r \notin reservationTokens[s]

CallsInOrder ==
  \A a \in Actor :
    /\ call[a].step = "flag" => call[a].r \notin reservationTokens[call[a].scope]
    /\ call[a].step = "state" => {Global, AuthorScope(call[a].r)} \subseteq settled[call[a].r]

TokensInv ==
  /\ Control /\ Untouched /\ Refused /\ TokenScopes
  /\ FlagsAfterTokens /\ CallsInOrder /\ ReservationTokensOwned
===============================================================================
