--------------------------- MODULE ManifestCounters ---------------------------
(***************************************************************************)
(* The capacity counters of the subsidized manifest pool: one global       *)
(* document and one per author (index manifestPoolUsage).  Every operator  *)
(* below is one updateDocumentsByFunction call: Meilisearch applies it     *)
(* atomically, so it is one step of whichever actor sends it.              *)
(*                                                                         *)
(* mutationVersion is only ever compared with the value a reconciliation   *)
(* read earlier, so `moved' keeps what the comparison can tell apart: the  *)
(* counters whose version has changed since that reading (all of them      *)
(* while no reconciliation is under way).                                  *)
(***************************************************************************)
EXTENDS Integers, FiniteSetsExt

CONSTANTS
  Global,        \* GLOBAL_KEY
  Author,        \* pubkeys, each with a counter of its own
  Reservation,   \* reservation keys (crypto.randomUUID)
  Deletion,      \* keys of deleteEventsWithAccounting operations
  Emergency      \* MANIFEST_POOL_LIMITS[..].emergency, per counter

Scope == {Global} \cup Author
Outcome == {"commit", "cancel"}

ASSUME EmergencyAssumption == Emergency \in [Scope -> Nat]
ASSUME GlobalAssumption == Global \notin Author

VARIABLES
  logicalBytes, manifestCount,
  reservationTokens, settlementTokens, accountingTokens, workflowTokens,
  moved

counterVars == << logicalBytes, manifestCount, reservationTokens,
                  settlementTokens, accountingTokens, workflowTokens, moved >>

AmountsOK ==
  /\ logicalBytes \in [Scope -> Nat]
  /\ manifestCount \in [Scope -> Nat]

TokensOK ==
  /\ reservationTokens \in [Scope -> SUBSET Reservation]
  /\ settlementTokens \in [Scope -> SUBSET (Reservation \X Outcome)]
  /\ accountingTokens \in [Scope -> SUBSET Deletion]
  /\ workflowTokens \in [Scope -> SUBSET Deletion]
  /\ moved \subseteq Scope

CountersInit(bytes, count) ==
  /\ logicalBytes = bytes
  /\ manifestCount = count
  /\ reservationTokens = [s \in Scope |-> {}]
  /\ settlementTokens = [s \in Scope |-> {}]
  /\ accountingTokens = [s \in Scope |-> {}]
  /\ workflowTokens = [s \in Scope |-> {}]
  /\ moved = Scope

AtLeastZero(n) == IF n < 0 THEN 0 ELSE n

\* Adds to both quantities of counter s, each clamped at zero.
Charge(s, bytes, count) ==
  /\ logicalBytes' = [logicalBytes EXCEPT ![s] = AtLeastZero(@ + bytes)]
  /\ manifestCount' = [manifestCount EXCEPT ![s] = AtLeastZero(@ + count)]
  /\ moved' = moved \cup {s}

\* Mutant: the limit is compared before the new bytes are added.
FitsBefore(s, bytes) == bytes <= 0 \/ logicalBytes[s] <= Emergency[s]

\* The admission test of reserveCounter.
Fits(s, bytes) == bytes <= 0 \/ logicalBytes[s] + bytes <= Emergency[s]

\* reserveCounter, when the token is admitted; a refusal changes nothing.
ReserveCounter(s, r, bytes, count) ==
  /\ Charge(s, bytes, count)
  /\ reservationTokens' = [reservationTokens EXCEPT ![s] = @ \cup {r}]
  /\ UNCHANGED << settlementTokens, accountingTokens, workflowTokens >>

\* Mutant: amounts move without a look at the reservation token.
SettleBlindly(s, r, outcome, reserved, actual) ==
  LET paid == IF outcome = "commit" THEN actual ELSE [bytes |-> 0, count |-> 0] IN
  IF <<r, outcome>> \notin settlementTokens[s]
  THEN /\ Charge(s, paid.bytes - reserved.bytes, paid.count - reserved.count)
       /\ reservationTokens' = [reservationTokens EXCEPT ![s] = @ \ {r}]
       /\ settlementTokens' = [settlementTokens EXCEPT ![s] = @ \cup {<<r, outcome>>}]
       /\ UNCHANGED << accountingTokens, workflowTokens >>
  ELSE UNCHANGED counterVars

\* settleCounterReservation: trades the reservation token for a settlement
\* token, once.
SettleCounter(s, r, outcome, reserved, actual) ==
  LET paid == IF outcome = "commit" THEN actual ELSE [bytes |-> 0, count |-> 0] IN
  IF <<r, outcome>> \notin settlementTokens[s] /\ r \in reservationTokens[s]
  THEN /\ Charge(s, paid.bytes - reserved.bytes, paid.count - reserved.count)
       /\ reservationTokens' = [reservationTokens EXCEPT ![s] = @ \ {r}]
       /\ settlementTokens' = [settlementTokens EXCEPT ![s] = @ \cup {<<r, outcome>>}]
       /\ UNCHANGED << accountingTokens, workflowTokens >>
  ELSE UNCHANGED counterVars

\* Its return value: a cancellation of a counter that never got the token is
\* complete already, a commit of one is an error.
Settles(s, r, outcome) ==
  \/ outcome = "cancel"
  \/ <<r, outcome>> \in settlementTokens[s]
  \/ r \in reservationTokens[s]

\* clearCounterToken(.., 'settlementTokens', ..)
ClearSettlement(s, r, outcome) ==
  /\ settlementTokens' = [settlementTokens EXCEPT ![s] = @ \ {<<r, outcome>>}]
  /\ UNCHANGED << logicalBytes, manifestCount, reservationTokens,
                  accountingTokens, workflowTokens, moved >>

\* clearCounterToken(.., 'accountingTokens', ..)
ClearAccounting(s, d) ==
  /\ accountingTokens' = [accountingTokens EXCEPT ![s] = @ \ {d}]
  /\ UNCHANGED << logicalBytes, manifestCount, reservationTokens,
                  settlementTokens, workflowTokens, moved >>

\* Mutant: the deletion is not announced.
BeginNothing(d) == UNCHANGED counterVars

BeginManifestMutation(d) ==
  /\ workflowTokens' = [workflowTokens EXCEPT ![Global] = @ \cup {d}]
  /\ moved' = IF d \in workflowTokens[Global] THEN moved ELSE moved \cup {Global}
  /\ UNCHANGED << logicalBytes, manifestCount, reservationTokens,
                  settlementTokens, accountingTokens >>

\* Mutant: the announcement is never withdrawn.
FinishNothing(d) == UNCHANGED counterVars

FinishManifestMutation(d) ==
  /\ workflowTokens' = [workflowTokens EXCEPT ![Global] = @ \ {d}]
  /\ moved' = IF d \in workflowTokens[Global] THEN moved \cup {Global} ELSE moved
  /\ UNCHANGED << logicalBytes, manifestCount, reservationTokens,
                  settlementTokens, accountingTokens >>

\* applyCounterAccountingOnce
AccountOnce(s, d, bytes, count) ==
  IF d \notin accountingTokens[s]
  THEN /\ Charge(s, -bytes, -count)
       /\ accountingTokens' = [accountingTokens EXCEPT ![s] = @ \cup {d}]
       /\ UNCHANGED << reservationTokens, settlementTokens, workflowTokens >>
  ELSE UNCHANGED counterVars

\* counterHasActiveMutation
Active(s) == reservationTokens[s] # {} \/ settlementTokens[s] # {} \/ workflowTokens[s] # {}

\* The condition under which applyReconciledCounter writes.
CanReconcile(s) == s \notin moved /\ ~Active(s)

ReconcileCounter(s, bytes, count) ==
  IF CanReconcile(s)
  THEN /\ logicalBytes' = [logicalBytes EXCEPT ![s] = bytes]
       /\ manifestCount' = [manifestCount EXCEPT ![s] = count]
       /\ accountingTokens' = [accountingTokens EXCEPT ![s] = {}]
       /\ settlementTokens' = [settlementTokens EXCEPT ![s] = {}]
       /\ moved' = moved \cup {s}
       /\ UNCHANGED << reservationTokens, workflowTokens >>
  ELSE UNCHANGED counterVars
===============================================================================
