--------------------------- MODULE IpcElectionProps ---------------------------
(***************************************************************************)
(* What the election of the leader must keep to.                           *)
(***************************************************************************)
EXTENDS IpcElection

ElectionTypeOK ==
  /\ lives \in [Proc -> {"down", "up", "closing", "unbound"}]
  /\ server \subseteq {p \in Proc : lives[p] \in {"up", "closing"}}
  /\ file \in Proc \cup {Nobody, Stale}
  /\ lock \in Proc \cup {Nobody, Stale} /\ old \in BOOLEAN
  /\ link \in [Proc -> Link]
  /\ timers \subseteq {p \in Proc : lives[p] # "down"}
  /\ rec \in [Proc -> Rec]
  /\ starts \in 0 .. MaxStarts /\ crashes \in 0 .. MaxCrashes
  /\ closes \in 0 .. MaxCloses /\ lapses \in 0 .. MaxLapses

Leads(p) == lives[p] = "up" /\ p \in server

\* However many processes start, find a socket that nobody serves and replace
\* it: as long as no path goes away under them (close, or the crash of one that
\* was replacing it) and no lock is stolen, one of them at most serves the
\* socket, although what the probe said is out of date when it is unlinked.
OneServer == closes = 0 /\ lapses = 0 => Cardinality(server) <= 1

\* A process that is out of touch has a way back: a dial that is under way, a
\* probe that ends in one, or the timer.
HasAWayBack ==
  \A p \in Proc : lives[p] = "up" /\ link[p].stage = "none" =>
    p \in timers \/ rec[p] \in {"alive", "bind"}

\* The election is safe at every moment: nobody has lost touch for good, and no
\* two serve.
ElectionInv == ElectionTypeOK /\ OneServer /\ HasAWayBack

\* Every process gets its connection back, whatever crashes, closes and stale
\* files it meets, and then somebody leads.  A server whose path was taken from
\* it is the exception: it binds nothing any more (see README).
Robbed(p) == p \in server /\ file # p
Reconnects ==
  \A p \in Proc : (lives[p] = "up") ~> (lives[p] # "up" \/ link[p].stage = "ready" \/ Robbed(p))
SomebodyLeads ==
  (\E p \in Proc : lives[p] = "up") ~>
    ((\E p \in Proc : Leads(p)) \/ \A p \in Proc : lives[p] # "up")
================================================================================
