------------------------------- MODULE IpcProofs -------------------------------
(***************************************************************************)
(* Between the processes of the relay: the election is safe for any number *)
(* of processes, starts, crashes, closes and lapses; and what becomes of a *)
(* broadcast and of the connection it needs, for any number of broadcasts  *)
(* and waiters, however often connections break.                           *)
(***************************************************************************)
EXTENDS IpcElectionProps, IpcDeliveryProps, FiniteSetTheorems, TLAPS

-------------------------------------------------------------------------------
(***************************************************************************)
(* The election                                                            *)
(***************************************************************************)
\* HasAWayBack says less than what a step needs: the timer is set whenever
\* there is no connection, whatever recoverStaleSocket is about to do; and
\* cleared when close() destroys the connections.
TimerSet ==
  \A p \in Proc : /\ lives[p] = "up" /\ link[p].stage = "none" => p \in timers
                  /\ lives[p] = "unbound" => p \notin timers

\* As long as nothing closes or lapses: the path names its server, a lock its
\* live owner, one is made out of a socket file left by a crash only, and the
\* path is free at the start and under that owner alone.
Calm == closes = 0 /\ lapses = 0
OneOwner ==
  Calm =>
    /\ ~ old /\ lock # Stale
    /\ \A p \in Proc :
         /\ lives[p] \in {"down", "up"}
         /\ rec[p] \in {"no", "alive", "dead", "bind"}
         /\ rec[p] # "no" <=> lock = p
         /\ rec[p] = "dead" => file = Stale
         /\ rec[p] # "no" => lives[p] = "up"
         /\ p \in server => file = p
         /\ file = p => p \in server
    /\ file = Nobody => \A p \in Proc : lives[p] = "up" => \E q \in Proc : rec[q] = "bind"

\* A process between two calls on files others use does nothing else, close
\* included.
BusyIsUp == \A p \in Proc : Busy(p) => lives[p] = "up"

ElectionIndInv == ElectionTypeOK /\ TimerSet /\ BusyIsUp /\ OneOwner

\* What a connection record may look like.
LEMMA LinkType ==
  /\ Unlinked \in Link /\ Unlinked.stage = "none" /\ Unlinked.to = Nobody
  /\ \A l \in Link : /\ [l EXCEPT !.stage = "dial"] \in Link
                     /\ [l EXCEPT !.stage = "dial"].stage = "dial"
                     /\ [l EXCEPT !.stage = "ready"] \in Link
                     /\ [l EXCEPT !.stage = "ready"].stage = "ready"
BY DEF Link, Unlinked, Nobody

\* At the start all processes are down.
LEMMA ElectionBegins == ElectionInit => ElectionIndInv
<1> SUFFICES ASSUME ElectionInit PROVE ElectionIndInv
  OBVIOUS
<1>1. ElectionTypeOK
  <2>1. link \in [Proc -> Link]
    BY LinkType DEF ElectionInit
  <2>2. rec \in [Proc -> Rec] /\ lives \in [Proc -> {"down", "up", "closing", "unbound"}]
    BY DEF ElectionInit, Rec
  <2>3. /\ starts \in 0 .. MaxStarts /\ crashes \in 0 .. MaxCrashes
        /\ closes \in 0 .. MaxCloses /\ lapses \in 0 .. MaxLapses
    BY ElectionAssumption DEF ElectionInit
  <2> QED
    BY <2>1, <2>2, <2>3 DEF ElectionInit, ElectionTypeOK
<1>2. TimerSet /\ BusyIsUp
  BY DEF ElectionInit, TimerSet, BusyIsUp, Busy
<1>3. OneOwner
  BY ElectionAssumption DEF ElectionInit, OneOwner, Nobody, Stale
<1> QED
  BY <1>1, <1>2, <1>3 DEF ElectionIndInv

\* Dialing changes the process's own connection, to one under way.
LEMMA Dials ==
  ASSUME ElectionTypeOK, NEW p \in Proc
  PROVE  /\ Dialing(p) \in [Proc -> Link] /\ Dialing(p)[p].stage # "none"
         /\ \A q \in Proc : q # p => Dialing(p)[q] = link[q]
BY LinkType DEF ElectionTypeOK, Dialing

\* Binding: only a free path, and then its binder dials.
Binds(p) == file = Nobody /\ file' = p /\ server' = server \cup {p}
LEMMA Creates ==
  ASSUME ElectionTypeOK, NEW p \in Proc, CreateServer(p)
  PROVE  /\ link' \in [Proc -> Link]
         /\ \A q \in Proc : q # p => link'[q] = link[q]
         /\ link' = link \/ link'[p].stage # "none"
         /\ p \notin server => link'[p].stage # "none"
         /\ Binds(p) \/ UNCHANGED << server, file >>
         /\ p \in server \/ Binds(p) \/ file # Nobody
BY Dials DEF CreateServer, Binds, ElectionTypeOK

LEMMA Attempts ==
  ASSUME ElectionTypeOK, NEW p \in Proc, EnsureAttempt(p)
  PROVE  /\ link' \in [Proc -> Link] /\ link'[p].stage # "none"
         /\ \A q \in Proc : q # p => link'[q] = link[q]
         /\ Binds(p) \/ UNCHANGED << server, file >>
<1>1. CASE link[p].stage # "none" \/ p \in server \/ file # Nobody
  BY <1>1, Dials DEF EnsureAttempt, ElectionTypeOK
<1>2. CASE ~ (link[p].stage # "none" \/ p \in server \/ file # Nobody)
  BY <1>2, Creates DEF EnsureAttempt
<1> QED
  BY <1>1, <1>2

\* A bind in a calm election: the path was free, so nobody else served.
LEMMA BindKeeps ==
  ASSUME ElectionIndInv, NEW p \in Proc, lives' = [lives EXCEPT ![p] = "up"],
         Binds(p) \/ UNCHANGED << server, file >>, UNCHANGED << lock, old, rec, closes, lapses >>,
         lives[p] = "down" => Binds(p) \/ file # Nobody
  PROVE  OneOwner'
BY ElectionAssumption DEF ElectionIndInv, OneOwner, Calm, ElectionTypeOK, Binds, Nobody, Stale

\* The events of a connection.
LEMMA ElectionEvents ==
  ASSUME ElectionIndInv, NEW p \in Proc, Events(p) \/ TimerFires(p) \/ Ask(p)
  PROVE  ElectionIndInv'
<1> USE DEF budget
<1>1. CASE TimerFires(p) \/ Ask(p)
  <2>1. /\ link' \in [Proc -> Link] /\ link'[p].stage # "none"
        /\ \A q \in Proc : q # p => link'[q] = link[q]
        /\ Binds(p) \/ UNCHANGED << server, file >>
    BY <1>1, Attempts DEF TimerFires, Ask, ElectionIndInv
  <2>2. /\ UNCHANGED << lives, lock, old, rec, starts, crashes, closes, lapses >>
        /\ timers' \in {timers, timers \ {p}} /\ lives[p] = "up"
    BY <1>1 DEF TimerFires, Ask, Up
  <2>3. ElectionTypeOK'
    BY <2>1, <2>2 DEF ElectionIndInv, ElectionTypeOK, Binds
  <2>4. TimerSet' /\ BusyIsUp'
    BY <2>1, <2>2 DEF ElectionIndInv, ElectionTypeOK, TimerSet, BusyIsUp, Busy
  <2>5. OneOwner'
    BY <2>1, <2>2, BindKeeps DEF ElectionIndInv, ElectionTypeOK
  <2> QED
    BY <2>3, <2>4, <2>5 DEF ElectionIndInv
<1>2. CASE Connected(p) \/ Ready(p) \/ Disconnected(p)
  <2>1. link' \in [Proc -> Link]
    BY <1>2, LinkType DEF Connected, Ready, Disconnected, Live, ElectionIndInv, ElectionTypeOK, Link
  <2>2. ElectionTypeOK'
    BY <1>2, <2>1 DEF Connected, Ready, Disconnected, Up, ElectionIndInv, ElectionTypeOK
  <2>3. TimerSet'
    <3>1. CASE Connected(p)
      BY <3>1 DEF Connected, ElectionIndInv, ElectionTypeOK, TimerSet
    <3>2. CASE Ready(p)
      <4>1. link'[p].stage = "ready" /\ \A q \in Proc : q # p => link'[q] = link[q]
        BY <3>2, LinkType DEF Ready, ElectionIndInv, ElectionTypeOK
      <4> QED
        BY <3>2, <4>1 DEF Ready, ElectionIndInv, TimerSet
    <3>3. CASE Disconnected(p)
      BY <3>3 DEF Disconnected, Up, ElectionIndInv, ElectionTypeOK, TimerSet
    <3> QED
      BY <1>2, <3>1, <3>2, <3>3
  <2>4. OneOwner' /\ BusyIsUp'
    BY <1>2 DEF Connected, Ready, Disconnected, ElectionIndInv, OneOwner, Calm, BusyIsUp, Busy
  <2> QED
    BY <2>2, <2>3, <2>4 DEF ElectionIndInv
<1>3. CASE DialRefused(p)
  <2>1. /\ UNCHANGED << lives, server, file, starts, crashes, closes, lapses >>
        /\ link' = [link EXCEPT ![p] = Unlinked] /\ timers' = timers \cup {p}
        /\ Up(p) /\ link[p].stage = "dial" /\ file \notin server
    BY <1>3 DEF DialRefused, Live
  <2>2. \/ /\ rec[p] = "no"
           /\ \/ lock = Nobody /\ lock' = p /\ old' = FALSE /\ rec' = [rec EXCEPT ![p] = "dead"]
              \/ old /\ rec' = [rec EXCEPT ![p] = "steal"] /\ UNCHANGED << lock, old >>
        \/ UNCHANGED << lock, old, rec >>
    BY <1>3, <2>1 DEF DialRefused, Acquire, Probing, Probe, Live
  <2>3. ElectionTypeOK'
    BY <2>1, <2>2, LinkType DEF ElectionIndInv, ElectionTypeOK, Up, Rec
  <2>4. TimerSet' /\ BusyIsUp'
    BY <2>1, <2>2 DEF ElectionIndInv, ElectionTypeOK, TimerSet, BusyIsUp, Busy, Up
  <2>5. OneOwner'
    BY <2>1, <2>2, ElectionAssumption DEF ElectionIndInv, ElectionTypeOK, OneOwner, Calm, Up, Nobody, Stale
  <2> QED
    BY <2>3, <2>4, <2>5 DEF ElectionIndInv
<1> QED
  BY <1>1, <1>2, <1>3 DEF Events

\* The steps of recoverStaleSocket.
LEMMA ElectionRecovery ==
  ASSUME ElectionIndInv, NEW p \in Proc, Recovery(p)
  PROVE  ElectionIndInv'
<1> USE DEF budget
<1>1. CASE Steal(p) \/ Reopen(p)
  <2>1. /\ UNCHANGED << lives, server, file, link, timers, starts, crashes, closes, lapses >>
        /\ rec[p] \in {"steal", "reopen"}
    BY <1>1 DEF Steal, Reopen
  <2>2. ElectionTypeOK'
    BY <1>1, <2>1
      DEF Steal, Reopen, Probing, Probe, ElectionIndInv, ElectionTypeOK, Rec
  <2>3. TimerSet' /\ BusyIsUp'
    BY <1>1, <2>1
      DEF Steal, Reopen, Probing, Probe, ElectionIndInv, ElectionTypeOK, TimerSet, BusyIsUp, Busy
  <2>4. OneOwner'
    BY <2>1 DEF ElectionIndInv, OneOwner, Calm
  <2> QED
    BY <2>2, <2>3, <2>4 DEF ElectionIndInv
<1>2. CASE ProbeAlive(p)
  <2>1. /\ UNCHANGED << lives, server, file, timers, starts, crashes, closes, lapses >>
        /\ rec[p] = "alive" /\ rec' = [rec EXCEPT ![p] = "no"] /\ lock' = Nobody /\ old' = FALSE
    BY <1>2 DEF ProbeAlive, ReleaseLock
  <2>2. /\ link' \in [Proc -> Link] /\ \A q \in Proc : q # p => link'[q] = link[q]
        /\ lives[p] = "up" => link'[p].stage # "none"
    BY <1>2, Dials DEF ProbeAlive, ElectionIndInv, ElectionTypeOK
  <2>3. ElectionTypeOK'
    BY <2>1, <2>2 DEF ElectionIndInv, ElectionTypeOK, Rec
  <2>4. TimerSet' /\ BusyIsUp'
    BY <2>1, <2>2 DEF ElectionIndInv, ElectionTypeOK, TimerSet, BusyIsUp, Busy
  <2>5. OneOwner'
    BY <2>1, ElectionAssumption DEF ElectionIndInv, ElectionTypeOK, OneOwner, Calm, Nobody, Stale
  <2> QED
    BY <2>3, <2>4, <2>5 DEF ElectionIndInv
<1>3. CASE ProbeDead(p)
  <2>1. /\ UNCHANGED << lives, server, lock, old, link, timers, starts, crashes, closes >>
        /\ lives[p] = "up" /\ file' = Nobody /\ rec' = [rec EXCEPT ![p] = "bind"]
        /\ \/ rec[p] = "dead" /\ lapses' = lapses
           \/ rec[p] = "alive" /\ lapses < MaxLapses /\ lapses' = lapses + 1
    BY <1>3 DEF ProbeDead, Lapse
  <2>2. ElectionTypeOK'
    BY <2>1, ElectionAssumption DEF ElectionIndInv, ElectionTypeOK, Rec
  <2>3. TimerSet' /\ BusyIsUp'
    BY <2>1 DEF ElectionIndInv, ElectionTypeOK, TimerSet, BusyIsUp, Busy
  <2>4. OneOwner'
    BY <2>1, ElectionAssumption DEF ElectionIndInv, ElectionTypeOK, OneOwner, Calm, Nobody, Stale
  <2> QED
    BY <2>2, <2>3, <2>4 DEF ElectionIndInv
<1>4. CASE RecoveryEnds(p)
  <2>1. /\ UNCHANGED << lives, timers, starts, crashes, closes, lapses >>
        /\ rec' = [rec EXCEPT ![p] = "no"] /\ lock' = Nobody /\ old' = FALSE
    BY <1>4 DEF RecoveryEnds, ReleaseLock
  <2>2. /\ link' \in [Proc -> Link] /\ \A q \in Proc : q # p => link'[q] = link[q]
        /\ link' = link \/ link'[p].stage # "none"
        /\ Binds(p) \/ UNCHANGED << server, file >>
        /\ \/ rec[p] = "bind" /\ (p \in server \/ Binds(p) \/ file # Nobody)
           \/ rec[p] = "dead" /\ lives[p] \in {"closing", "unbound"} /\ UNCHANGED << server, file >>
    BY <1>4, Creates DEF RecoveryEnds, ElectionIndInv, ElectionTypeOK
  <2>3. ElectionTypeOK'
    <3>1. Binds(p) => server' = server \/ lives[p] = "up"
      BY <2>2 DEF Binds, ElectionIndInv, BusyIsUp, Busy
    <3> QED
      BY <2>1, <2>2, <3>1 DEF ElectionIndInv, ElectionTypeOK, Rec, Binds
  <2>4. TimerSet' /\ BusyIsUp'
    BY <2>1, <2>2 DEF ElectionIndInv, ElectionTypeOK, TimerSet, BusyIsUp, Busy
  <2>5. OneOwner'
    BY <2>1, <2>2, ElectionAssumption
      DEF ElectionIndInv, ElectionTypeOK, OneOwner, Calm, Binds, Nobody, Stale
  <2> QED
    BY <2>3, <2>4, <2>5 DEF ElectionIndInv
<1> QED
  BY <1>1, <1>2, <1>3, <1>4 DEF Recovery

\* Starts and what needs a budget.
LEMMA ElectionStart ==
  ASSUME ElectionIndInv, NEW p \in Proc, Start(p)
  PROVE  ElectionIndInv'
<1>1. /\ UNCHANGED << lock, old, timers, rec, crashes, closes, lapses >>
      /\ lives[p] = "down" /\ lives' = [lives EXCEPT ![p] = "up"]
      /\ starts < MaxStarts /\ starts' = starts + 1
      /\ p \notin server
  BY DEF Start, ElectionIndInv, ElectionTypeOK
<1>2. /\ link' \in [Proc -> Link] /\ link'[p].stage # "none"
      /\ \A q \in Proc : q # p => link'[q] = link[q]
      /\ Binds(p) \/ UNCHANGED << server, file >>
      /\ Binds(p) \/ file # Nobody
  BY <1>1, Creates DEF Start, ElectionIndInv
<1>3. ElectionTypeOK'
  <2>1. /\ lives' \in [Proc -> {"down", "up", "closing", "unbound"}]
        /\ \A q \in Proc : lives'[q] = lives[q] \/ lives'[q] = "up"
    BY <1>1 DEF ElectionIndInv, ElectionTypeOK
  <2>2. server' \subseteq {q \in Proc : lives'[q] \in {"up", "closing"}}
    BY <1>1, <1>2, <2>1 DEF ElectionIndInv, ElectionTypeOK, Binds
  <2>3. timers' \subseteq {q \in Proc : lives'[q] # "down"}
    BY <1>1, <2>1 DEF ElectionIndInv, ElectionTypeOK
  <2>4. starts' \in 0 .. MaxStarts
    BY <1>1, ElectionAssumption DEF ElectionIndInv, ElectionTypeOK
  <2> QED
    BY <1>1, <1>2, <2>1, <2>2, <2>3, <2>4 DEF ElectionIndInv, ElectionTypeOK, Binds
<1>4. TimerSet' /\ BusyIsUp'
  BY <1>1, <1>2 DEF ElectionIndInv, ElectionTypeOK, TimerSet, BusyIsUp, Busy
<1>5. OneOwner'
  BY <1>1, <1>2, BindKeeps
<1> QED
  BY <1>3, <1>4, <1>5 DEF ElectionIndInv

LEMMA ElectionLapse ==
  ASSUME ElectionIndInv, LockAges \/ \E p \in Proc : ListenFails(p)
  PROVE  ElectionIndInv'
<1>1. /\ UNCHANGED << lives, server, file, lock, link, timers, rec, starts, crashes, closes >>
      /\ old' \in BOOLEAN
      /\ \/ lapses < MaxLapses /\ lapses' = lapses + 1
         \/ lock = Stale /\ lapses' = lapses
  BY DEF LockAges, ListenFails, Lapse, ElectionIndInv, ElectionTypeOK
<1>2. ElectionTypeOK'
  BY <1>1, ElectionAssumption DEF ElectionIndInv, ElectionTypeOK
<1>3. TimerSet' /\ BusyIsUp'
  BY <1>1 DEF ElectionIndInv, TimerSet, BusyIsUp, Busy
<1>4. OneOwner'
  BY <1>1 DEF ElectionIndInv, OneOwner, Calm, ElectionTypeOK
<1> QED
  BY <1>2, <1>3, <1>4 DEF ElectionIndInv

\* Who loses a connection is told: the others see theirs cut.
LEMMA Cuts ==
  ASSUME ElectionTypeOK, NEW p \in Proc
  PROVE  /\ Cut({p}) \in [Proc -> Link]
         /\ \A q \in Proc : q # p => Cut({p})[q] = link[q] \/ Cut({p})[q].stage = "cut"
BY LinkType DEF ElectionTypeOK, Cut, Link, Nobody

\* The end of a process, orderly or not.
LEMMA ElectionEnding ==
  ASSUME ElectionIndInv, NEW p \in Proc, CloseProcess(p) \/ Ending(p) \/ Crash(p)
  PROVE  ElectionIndInv'
<1> USE DEF budget
<1>1. CASE CloseProcess(p)
  <2>1. /\ UNCHANGED << server, file, lock, old, link, timers, rec, starts, crashes, lapses >>
        /\ Up(p) /\ closes < MaxCloses /\ closes' = closes + 1
        /\ lives' = [lives EXCEPT ![p] = "closing"]
    BY <1>1 DEF CloseProcess
  <2>2. ElectionTypeOK'
    BY <2>1, ElectionAssumption DEF ElectionIndInv, ElectionTypeOK, Up
  <2>3. TimerSet' /\ BusyIsUp'
    BY <2>1 DEF ElectionIndInv, ElectionTypeOK, TimerSet, BusyIsUp, Busy, Up
  <2>4. OneOwner'
    BY <2>1, ElectionAssumption DEF ElectionIndInv, ElectionTypeOK, OneOwner, Calm
  <2> QED
    BY <2>2, <2>3, <2>4 DEF ElectionIndInv
<1>2. CASE Unbind(p)
  <2>1. /\ UNCHANGED << starts, crashes, closes, lapses >>
        /\ lives[p] = "closing" /\ ~ Busy(p) /\ old' = old
        /\ timers' = timers \ {p} /\ link' = Cut({p}) /\ server' = server \ {p}
        /\ file' \in {file, Nobody} /\ lock' \in {lock, Stale}
        /\ rec' \in {rec, [rec EXCEPT ![p] = "no"]}
        /\ lives' \in {[lives EXCEPT ![p] = "unbound"], [lives EXCEPT ![p] = "down"]}
    BY <1>2 DEF Unbind, Abandon
  <2>2. ElectionTypeOK'
    BY <2>1, Cuts DEF ElectionIndInv, ElectionTypeOK, Rec
  <2>3. TimerSet' /\ BusyIsUp'
    BY <2>1, Cuts DEF ElectionIndInv, ElectionTypeOK, TimerSet, BusyIsUp, Busy
  <2>4. OneOwner'
    BY <2>1 DEF ElectionIndInv, OneOwner, Calm
  <2> QED
    BY <2>2, <2>3, <2>4 DEF ElectionIndInv
<1>3. CASE UnlinkAgain(p)
  <2>1. /\ UNCHANGED << server, link, timers, old, starts, crashes, closes, lapses >>
        /\ lives[p] = "unbound" /\ lives' = [lives EXCEPT ![p] = "down"]
        /\ file' = Nobody /\ lock' \in {lock, Stale} /\ rec' = [rec EXCEPT ![p] = "no"]
    BY <1>3 DEF UnlinkAgain, Abandon
  <2>2. ElectionTypeOK'
    BY <2>1 DEF ElectionIndInv, ElectionTypeOK, TimerSet, Rec
  <2>3. TimerSet' /\ BusyIsUp'
    BY <2>1 DEF ElectionIndInv, ElectionTypeOK, TimerSet, BusyIsUp, Busy
  <2>4. OneOwner'
    BY <2>1 DEF ElectionIndInv, OneOwner, Calm
  <2> QED
    BY <2>2, <2>3, <2>4 DEF ElectionIndInv
<1>4. CASE Crash(p)
  <2>1. /\ UNCHANGED << old, starts, closes >>
        /\ lives[p] # "down" /\ lives' = [lives EXCEPT ![p] = "down"]
        /\ crashes < MaxCrashes /\ crashes' = crashes + 1
        /\ rec' = [rec EXCEPT ![p] = "no"] /\ lock' = (IF lock = p THEN Stale ELSE lock)
        /\ timers' = timers \ {p} /\ link' = Cut({p}) /\ server' = server \ {p}
        /\ file' = (IF file = p THEN Stale ELSE file)
        /\ \/ rec[p] = "no" /\ lapses' = lapses
           \/ lapses < MaxLapses /\ lapses' = lapses + 1
    BY <1>4 DEF Crash, Abandon, Lapse
  <2>2. ElectionTypeOK'
    <3>1. /\ lives' \in [Proc -> {"down", "up", "closing", "unbound"}]
          /\ \A q \in Proc : q # p => lives'[q] = lives[q]
      BY <2>1 DEF ElectionIndInv, ElectionTypeOK
    <3>2. server' \subseteq {q \in Proc : lives'[q] \in {"up", "closing"}}
      BY <2>1, <3>1 DEF ElectionIndInv, ElectionTypeOK
    <3>3. timers' \subseteq {q \in Proc : lives'[q] # "down"}
      BY <2>1, <3>1 DEF ElectionIndInv, ElectionTypeOK
    <3>4. crashes' \in 0 .. MaxCrashes /\ lapses' \in 0 .. MaxLapses
      BY <2>1, ElectionAssumption DEF ElectionIndInv, ElectionTypeOK
    <3>5. link' \in [Proc -> Link] /\ rec' \in [Proc -> Rec]
      BY <2>1, Cuts DEF ElectionIndInv, ElectionTypeOK, Rec
    <3> QED
      BY <2>1, <3>1, <3>2, <3>3, <3>4, <3>5 DEF ElectionIndInv, ElectionTypeOK
  <2>3. TimerSet' /\ BusyIsUp'
    BY <2>1, Cuts DEF ElectionIndInv, ElectionTypeOK, TimerSet, BusyIsUp, Busy
  <2>4. OneOwner'
    BY <2>1, ElectionAssumption DEF ElectionIndInv, ElectionTypeOK, OneOwner, Calm, Nobody, Stale
  <2> QED
    BY <2>2, <2>3, <2>4 DEF ElectionIndInv
<1> QED
  BY <1>1, <1>2, <1>3, <1>4 DEF Ending

LEMMA ElectionStep == ElectionIndInv /\ [ElectionNext]_electionVars => ElectionIndInv'
<1> SUFFICES ASSUME ElectionIndInv, [ElectionNext]_electionVars PROVE ElectionIndInv'
  OBVIOUS
<1>1. CASE UNCHANGED electionVars
  BY <1>1 DEF electionVars, budget, ElectionIndInv, ElectionTypeOK, TimerSet, BusyIsUp, Busy, OneOwner, Calm
<1>2. CASE ElectionNext
  BY <1>2, ElectionEvents, ElectionRecovery, ElectionStart, ElectionLapse, ElectionEnding DEF ElectionNext
<1> QED
  BY <1>1, <1>2

\* One server at most: each of them is what the path names.
LEMMA ElectionImplies == ElectionIndInv => ElectionInv
<1> SUFFICES ASSUME ElectionIndInv PROVE ElectionInv
  OBVIOUS
<1>1. HasAWayBack
  BY DEF ElectionIndInv, TimerSet, HasAWayBack
<1>2. OneServer
  <2>1. SUFFICES ASSUME Calm PROVE Cardinality(server) <= 1
    BY DEF OneServer, Calm
  <2>2. server \subseteq {file}
    BY <2>1 DEF ElectionIndInv, OneOwner, ElectionTypeOK
  <2>3. CASE server = {}
    BY <2>3, FS_EmptySet
  <2>4. CASE server # {}
    <3>1. server = {file}
      BY <2>2, <2>4
    <3> QED
      BY <3>1, FS_Singleton
  <2> QED
    BY <2>3, <2>4
<1> QED
  BY <1>1, <1>2 DEF ElectionIndInv, ElectionInv

\* However many processes start, crash, close and steal locks: nobody loses its
\* way back to the socket, and, while nothing closes or lapses, one process at
\* most serves it (cross-process-broadcaster.js).
THEOREM ElectionSafe == ElectionSpec => []ElectionInv
<1> QED
  BY ElectionBegins, ElectionStep, ElectionImplies, PTL DEF ElectionSpec

-------------------------------------------------------------------------------
(***************************************************************************)
(* Folds over a sequence.  The provers cannot unfold one for every length: *)
(* the function it recurses through is shown to exist, for every subset of *)
(* the positions, and then facts about it are shown from a least           *)
(* counterexample.                                                         *)
(***************************************************************************)
LEMMA SubsetInduction ==
  ASSUME NEW S, IsFiniteSet(S), NEW B,
         \A T \in SUBSET S : (\A U \in SUBSET S : U \subseteq T /\ U # T => U \in B) => T \in B
  PROVE  S \in B
<1> DEFINE M == {T \in SUBSET S : T \notin B}
           R == StrictSubsetOrdering(S)
<1> SUFFICES ASSUME S \notin B PROVE FALSE
  OBVIOUS
<1>1. IsWellFoundedOn(R, SUBSET S)
  <2>1. FiniteSubsetsOf(S) = SUBSET S
    BY FS_FiniteSubsetsOfFinite
  <2>2. IsWellFoundedOn(StrictSubsetOrdering(S), FiniteSubsetsOf(S))
    BY FS_StrictSubsetOrderingWellFounded
  <2> QED
    BY <2>1, <2>2
<1>2. PICK T \in M : \A U \in M : << U, T >> \notin R
  <2>1. M \subseteq SUBSET S /\ S \in M
    OBVIOUS
  <2> HIDE DEF M, R
  <2> QED
    BY <1>1, <2>1, WFMin
<1>3. \A U \in SUBSET S : U \subseteq T /\ U # T => U \in B
  BY <1>2 DEF StrictSubsetOrdering
<1> QED
  BY <1>2, <1>3

\* A finite set of numbers has a largest member.
LEMMA Largest ==
  ASSUME NEW n \in Nat, NEW T \in SUBSET (1 .. n), T # {}
  PROVE  Max(T) \in T /\ T \ {Max(T)} \subseteq T /\ T \ {Max(T)} # T
<1> DEFINE B == {U \in SUBSET T : U # {} => \E m \in U : \A y \in U : m >= y}
<1>1. IsFiniteSet(T)
  <2>1. IsFiniteSet(1 .. n)
    BY FS_Interval
  <2> QED
    BY <2>1, FS_Subset
<1>2. ASSUME NEW U \in SUBSET T, \A W \in SUBSET T : W \subseteq U /\ W # U => W \in B
      PROVE  U \in B
  <2> SUFFICES ASSUME NEW x \in U PROVE \E m \in U : \A y \in U : m >= y
    OBVIOUS
  <2>1. U \ {x} \in B
    BY <1>2
  <2>2. CASE U \ {x} = {}
    BY <2>2
  <2>3. CASE U \ {x} # {}
    <3>1. PICK m \in U \ {x} : \A y \in U \ {x} : m >= y
      BY <2>1, <2>3
    <3>2. CASE m >= x
      BY <3>1, <3>2
    <3>3. CASE ~ (m >= x)
      <4>1. \A y \in U : x >= y
        BY <3>1, <3>3
      <4> QED
        BY <4>1
    <3> QED
      BY <3>2, <3>3
  <2> QED
    BY <2>2, <2>3
<1> HIDE DEF B
<1>3. T \in B
  BY <1>1, <1>2, SubsetInduction
<1> QED
  BY <1>3 DEF B, Max

\* What a fold recurses through, for a step that is a function.
Recursion(g, n, b, step) ==
  \A s \in SUBSET (1 .. n) : g[s] = IF s = {} THEN b ELSE step[g[s \ {Max(s)}], Max(s)]

LEMMA RecursionExists ==
  ASSUME NEW n \in Nat, NEW V, NEW b \in V, NEW step \in [V \X (1 .. n) -> V]
  PROVE  \E g \in [SUBSET (1 .. n) -> V] : Recursion(g, n, b, step)
<1> DEFINE D == SUBSET (1 .. n)
           Value(g, s) == IF s = {} THEN b ELSE step[g[s \ {Max(s)}], Max(s)]
           UpTo(g, k) == \A s \in D : Cardinality(s) <= k => g[s] = Value(g, s)
           B == {T \in D : \E g \in [D -> V] : UpTo(g, Cardinality(T))}
<1>1. IsFiniteSet(1 .. n) /\ Cardinality(1 .. n) = n
  BY FS_Interval
<1>2. ASSUME NEW s \in D PROVE IsFiniteSet(s) /\ Cardinality(s) \in Nat /\ Cardinality(s) <= n
  <2>1. IsFiniteSet(s) /\ Cardinality(s) <= Cardinality(1 .. n)
    BY <1>1, FS_Subset
  <2> QED
    BY <1>1, <2>1, FS_CardinalityType
<1>3. ASSUME NEW s \in D, s # {}
      PROVE  /\ Max(s) \in s /\ Max(s) \in 1 .. n /\ s \ {Max(s)} \in D
             /\ Cardinality(s \ {Max(s)}) = Cardinality(s) - 1
             /\ s \ {Max(s)} \subseteq s /\ s \ {Max(s)} # s
  <2>1. Max(s) \in s /\ IsFiniteSet(s)
    BY <1>2, <1>3, Largest
  <2> DEFINE m == Max(s)
  <2> HIDE DEF m
  <2>2. m \in s => Cardinality(s \ {m}) = Cardinality(s) - 1
    BY <2>1, FS_RemoveElement
  <2> QED
    BY <2>1, <2>2 DEF m
<1>4. \A g \in [D -> V], s \in D : Value(g, s) \in V
  <2> SUFFICES ASSUME NEW g \in [D -> V], NEW s \in D, s # {} PROVE step[g[s \ {Max(s)}], Max(s)] \in V
    OBVIOUS
  <2> DEFINE t == s \ {Max(s)}
             m == Max(s)
  <2>1. t \in D /\ m \in 1 .. n
    BY <1>3
  <2> HIDE DEF t, m
  <2>2. step[g[t], m] \in V
    BY <2>1
  <2> QED
    BY <2>2 DEF t, m
<1>5. \E g \in [D -> V] : UpTo(g, 0)
  <2> DEFINE g == [s \in D |-> b]
  <2>1. ASSUME NEW s \in D, Cardinality(s) <= 0 PROVE s = {}
    BY <1>2, <2>1, FS_EmptySet
  <2>2. UpTo(g, 0)
    BY <2>1
  <2>3. g \in [D -> V]
    OBVIOUS
  <2> QED
    BY <2>2, <2>3
<1>6. ASSUME NEW g \in [D -> V], NEW k \in Nat, UpTo(g, k)
      PROVE  \E h \in [D -> V] : UpTo(h, k + 1)
  <2> DEFINE h == [s \in D |-> Value(g, s)]
  <2>1. h \in [D -> V]
    BY <1>4
  <2>2. \A s \in D : Cardinality(s) <= k => h[s] = g[s]
    BY <1>6
  <2>3. ASSUME NEW s \in D, Cardinality(s) <= k + 1 PROVE h[s] = Value(h, s)
    <3>1. CASE s = {}
      BY <3>1
    <3>2. CASE s # {}
      <4> DEFINE t == s \ {Max(s)}
      <4>1. t \in D /\ Cardinality(t) = Cardinality(s) - 1 /\ Cardinality(s) \in Nat
        BY <1>2, <1>3, <3>2
      <4>2. h[s] = step[g[t], Max(s)]
        BY <3>2
      <4> HIDE DEF h, t
      <4>3. h[t] = g[t]
        BY <2>2, <2>3, <4>1
      <4> QED
        BY <3>2, <4>2, <4>3 DEF t
    <3> QED
      BY <3>1, <3>2
  <2> HIDE DEF h
  <2> QED
    BY <2>1, <2>3
<1> HIDE DEF UpTo
<1>7. ASSUME NEW T \in D, \A U \in D : U \subseteq T /\ U # T => U \in B PROVE T \in B
  <2>1. CASE T = {}
    <3>1. Cardinality(T) = 0
      BY <2>1, FS_EmptySet
    <3> QED
      BY <1>5, <3>1
  <2>2. CASE T # {}
    <3> DEFINE U == T \ {Max(T)}
    <3>1. U \in D /\ U \subseteq T /\ U # T /\ Cardinality(U) = Cardinality(T) - 1
      BY <1>3, <2>2
    <3>2. Cardinality(T) \in Nat /\ Cardinality(U) \in Nat
      BY <1>2, <3>1
    <3> HIDE DEF U
    <3>3. PICK g \in [D -> V] : UpTo(g, Cardinality(U))
      BY <1>7, <3>1
    <3>4. Cardinality(T) = Cardinality(U) + 1
      BY <3>1, <3>2
    <3>5. \E h \in [D -> V] : UpTo(h, Cardinality(U) + 1)
      BY <1>6, <3>2, <3>3
    <3>6. \E h \in [D -> V] : UpTo(h, Cardinality(T))
      BY <3>4, <3>5
    <3> QED
      BY <3>6
  <2> QED
    BY <2>1, <2>2
<1>8. 1 .. n \in B
  <2>1. \A T \in SUBSET (1 .. n) :
          (\A U \in SUBSET (1 .. n) : U \subseteq T /\ U # T => U \in B) => T \in B
    BY <1>7
  <2> DEFINE S == 1 .. n
  <2>2. IsFiniteSet(S) /\ \A T \in SUBSET S : (\A U \in SUBSET S : U \subseteq T /\ U # T => U \in B) => T \in B
    BY <1>1, <2>1
  <2> HIDE DEF B, S
  <2>3. S \in B
    BY <2>2, SubsetInduction
  <2> QED
    BY <2>3 DEF S
<1>9. PICK g \in [D -> V] : UpTo(g, n)
  BY <1>1, <1>8
<1> QED
  BY <1>2, <1>9 DEF UpTo, Recursion

LEMMA RequeueFolds ==
  ASSUME NEW q \in Seq(Item), NEW items \in Seq(Item)
  PROVE  \E g : /\ FoldLeft(Requeued, q, items) = g[1 .. Len(items)] /\ g[{}] = q
                /\ \A s \in SUBSET (1 .. Len(items)) : s # {} =>
                     g[s] = Requeued(g[s \ {Max(s)}], items[Max(s)])
<1> DEFINE n == Len(items)
           D == SUBSET DOMAIN items
           step == [x \in Seq(Item) \X (1 .. n) |-> Requeued(x[1], items[x[2]])]
           E(g) == g = [s \in D |-> IF s = {} THEN q ELSE Requeued(g[s \ {Max(s)}], items[Max(s)])]
           fold == CHOOSE g : E(g)
<1>1. n \in Nat /\ DOMAIN items = 1 .. n
  OBVIOUS
<1>2. step \in [Seq(Item) \X (1 .. n) -> Seq(Item)]
  <2>1. \A i \in 1 .. n : items[i] \in Item
    OBVIOUS
  <2>2. \A r \in Seq(Item), i \in Item : Requeued(r, i) \in Seq(Item)
    BY DEF Requeued
  <2> QED
    BY <2>1, <2>2
<1>3. PICK g \in [D -> Seq(Item)] : Recursion(g, n, q, step)
  <2> HIDE DEF step, n
  <2> QED
    BY <1>1, <1>2, RecursionExists
<1>4. \A s \in D : s # {} => s \ {Max(s)} \in D /\ Max(s) \in 1 .. n
  BY <1>1, Largest
<1>5. \A s \in D : g[s] = IF s = {} THEN q ELSE Requeued(g[s \ {Max(s)}], items[Max(s)])
  BY <1>1, <1>3, <1>4 DEF Recursion
<1>6. E(g)
  BY <1>5
<1>7. E(fold)
  <2> HIDE DEF E
  <2> QED
    BY <1>6
<1>8. FoldLeft(Requeued, q, items) = fold[DOMAIN items]
  BY DEF FoldLeft, MapThenFoldSet
<1> HIDE DEF fold
<1>9. \A s \in D : fold[s] = IF s = {} THEN q ELSE Requeued(fold[s \ {Max(s)}], items[Max(s)])
  BY <1>7
<1>10. fold[{}] = q
  BY <1>9
<1> QED
  BY <1>1, <1>8, <1>9, <1>10

LEMMA FlushFolds ==
  ASSUME NEW q \in Seq(Item), NEW items \in Seq(Item)
  PROVE  \E g : /\ FoldLeft(InTime, q, items) = g[1 .. Len(items)] /\ g[{}] = q
                /\ \A s \in SUBSET (1 .. Len(items)) : s # {} =>
                     g[s] = InTime(g[s \ {Max(s)}], items[Max(s)])
<1> DEFINE n == Len(items)
           D == SUBSET DOMAIN items
           step == [x \in Seq(Item) \X (1 .. n) |-> InTime(x[1], items[x[2]])]
           E(g) == g = [s \in D |-> IF s = {} THEN q ELSE InTime(g[s \ {Max(s)}], items[Max(s)])]
           fold == CHOOSE g : E(g)
<1>1. n \in Nat /\ DOMAIN items = 1 .. n
  OBVIOUS
<1>2. step \in [Seq(Item) \X (1 .. n) -> Seq(Item)]
  <2>1. \A i \in 1 .. n : items[i] \in Item
    OBVIOUS
  <2>2. \A r \in Seq(Item), i \in Item : InTime(r, i) \in Seq(Item)
    BY DEF InTime
  <2> QED
    BY <2>1, <2>2
<1>3. PICK g \in [D -> Seq(Item)] : Recursion(g, n, q, step)
  <2> HIDE DEF step, n
  <2> QED
    BY <1>1, <1>2, RecursionExists
<1>4. \A s \in D : s # {} => s \ {Max(s)} \in D /\ Max(s) \in 1 .. n
  BY <1>1, Largest
<1>5. \A s \in D : g[s] = IF s = {} THEN q ELSE InTime(g[s \ {Max(s)}], items[Max(s)])
  BY <1>1, <1>3, <1>4 DEF Recursion
<1>6. E(g)
  BY <1>5
<1>7. E(fold)
  <2> HIDE DEF E
  <2> QED
    BY <1>6
<1>8. FoldLeft(InTime, q, items) = fold[DOMAIN items]
  BY DEF FoldLeft, MapThenFoldSet
<1> HIDE DEF fold
<1>9. \A s \in D : fold[s] = IF s = {} THEN q ELSE InTime(fold[s \ {Max(s)}], items[Max(s)])
  BY <1>7
<1>10. fold[{}] = q
  BY <1>9
<1> QED
  BY <1>1, <1>8, <1>9, <1>10

-------------------------------------------------------------------------------
(***************************************************************************)
(* What is in a sequence, and whether it is there once.                    *)
(***************************************************************************)
LEMMA Members ==
  ASSUME NEW S, NEW q \in Seq(S)
  PROVE  /\ Len(q) \in Nat
         /\ \A x \in ToSet(q) : \E k \in 1 .. Len(q) : q[k] = x
         /\ \A k \in 1 .. Len(q) : q[k] \in ToSet(q)
         /\ IsInjective(q) => \A k, l \in 1 .. Len(q) : q[k] = q[l] => k = l
         /\ (\A k, l \in 1 .. Len(q) : q[k] = q[l] => k = l) => IsInjective(q)
         /\ ToSet(q) \subseteq S
BY DEF ToSet, IsInjective

LEMMA OneItem ==
  ASSUME NEW S, NEW x \in S
  PROVE  << x >> \in Seq(S) /\ ToSet(<< x >>) = {x} /\ IsInjective(<< x >>) /\ Len(<< x >>) = 1
BY DEF ToSet, IsInjective

LEMMA NoItem ==
  ASSUME NEW S
  PROVE  /\ << >> \in Seq(S) /\ ToSet(<< >>) = {} /\ IsInjective(<< >>) /\ Len(<< >>) = 0
         /\ \A q \in Seq(S) : ToSet(q) = {} => q = << >>
<1>1. << >> \in Seq(S) /\ ToSet(<< >>) = {} /\ IsInjective(<< >>) /\ Len(<< >>) = 0
  BY DEF ToSet, IsInjective
<1>2. ASSUME NEW q \in Seq(S), ToSet(q) = {} PROVE q = << >>
  <2>1. Len(q) \in Nat /\ \A k \in 1 .. Len(q) : q[k] \in ToSet(q)
    BY Members
  <2>2. 1 \notin 1 .. Len(q)
    BY <1>2, <2>1
  <2>3. Len(q) = 0
    BY <2>1, <2>2
  <2> QED
    BY <2>3
<1> QED
  BY <1>1, <1>2

LEMMA Joined ==
  ASSUME NEW S, NEW p \in Seq(S), NEW q \in Seq(S)
  PROVE  /\ p \o q \in Seq(S) /\ Len(p \o q) = Len(p) + Len(q)
         /\ ToSet(p \o q) = ToSet(p) \cup ToSet(q)
         /\ IsInjective(p) /\ IsInjective(q) /\ ToSet(p) \cap ToSet(q) = {} => IsInjective(p \o q)
<1> DEFINE r == p \o q
           m == Len(p)
           n == Len(q)
<1>1. /\ r \in Seq(S) /\ Len(r) = m + n /\ m \in Nat /\ n \in Nat
      /\ \A k \in 1 .. m : r[k] = p[k]
      /\ \A k \in 1 .. n : r[m + k] = q[k]
  OBVIOUS
<1>p. /\ \A x \in ToSet(p) : \E k \in 1 .. m : p[k] = x
      /\ \A k \in 1 .. m : p[k] \in ToSet(p)
      /\ IsInjective(p) => \A k, l \in 1 .. m : p[k] = p[l] => k = l
  BY Members
<1>q. /\ \A x \in ToSet(q) : \E k \in 1 .. n : q[k] = x
      /\ \A k \in 1 .. n : q[k] \in ToSet(q)
      /\ IsInjective(q) => \A k, l \in 1 .. n : q[k] = q[l] => k = l
  BY Members
<1>r. /\ \A x \in ToSet(r) : \E k \in 1 .. Len(r) : r[k] = x
      /\ \A k \in 1 .. Len(r) : r[k] \in ToSet(r)
      /\ (\A k, l \in 1 .. Len(r) : r[k] = r[l] => k = l) => IsInjective(r)
  <2> HIDE DEF r
  <2> QED
    BY <1>1, Members
<1> HIDE DEF r, m, n, IsInjective, ToSet
<1>2. \A k \in 1 .. Len(r) : k \in 1 .. m \/ (k - m \in 1 .. n /\ r[k] = q[k - m])
  <2> TAKE k \in 1 .. Len(r)
  <2>1. CASE k <= m
    BY <1>1, <2>1
  <2>2. CASE k > m
    <3>1. k - m \in 1 .. n /\ m + (k - m) = k
      BY <1>1, <2>2
    <3> QED
      BY <1>1, <3>1
  <2> QED
    BY <1>1, <2>1, <2>2
<1>3. \A k \in 1 .. Len(r) : r[k] \in ToSet(p) \cup ToSet(q)
  BY <1>1, <1>2, <1>p, <1>q
<1>4. ToSet(p) \subseteq ToSet(r)
  <2>1. \A k \in 1 .. m : k \in 1 .. Len(r) /\ r[k] = p[k]
    BY <1>1
  <2> QED
    BY <2>1, <1>p, <1>r
<1>5. ToSet(q) \subseteq ToSet(r)
  <2>1. \A k \in 1 .. n : m + k \in 1 .. Len(r) /\ r[m + k] = q[k]
    BY <1>1
  <2> QED
    BY <2>1, <1>q, <1>r
<1>6. ASSUME IsInjective(p), IsInjective(q), ToSet(p) \cap ToSet(q) = {} PROVE IsInjective(r)
  <2> SUFFICES ASSUME NEW k \in 1 .. Len(r), NEW l \in 1 .. Len(r), r[k] = r[l] PROVE k = l
    BY <1>r
  <2>1. CASE k \in 1 .. m /\ l \in 1 .. m
    <3>1. p[k] = p[l]
      BY <1>1, <2>1
    <3> QED
      BY <1>p, <1>6, <2>1, <3>1
  <2>2. CASE k \notin 1 .. m /\ l \notin 1 .. m
    <3>1. k - m \in 1 .. n /\ l - m \in 1 .. n /\ q[k - m] = q[l - m]
      BY <1>2, <2>2
    <3>2. k - m = l - m
      BY <1>q, <1>6, <3>1
    <3>3. k \in Int /\ l \in Int /\ m \in Int
      BY <1>1
    <3> HIDE DEF m
    <3> QED
      BY <3>2, <3>3
  <2>3. ASSUME NEW a \in 1 .. Len(r), NEW c \in 1 .. Len(r), r[a] = r[c],
               a \in 1 .. m, c \notin 1 .. m
        PROVE  FALSE
    <3>1. r[a] \in ToSet(p)
      BY <1>1, <1>p, <2>3
    <3>2. r[c] \in ToSet(q)
      BY <1>2, <1>q, <2>3
    <3> QED
      BY <1>6, <2>3, <3>1, <3>2
  <2> QED
    BY <2>1, <2>2, <2>3
<1>7. ToSet(r) = ToSet(p) \cup ToSet(q)
  BY <1>3, <1>4, <1>5, <1>r
<1> QED
  BY <1>1, <1>6, <1>7 DEF r, m, n

LEMMA Appended ==
  ASSUME NEW S, NEW q \in Seq(S), NEW x \in S
  PROVE  /\ Append(q, x) \in Seq(S) /\ Len(Append(q, x)) = Len(q) + 1
         /\ ToSet(Append(q, x)) = ToSet(q) \cup {x}
         /\ IsInjective(q) /\ x \notin ToSet(q) => IsInjective(Append(q, x))
<1> DEFINE o == << x >>
<1>1. Append(q, x) = q \o o
  OBVIOUS
<1>2. o \in Seq(S) /\ ToSet(o) = {x} /\ IsInjective(o) /\ Len(o) = 1
  BY OneItem
<1> HIDE DEF o, IsInjective, ToSet
<1>3. /\ q \o o \in Seq(S) /\ Len(q \o o) = Len(q) + Len(o)
      /\ ToSet(q \o o) = ToSet(q) \cup ToSet(o)
      /\ IsInjective(q) /\ IsInjective(o) /\ ToSet(q) \cap ToSet(o) = {} => IsInjective(q \o o)
  BY <1>2, Joined
<1> QED
  BY <1>1, <1>2, <1>3

LEMMA Prepended ==
  ASSUME NEW S, NEW q \in Seq(S), NEW x \in S
  PROVE  /\ << x >> \o q \in Seq(S) /\ Len(<< x >> \o q) = Len(q) + 1
         /\ ToSet(<< x >> \o q) = ToSet(q) \cup {x}
         /\ IsInjective(q) /\ x \notin ToSet(q) => IsInjective(<< x >> \o q)
<1> DEFINE o == << x >>
<1>1. o \in Seq(S) /\ ToSet(o) = {x} /\ IsInjective(o) /\ Len(o) = 1
  BY OneItem
<1>2. Len(q) \in Nat
  OBVIOUS
<1> HIDE DEF o, IsInjective, ToSet
<1>3. /\ o \o q \in Seq(S) /\ Len(o \o q) = Len(o) + Len(q)
      /\ ToSet(o \o q) = ToSet(o) \cup ToSet(q)
      /\ IsInjective(o) /\ IsInjective(q) /\ ToSet(o) \cap ToSet(q) = {} => IsInjective(o \o q)
  BY <1>1, Joined
<1>4. /\ o \o q \in Seq(S) /\ Len(o \o q) = Len(q) + 1
      /\ ToSet(o \o q) = ToSet(q) \cup {x}
      /\ IsInjective(q) /\ x \notin ToSet(q) => IsInjective(o \o q)
  BY <1>1, <1>2, <1>3
<1> QED
  BY <1>4 DEF o

LEMMA Shifted ==
  ASSUME NEW S, NEW q \in Seq(S), q # << >>
  PROVE  /\ Head(q) \in S /\ Tail(q) \in Seq(S) /\ Head(q) \in ToSet(q)
         /\ ToSet(q) = ToSet(Tail(q)) \cup {Head(q)}
         /\ IsInjective(q) => IsInjective(Tail(q)) /\ Head(q) \notin ToSet(Tail(q))
<1> DEFINE n == Len(q)
           r == Tail(q)
           h == Head(q)
<1>1. /\ h = q[1] /\ h \in S /\ r \in Seq(S) /\ n \in Nat \ {0}
      /\ Len(r) = n - 1 /\ \A k \in 1 .. n - 1 : r[k] = q[k + 1]
  OBVIOUS
<1>q. /\ \A x \in ToSet(q) : \E k \in 1 .. n : q[k] = x
      /\ \A k \in 1 .. n : q[k] \in ToSet(q)
      /\ IsInjective(q) => \A k, l \in 1 .. n : q[k] = q[l] => k = l
  BY Members
<1> HIDE DEF n, r, h, IsInjective, ToSet
<1>r. /\ \A x \in ToSet(r) : \E k \in 1 .. Len(r) : r[k] = x
      /\ \A k \in 1 .. Len(r) : r[k] \in ToSet(r)
      /\ (\A k, l \in 1 .. Len(r) : r[k] = r[l] => k = l) => IsInjective(r)
  BY <1>1, Members
<1>2. \A k \in 1 .. n : k = 1 \/ (k - 1 \in 1 .. Len(r) /\ r[k - 1] = q[k])
  <2> TAKE k \in 1 .. n
  <2>1. CASE k # 1
    <3>1. k - 1 \in 1 .. n - 1 /\ (k - 1) + 1 = k
      BY <1>1, <2>1
    <3> QED
      BY <1>1, <3>1
  <2> QED
    BY <2>1
<1>3. \A k \in 1 .. Len(r) : k + 1 \in 1 .. n /\ q[k + 1] = r[k]
  BY <1>1
<1>4. 1 \in 1 .. n
  BY <1>1
<1>5. \A k \in 1 .. n : q[k] \in ToSet(r) \cup {h}
  BY <1>1, <1>2, <1>r
<1>6. \A k \in 1 .. Len(r) : r[k] \in ToSet(q)
  BY <1>3, <1>q
<1>7. h \in ToSet(q)
  BY <1>1, <1>4, <1>q
<1>8. ToSet(q) = ToSet(r) \cup {h}
  BY <1>5, <1>6, <1>7, <1>q, <1>r
<1>9. ASSUME IsInjective(q) PROVE IsInjective(r) /\ h \notin ToSet(r)
  <2>1. \A k, l \in 1 .. n : q[k] = q[l] => k = l
    BY <1>9, <1>q
  <2>2. \A k, l \in 1 .. Len(r) : r[k] = r[l] => k = l
    <3> TAKE k \in 1 .. Len(r), l \in 1 .. Len(r)
    <3> HAVE r[k] = r[l]
    <3>1. k + 1 = l + 1
      BY <1>3, <2>1
    <3>2. k \in Int /\ l \in Int
      BY <1>1
    <3> QED
      BY <3>1, <3>2
  <2>3. \A k \in 1 .. Len(r) : r[k] # h
    <3> TAKE k \in 1 .. Len(r)
    <3>1. k + 1 # 1
      BY <1>1
    <3> QED
      BY <1>1, <1>3, <1>4, <2>1, <3>1
  <2> QED
    BY <2>2, <2>3, <1>r
<1> QED
  BY <1>1, <1>7, <1>8, <1>9 DEF r, h

LEMMA Spliced ==
  ASSUME NEW S, NEW q \in Seq(S), IsInjective(q), NEW x
  PROVE  LET r == RemoveFirst(q, x) IN
         r \in Seq(S) /\ Len(r) <= Len(q) /\ IsInjective(r) /\ ToSet(r) = ToSet(q) \ {x}
<1> DEFINE n == Len(q)
<1>q. /\ n \in Nat
      /\ \A y \in ToSet(q) : \E k \in 1 .. n : q[k] = y
      /\ \A k \in 1 .. n : q[k] \in ToSet(q)
      /\ \A k, l \in 1 .. n : q[k] = q[l] => k = l
  BY Members
<1>1. CASE x \notin ToSet(q)
  <2>1. ~ \E k \in 1 .. n : q[k] = x
    BY <1>1, <1>q
  <2>2. RemoveFirst(q, x) = q
    BY <2>1 DEF RemoveFirst
  <2> HIDE DEF ToSet, IsInjective, n
  <2> QED
    BY <1>1, <2>2, <1>q DEF n
<1>2. CASE x \in ToSet(q)
  <2>1. PICK k \in 1 .. n : q[k] = x
    BY <1>2, <1>q
  <2>2. {j \in 1 .. n : q[j] = x} = {k}
    BY <2>1, <1>q
  <2>3. RemoveFirst(q, x) = RemoveAt(q, k)
    <3>1. Min({k}) = k
      BY DEF Min
    <3>2. SelectInSeq(q, LAMBDA v : v = x) = k
      BY <2>1, <2>2, <3>1 DEF SelectInSeq
    <3> QED
      BY <2>1, <3>2 DEF RemoveFirst
  <2> DEFINE p == SubSeq(q, 1, k - 1)
             t == SubSeq(q, k + 1, n)
             a == k - 1
             c == n - k
  <2>4. /\ p \in Seq(S) /\ Len(p) = a /\ \A j \in 1 .. a : p[j] = q[j]
        /\ t \in Seq(S) /\ Len(t) = c /\ \A j \in 1 .. c : t[j] = q[k + j]
    OBVIOUS
  <2>5. RemoveFirst(q, x) = p \o t
    BY <2>3 DEF RemoveAt
  <2> HIDE DEF p, t, n, ToSet, IsInjective
  <2>p. /\ \A y \in ToSet(p) : \E j \in 1 .. a : p[j] = y
        /\ \A j \in 1 .. a : p[j] \in ToSet(p)
        /\ (\A j, l \in 1 .. a : p[j] = p[l] => j = l) => IsInjective(p)
    BY <2>4, Members
  <2>t. /\ \A y \in ToSet(t) : \E j \in 1 .. c : t[j] = y
        /\ \A j \in 1 .. c : t[j] \in ToSet(t)
        /\ (\A j, l \in 1 .. c : t[j] = t[l] => j = l) => IsInjective(t)
    BY <2>4, Members
  <2>i. k \in 1 .. n /\ k \in Int /\ n \in Nat
    BY <2>1, <1>q
  <2>6. \A j \in 1 .. a : j \in 1 .. n /\ j # k /\ p[j] = q[j]
    BY <2>4, <2>i
  <2>7. \A j \in 1 .. c : k + j \in 1 .. n /\ k + j # k /\ t[j] = q[k + j]
    BY <2>4, <2>i
  <2>8. \A j \in 1 .. n : j = k \/ j \in 1 .. a \/ (j - k \in 1 .. c /\ t[j - k] = q[j])
    <3> TAKE j \in 1 .. n
    <3>1. CASE j > k
      <4>1. j - k \in 1 .. c /\ k + (j - k) = j
        BY <2>i, <3>1
      <4> QED
        BY <2>4, <4>1
    <3> QED
      BY <2>i, <3>1
  <2>9. IsInjective(p)
    <3>1. \A j, l \in 1 .. a : p[j] = p[l] => j = l
      BY <2>6, <1>q
    <3> QED
      BY <2>p, <3>1
  <2>10. IsInjective(t)
    <3>1. \A j, l \in 1 .. c : t[j] = t[l] => j = l
      <4> TAKE j \in 1 .. c, l \in 1 .. c
      <4> HAVE t[j] = t[l]
      <4>1. k + j = k + l
        BY <2>7, <1>q
      <4>2. j \in Int /\ l \in Int
        OBVIOUS
      <4> QED
        BY <4>1, <4>2, <2>i
    <3> QED
      BY <2>t, <3>1
  <2>11. ToSet(p) \cap ToSet(t) = {}
    <3> SUFFICES ASSUME NEW j \in 1 .. a, NEW l \in 1 .. c, p[j] = t[l] PROVE FALSE
      BY <2>p, <2>t
    <3>1. j = k + l
      BY <2>6, <2>7, <1>q
    <3> QED
      BY <3>1, <2>i
  <2>12. \A y \in ToSet(p) \cup ToSet(t) : y \in ToSet(q) \ {x}
    <3>1. \A j \in 1 .. n : j # k => q[j] \in ToSet(q) \ {x}
      BY <2>1, <1>q
    <3>2. \A j \in 1 .. a : p[j] \in ToSet(q) \ {x}
      BY <2>6, <3>1
    <3>3. \A j \in 1 .. c : t[j] \in ToSet(q) \ {x}
      BY <2>7, <3>1
    <3> QED
      BY <2>p, <2>t, <3>2, <3>3
  <2>13. \A y \in ToSet(q) \ {x} : y \in ToSet(p) \cup ToSet(t)
    <3> TAKE y \in ToSet(q) \ {x}
    <3>1. PICK j \in 1 .. n : q[j] = y
      BY <1>q
    <3>2. CASE j \in 1 .. a
      BY <2>6, <2>p, <3>1, <3>2
    <3>3. CASE j - k \in 1 .. c /\ t[j - k] = q[j]
      BY <2>t, <3>1, <3>3
    <3>4. j # k
      BY <2>1, <3>1
    <3> QED
      BY <2>8, <3>2, <3>3, <3>4
  <2>14. /\ p \o t \in Seq(S) /\ Len(p \o t) = Len(p) + Len(t)
         /\ ToSet(p \o t) = ToSet(p) \cup ToSet(t) /\ IsInjective(p \o t)
    <3>1. /\ p \o t \in Seq(S) /\ Len(p \o t) = Len(p) + Len(t)
          /\ ToSet(p \o t) = ToSet(p) \cup ToSet(t)
          /\ IsInjective(p) /\ IsInjective(t) /\ ToSet(p) \cap ToSet(t) = {} => IsInjective(p \o t)
      <4>1. p \in Seq(S) /\ t \in Seq(S)
        BY <2>4
      <4> QED
        BY <4>1, Joined
    <3> QED
      BY <2>9, <2>10, <2>11, <3>1
  <2>15. Len(p \o t) <= n
    BY <2>4, <2>14, <2>i
  <2> QED
    BY <2>5, <2>12, <2>13, <2>14, <2>15 DEF n
<1> QED
  BY <1>1, <1>2

-------------------------------------------------------------------------------
(***************************************************************************)
(* What comes of a queue when items are put back, and of one when those    *)
(* whose time is up are left out.                                          *)
(***************************************************************************)
\* requeueBroadcast: an item is put in front, once, or the queue stays as it is.
LEMMA RequeuedOnce ==
  ASSUME NEW q \in Seq(Item), Len(q) <= MaxQueue, NEW i \in Item
  PROVE  LET r == Requeued(q, i) IN
         /\ r \in Seq(Item) /\ Len(r) <= MaxQueue
         /\ IsInjective(q) /\ i \notin ToSet(q) => IsInjective(r)
         /\ \/ r = q
            \/ ToSet(r) = ToSet(q) \cup {i} /\ ~ Settled(i) /\ Len(r) = Len(q) + 1
<1>1. Len(q) \in Nat /\ MaxQueue \in Nat
  BY DeliveryAssumption
<1>2. CASE Settled(i) \/ i \in late \/ Len(q) >= MaxQueue
  BY <1>2 DEF Requeued
<1>3. CASE ~ (Settled(i) \/ i \in late \/ Len(q) >= MaxQueue)
  <2>1. Requeued(q, i) = << i >> \o q
    BY <1>3 DEF Requeued
  <2> DEFINE r == << i >> \o q
  <2>2. /\ r \in Seq(Item) /\ Len(r) = Len(q) + 1
        /\ ToSet(r) = ToSet(q) \cup {i}
        /\ IsInjective(q) /\ i \notin ToSet(q) => IsInjective(r)
    <3> HIDE DEF ToSet, IsInjective
    <3> QED
      BY Prepended
  <2> HIDE DEF r, ToSet, IsInjective
  <2>3. Len(r) <= MaxQueue
    BY <1>1, <1>3, <2>2
  <2> QED
    BY <1>3, <2>1, <2>2, <2>3 DEF r
<1> QED
  BY <1>2, <1>3

\* requeueInFlight: the queue keeps what it has and gains unsettled items only.
LEMMA RequeuesAll ==
  ASSUME NEW q \in Seq(Item), Len(q) <= MaxQueue, IsInjective(q),
         NEW items \in Seq(Item), IsInjective(items), ToSet(q) \cap ToSet(items) = {}
  PROVE  LET r == FoldLeft(Requeued, q, items) IN
         /\ r \in Seq(Item) /\ Len(r) <= MaxQueue /\ IsInjective(r)
         /\ ToSet(q) \subseteq ToSet(r) /\ ToSet(r) \subseteq ToSet(q) \cup ToSet(items)
         /\ \A x \in ToSet(r) \ ToSet(q) : ~ Settled(x)
<1> DEFINE n == Len(items)
           S == 1 .. n
           Of(T) == {items[k] : k \in T}
           Fine(r, T) == /\ r \in Seq(Item) /\ Len(r) <= MaxQueue /\ IsInjective(r)
                         /\ ToSet(q) \subseteq ToSet(r) /\ ToSet(r) \subseteq ToSet(q) \cup Of(T)
                         /\ \A x \in ToSet(r) \ ToSet(q) : ~ Settled(x)
<1>i. /\ n \in Nat
      /\ \A k \in 1 .. n : items[k] \in ToSet(items) /\ items[k] \in Item
      /\ \A k, l \in 1 .. n : items[k] = items[l] => k = l
  BY Members
<1>1. PICK g : /\ FoldLeft(Requeued, q, items) = g[S] /\ g[{}] = q
               /\ \A s \in SUBSET S : s # {} => g[s] = Requeued(g[s \ {Max(s)}], items[Max(s)])
  BY RequeueFolds
<1> DEFINE B == {T \in SUBSET S : Fine(g[T], T)}
<1> HIDE DEF n, IsInjective, ToSet
<1>2. ASSUME NEW T \in SUBSET S, \A U \in SUBSET S : U \subseteq T /\ U # T => U \in B PROVE T \in B
  <2>1. CASE T = {}
    BY <1>1, <2>1
  <2>2. CASE T # {}
    <3> DEFINE m == Max(T)
               U == T \ {m}
               i == items[m]
               r == g[U]
    <3>1. m \in T /\ U \subseteq T /\ U # T /\ U \in SUBSET S
      <4>1. T \in SUBSET (1 .. n) /\ n \in Nat
        BY <1>i
      <4>2. Max(T) \in T /\ T \ {Max(T)} \subseteq T /\ T \ {Max(T)} # T
        BY <2>2, <4>1, Largest
      <4> QED
        BY <4>2
    <3>2. Fine(r, U)
      BY <1>2, <3>1
    <3>3. i \in Item /\ i \in ToSet(items) /\ i \notin Of(U)
      <4>1. m \in 1 .. n /\ \A k \in U : k \in 1 .. n /\ k # m
        BY <3>1
      <4> HIDE DEF m, U
      <4> QED
        BY <1>i, <4>1
    <3>4. i \notin ToSet(r)
      BY <3>2, <3>3
    <3>5. g[T] = Requeued(r, i)
      BY <1>1, <2>2
    <3> HIDE DEF r
    <3>6. /\ Requeued(r, i) \in Seq(Item) /\ Len(Requeued(r, i)) <= MaxQueue
          /\ IsInjective(r) /\ i \notin ToSet(r) => IsInjective(Requeued(r, i))
          /\ \/ Requeued(r, i) = r
             \/ ToSet(Requeued(r, i)) = ToSet(r) \cup {i} /\ ~ Settled(i)
      <4>1. r \in Seq(Item) /\ Len(r) <= MaxQueue
        BY <3>2
      <4> HIDE DEF i
      <4>2. i \in Item
        BY <3>3
      <4> QED
        BY <4>1, <4>2, RequeuedOnce
    <3> DEFINE z == Requeued(r, i)
    <3> HIDE DEF z
    <3>7. Of(U) \subseteq Of(T) /\ i \in Of(T)
      BY <3>1
    <3>8. Fine(z, T)
      <4> HIDE DEF i, m, U, Of
      <4> QED
        BY <3>2, <3>4, <3>6, <3>7 DEF z
    <3> QED
      BY <3>5, <3>8 DEF z
  <2> QED
    BY <2>1, <2>2
<1>3. S \in B
  <2>1. IsFiniteSet(S)
    BY <1>i, FS_Interval
  <2>2. \A T \in SUBSET S : (\A U \in SUBSET S : U \subseteq T /\ U # T => U \in B) => T \in B
    BY <1>2
  <2> HIDE DEF B, S
  <2> QED
    BY <2>1, <2>2, SubsetInduction
<1>4. Of(S) \subseteq ToSet(items)
  BY <1>i
<1> QED
  BY <1>1, <1>3, <1>4

\* flushQueue: what is in time is written, once.
LEMMA FlushesInTime ==
  ASSUME NEW items \in Seq(Item), IsInjective(items)
  PROVE  LET r == FoldLeft(InTime, << >>, items) IN
         r \in Seq(Item) /\ IsInjective(r) /\ ToSet(r) = ToSet(items) \ late
<1> DEFINE n == Len(items)
           S == 1 .. n
           Of(T) == {items[k] : k \in T}
           Fine(r, T) == r \in Seq(Item) /\ IsInjective(r) /\ ToSet(r) = Of(T) \ late
<1>i. /\ n \in Nat
      /\ \A x \in ToSet(items) : \E k \in 1 .. n : items[k] = x
      /\ \A k \in 1 .. n : items[k] \in ToSet(items) /\ items[k] \in Item
      /\ \A k, l \in 1 .. n : items[k] = items[l] => k = l
  BY Members
<1>e. << >> \in Seq(Item) /\ ToSet(<< >>) = {} /\ IsInjective(<< >>)
  BY NoItem
<1>1. PICK g : /\ FoldLeft(InTime, << >>, items) = g[S] /\ g[{}] = << >>
               /\ \A s \in SUBSET S : s # {} => g[s] = InTime(g[s \ {Max(s)}], items[Max(s)])
  BY FlushFolds, <1>e
<1> DEFINE B == {T \in SUBSET S : Fine(g[T], T)}
<1> HIDE DEF n, IsInjective, ToSet
<1>2. ASSUME NEW T \in SUBSET S, \A U \in SUBSET S : U \subseteq T /\ U # T => U \in B PROVE T \in B
  <2>1. CASE T = {}
    BY <1>1, <1>e, <2>1
  <2>2. CASE T # {}
    <3> DEFINE m == Max(T)
               U == T \ {m}
               i == items[m]
               r == g[U]
    <3>1. m \in T /\ U \subseteq T /\ U # T /\ U \in SUBSET S
      <4>1. T \in SUBSET (1 .. n) /\ n \in Nat
        BY <1>i
      <4>2. Max(T) \in T /\ T \ {Max(T)} \subseteq T /\ T \ {Max(T)} # T
        BY <2>2, <4>1, Largest
      <4> QED
        BY <4>2
    <3>2. Fine(r, U)
      BY <1>2, <3>1
    <3>3. i \in Item /\ i \notin Of(U) /\ Of(T) = Of(U) \cup {i}
      <4>1. m \in 1 .. n /\ (\A k \in U : k \in 1 .. n /\ k # m) /\ T = U \cup {m}
        BY <3>1
      <4> HIDE DEF m, U
      <4> QED
        BY <1>i, <4>1
    <3>4. g[T] = InTime(r, i)
      BY <1>1, <2>2
    <3> HIDE DEF r, i, Of
    <3>5. CASE i \in late
      BY <3>2, <3>3, <3>4, <3>5 DEF InTime
    <3>6. CASE i \notin late
      <4>1. g[T] = Append(r, i)
        BY <3>4, <3>6 DEF InTime
      <4>2. r \in Seq(Item) /\ i \in Item
        BY <3>2, <3>3
      <4>3. /\ Append(r, i) \in Seq(Item) /\ ToSet(Append(r, i)) = ToSet(r) \cup {i}
            /\ IsInjective(r) /\ i \notin ToSet(r) => IsInjective(Append(r, i))
        BY <4>2, Appended
      <4> QED
        BY <3>2, <3>3, <3>6, <4>1, <4>3
    <3> QED
      BY <3>5, <3>6
  <2> QED
    BY <2>1, <2>2
<1>3. S \in B
  <2>1. IsFiniteSet(S)
    BY <1>i, FS_Interval
  <2>2. \A T \in SUBSET S : (\A U \in SUBSET S : U \subseteq T /\ U # T => U \in B) => T \in B
    BY <1>2
  <2> HIDE DEF B, S
  <2> QED
    BY <2>1, <2>2, SubsetInduction
<1>4. Of(S) = ToSet(items)
  BY <1>i
<1> QED
  BY <1>1, <1>3, <1>4

-------------------------------------------------------------------------------
(***************************************************************************)
(* What becomes of a broadcast.                                            *)
(***************************************************************************)
ConnType ==
  /\ life \in {"up", "closing", "closed"} /\ serving \in BOOLEAN
  /\ sock \in [Socket -> SockState]
  /\ connection \in Socket \cup {None}
  /\ connecting \in BOOLEAN /\ connectionReady \in BOOLEAN
  /\ timer \in BOOLEAN /\ flushTimer \in BOOLEAN /\ hasty \in BOOLEAN
ItemType ==
  /\ pending \in Seq(Item) /\ Len(pending) <= MaxQueue
  /\ flight \in [Socket -> Seq(Item)]
  /\ answer \in [Item \cup Waiter -> {"new", "waiting", "true", "false"}]
  /\ late \subseteq Item /\ local \in [Item -> Nat]

Held(i) == i \in ToSet(pending) \/ \E s \in Socket : i \in ToSet(flight[s])

\* Nothing is queued or written twice, or both.
Apart ==
  /\ IsInjective(pending)
  /\ \A s \in Socket : IsInjective(flight[s]) /\ ToSet(pending) \cap ToSet(flight[s]) = {}
  /\ \A s, t \in Socket : s # t => ToSet(flight[s]) \cap ToSet(flight[t]) = {}

\* Who is waited for is held somewhere; who is queued is waited for; who is in
\* flight was not delivered here and not reported as sent.
Accounted(i) ==
  /\ answer[i] = "waiting" => Held(i)
  /\ i \in ToSet(pending) => answer[i] = "waiting"
  /\ \A s \in Socket : i \in ToSet(flight[s]) => answer[i] \in {"waiting", "false"} /\ local[i] = 0
  /\ answer[i] \in {"new", "waiting"} => local[i] = 0
  /\ local[i] <= 1 /\ (answer[i] = "true" => local[i] = 1)

ItemInv == ItemType /\ Apart /\ \A i \in Item : Accounted(i)

LEMMA SettlesSome ==
  ASSUME ItemType, NEW X, NEW v \in {"true", "false"}
  PROVE  /\ Settle(X, v) \in [Item \cup Waiter -> {"new", "waiting", "true", "false"}]
         /\ \A x \in Item \cup Waiter :
              Settle(X, v)[x] = IF x \in X /\ answer[x] \notin {"true", "false"} THEN v ELSE answer[x]
BY DEF ItemType, Settle, Settled

LEMMA ItemsStay ==
  ASSUME ItemInv, UNCHANGED itemVars
  PROVE  ItemInv'
BY DEF ItemInv, ItemType, Apart, Accounted, Held, itemVars

\* Only waiters are answered, or only the time passes.
LEMMA ItemsWait ==
  ASSUME ItemInv, UNCHANGED << pending, flight, local >>,
         \A i \in Item : answer'[i] = answer[i],
         answer' \in [Item \cup Waiter -> {"new", "waiting", "true", "false"}], late' \subseteq Item
  PROVE  ItemInv'
BY DEF ItemInv, ItemType, Apart, Accounted, Held

\* The "close" event of a socket
LEMMA ItemsRequeued ==
  ASSUME ItemInv, NEW s \in Socket, Requeue(flight[s], s), UNCHANGED << late, local >>
  PROVE  ItemInv'
<1> DEFINE f == flight[s]
           r == FoldLeft(Requeued, pending, f)
<1>1. /\ pending \in Seq(Item) /\ Len(pending) <= MaxQueue /\ IsInjective(pending)
      /\ f \in Seq(Item) /\ IsInjective(f) /\ ToSet(pending) \cap ToSet(f) = {}
  BY DEF ItemInv, ItemType, Apart
<1>2. /\ pending' \in Seq(Item) /\ Len(pending') <= MaxQueue /\ IsInjective(pending')
      /\ ToSet(pending) \subseteq ToSet(pending')
      /\ ToSet(pending') \subseteq ToSet(pending) \cup ToSet(f)
      /\ \A x \in ToSet(pending') \ ToSet(pending) : ~ Settled(x)
  <2>1. pending' = r
    BY DEF Requeue
  <2>2. /\ r \in Seq(Item) /\ Len(r) <= MaxQueue /\ IsInjective(r)
        /\ ToSet(pending) \subseteq ToSet(r) /\ ToSet(r) \subseteq ToSet(pending) \cup ToSet(f)
        /\ \A x \in ToSet(r) \ ToSet(pending) : ~ Settled(x)
    <3> HIDE DEF f
    <3> QED
      BY <1>1, RequeuesAll
  <2> QED
    BY <2>1, <2>2
<1>3. /\ flight' \in [Socket -> Seq(Item)] /\ flight'[s] = << >>
      /\ \A t \in Socket : t # s => flight'[t] = flight[t]
  BY NoItem DEF Requeue, ItemInv, ItemType
<1>4. ToSet(<< >>) = {} /\ IsInjective(<< >>)
  BY NoItem
<1>5. /\ answer' \in [Item \cup Waiter -> {"new", "waiting", "true", "false"}]
      /\ \A x \in Item \cup Waiter :
           answer'[x] = IF x \in ToSet(f) \ ToSet(pending') /\ answer[x] \notin {"true", "false"}
                          THEN "false" ELSE answer[x]
  BY SettlesSome DEF Requeue, ItemInv
<1> HIDE DEF f
<1>6. ItemType'
  BY <1>2, <1>3, <1>5 DEF ItemInv, ItemType
<1>7. Apart'
  <2>1. \A t \in Socket : t # s => ToSet(pending') \cap ToSet(flight[t]) = {}
    BY <1>2 DEF ItemInv, Apart, f
  <2> QED
    BY <1>2, <1>3, <1>4, <2>1 DEF ItemInv, Apart
<1>8. ASSUME NEW i \in Item PROVE Accounted(i)'
  <2>1. Accounted(i)
    BY DEF ItemInv
  <2>2. local'[i] = local[i] /\ answer[i] \in {"new", "waiting", "true", "false"}
    BY DEF ItemInv, ItemType
  <2>3. answer'[i] = IF i \in ToSet(f) \ ToSet(pending') /\ answer[i] \notin {"true", "false"}
                          THEN "false" ELSE answer[i]
    BY <1>5
  <2>4. answer'[i] = "waiting" => Held(i)'
    <3> HAVE answer'[i] = "waiting"
    <3>1. answer[i] = "waiting" /\ (i \in ToSet(pending') \/ i \notin ToSet(f))
      BY <2>2, <2>3
    <3>2. CASE i \in ToSet(pending')
      BY <3>2 DEF Held
    <3>3. CASE i \notin ToSet(f) /\ i \notin ToSet(pending')
      <4>1. PICK t \in Socket : i \in ToSet(flight[t])
        BY <1>2, <2>1, <3>1, <3>3 DEF Held, Accounted
      <4>2. t # s
        BY <3>3, <4>1 DEF f
      <4> QED
        BY <1>3, <4>1, <4>2 DEF Held
    <3> QED
      BY <3>1, <3>2, <3>3
  <2>5. i \in ToSet(pending') => answer'[i] = "waiting"
    BY <1>2, <2>1, <2>2, <2>3 DEF Settled, Accounted, f
  <2>6. \A t \in Socket : i \in ToSet(flight'[t]) =>
                           answer'[i] \in {"waiting", "false"} /\ local'[i] = 0
    BY <1>3, <1>4, <2>1, <2>2, <2>3 DEF Accounted
  <2> QED
    BY <2>1, <2>2, <2>3, <2>4, <2>5, <2>6 DEF Accounted
<1> QED
  BY <1>6, <1>7, <1>8 DEF ItemInv

\* writeItem, for several
LEMMA FlightGrows ==
  ASSUME ItemInv, NEW s \in Socket, NEW r \in Seq(Item), IsInjective(r),
         ToSet(r) \cap ToSet(flight[s]) = {}, flight' = [flight EXCEPT ![s] = @ \o r]
  PROVE  /\ flight' \in [Socket -> Seq(Item)] /\ IsInjective(flight'[s])
         /\ ToSet(flight'[s]) = ToSet(flight[s]) \cup ToSet(r)
         /\ \A t \in Socket : t # s => flight'[t] = flight[t]
<1> DEFINE f == flight[s]
<1>1. f \in Seq(Item) /\ IsInjective(f)
  BY DEF ItemInv, ItemType, Apart
<1>2. /\ f \o r \in Seq(Item)
      /\ ToSet(f \o r) = ToSet(f) \cup ToSet(r)
      /\ IsInjective(f) /\ IsInjective(r) /\ ToSet(f) \cap ToSet(r) = {} => IsInjective(f \o r)
  <2> HIDE DEF f
  <2> QED
    BY <1>1, Joined
<1>3. flight'[s] = f \o r /\ \A t \in Socket : t # s => flight'[t] = flight[t]
  BY DEF ItemInv, ItemType
<1>4. flight' \in [Socket -> Seq(Item)]
  BY <1>2 DEF ItemInv, ItemType
<1> QED
  BY <1>1, <1>2, <1>3, <1>4

\* The callback of a write
LEMMA FlightShrinks ==
  ASSUME ItemInv, NEW s \in Socket, flight[s] # << >>, flight' = [flight EXCEPT ![s] = Tail(@)]
  PROVE  /\ flight' \in [Socket -> Seq(Item)] /\ IsInjective(flight'[s])
         /\ Head(flight[s]) \in Item /\ Head(flight[s]) \in ToSet(flight[s])
         /\ ToSet(flight'[s]) = ToSet(flight[s]) \ {Head(flight[s])}
         /\ \A t \in Socket : t # s => flight'[t] = flight[t]
<1> DEFINE f == flight[s]
           h == Head(f)
<1>1. f \in Seq(Item) /\ IsInjective(f)
  BY DEF ItemInv, ItemType, Apart
<1>2. /\ h \in Item /\ Tail(f) \in Seq(Item) /\ h \in ToSet(f)
      /\ ToSet(f) = ToSet(Tail(f)) \cup {h}
      /\ IsInjective(f) => IsInjective(Tail(f)) /\ h \notin ToSet(Tail(f))
  <2> HIDE DEF f
  <2> QED
    BY <1>1, Shifted DEF f
<1>3. flight'[s] = Tail(f) /\ \A t \in Socket : t # s => flight'[t] = flight[t]
  BY DEF ItemInv, ItemType
<1>4. flight' \in [Socket -> Seq(Item)]
  BY <1>2 DEF ItemInv, ItemType
<1>5. ToSet(Tail(f)) = ToSet(f) \ {h}
  <2> HIDE DEF f, h
  <2> QED
    BY <1>1, <1>2
<1> QED
  BY <1>1, <1>2, <1>3, <1>4, <1>5

\* broadcast(): written, refused or queued
LEMMA ItemsBroadcast ==
  ASSUME ItemInv, ConnType, NEW i \in Item, Broadcast(i)
  PROVE  ItemInv'
<1>1. /\ answer[i] = "new" /\ local[i] = 0 /\ i \notin ToSet(pending)
      /\ \A s \in Socket : i \notin ToSet(flight[s])
  BY DEF ItemInv, Accounted, Broadcast
<1>2. late' = late /\ local' = local
  BY DEF Broadcast
<1>3. ASSUME NEW v \in {"waiting", "false"}, answer' = [answer EXCEPT ![i] = v]
      PROVE  /\ answer' \in [Item \cup Waiter -> {"new", "waiting", "true", "false"}]
             /\ answer'[i] = v /\ \A x \in Item : x # i => answer'[x] = answer[x]
  BY <1>3 DEF ItemInv, ItemType
<1>4. CASE IsReady /\ Written(<< i >>) /\ answer' = [answer EXCEPT ![i] = "waiting"] /\ pending' = pending
  <2> DEFINE s == connection
             o == << i >>
  <2>1. s \in Socket
    BY <1>4 DEF IsReady, HasConnection, ConnType
  <2>2. o \in Seq(Item) /\ ToSet(o) = {i} /\ IsInjective(o)
    BY OneItem
  <2>3. flight' = [flight EXCEPT ![s] = @ \o o]
    BY <1>4 DEF Written
  <2>4. ToSet(o) \cap ToSet(flight[s]) = {}
    BY <1>1, <2>1, <2>2
  <2> HIDE DEF s, o
  <2>5. /\ flight' \in [Socket -> Seq(Item)] /\ IsInjective(flight'[s])
        /\ ToSet(flight'[s]) = ToSet(flight[s]) \cup ToSet(o)
        /\ \A t \in Socket : t # s => flight'[t] = flight[t]
    BY <2>1, <2>2, <2>3, <2>4, FlightGrows
  <2>6. ItemType'
    BY <1>2, <1>3, <1>4, <2>5 DEF ItemInv, ItemType
  <2>7. Apart'
    <3>1. Apart
      BY DEF ItemInv
    <3>2. \A t \in Socket : ToSet(flight'[t]) = ToSet(flight[t]) \cup (IF t = s THEN {i} ELSE {})
      BY <2>2, <2>5
    <3>3. \A t \in Socket : IsInjective(flight'[t])
      BY <2>5, <3>1 DEF Apart
    <3> QED
      BY <1>1, <1>4, <3>1, <3>2, <3>3 DEF Apart
  <2>8. ASSUME NEW x \in Item PROVE Accounted(x)'
    <3>1. CASE x = i
      BY <1>1, <1>2, <1>3, <1>4, <2>1, <2>2, <2>5, <3>1 DEF Accounted, Held
    <3>2. CASE x # i
      <4>1. Accounted(x) /\ answer'[x] = answer[x]
        BY <1>3, <1>4, <3>2 DEF ItemInv
      <4>2. \A t \in Socket : x \in ToSet(flight'[t]) <=> x \in ToSet(flight[t])
        BY <2>1, <2>2, <2>5, <3>2
      <4> QED
        BY <1>2, <1>4, <4>1, <4>2 DEF Accounted, Held
    <3> QED
      BY <3>1, <3>2
  <2> QED
    BY <2>6, <2>7, <2>8 DEF ItemInv
<1>5. CASE answer' = [answer EXCEPT ![i] = "false"] /\ pending' = pending /\ flight' = flight
  <2>1. ItemType' /\ Apart'
    BY <1>2, <1>3, <1>5 DEF ItemInv, ItemType, Apart
  <2>2. ASSUME NEW x \in Item PROVE Accounted(x)'
    <3>1. Accounted(x)
      BY DEF ItemInv
    <3> QED
      BY <1>1, <1>2, <1>3, <1>5, <3>1 DEF Accounted, Held
  <2> QED
    BY <2>1, <2>2 DEF ItemInv
<1>6. CASE /\ Len(pending) < MaxQueue /\ pending' = Append(pending, i)
           /\ answer' = [answer EXCEPT ![i] = "waiting"] /\ flight' = flight
  <2>1. pending \in Seq(Item) /\ IsInjective(pending) /\ Len(pending) \in Nat /\ MaxQueue \in Nat
    BY DeliveryAssumption DEF ItemInv, ItemType, Apart
  <2>2. /\ Append(pending, i) \in Seq(Item) /\ Len(Append(pending, i)) = Len(pending) + 1
        /\ ToSet(Append(pending, i)) = ToSet(pending) \cup {i}
        /\ IsInjective(pending) /\ i \notin ToSet(pending) => IsInjective(Append(pending, i))
    BY <2>1, Appended
  <2>3. /\ pending' \in Seq(Item) /\ Len(pending') <= MaxQueue /\ IsInjective(pending')
        /\ ToSet(pending') = ToSet(pending) \cup {i}
    BY <1>1, <1>6, <2>1, <2>2
  <2>4. ItemType'
    BY <1>2, <1>3, <1>6, <2>3 DEF ItemInv, ItemType
  <2>5. Apart'
    BY <1>1, <1>6, <2>3 DEF ItemInv, Apart
  <2>6. ASSUME NEW x \in Item PROVE Accounted(x)'
    <3>1. Accounted(x)
      BY DEF ItemInv
    <3> QED
      BY <1>1, <1>2, <1>3, <1>6, <2>3, <3>1 DEF Accounted, Held
  <2> QED
    BY <2>4, <2>5, <2>6 DEF ItemInv
<1> QED
  BY <1>4, <1>5, <1>6 DEF Broadcast

\* The callback of write, without an error
LEMMA ItemsDone ==
  ASSUME ItemInv, NEW s \in Socket, WriteDone(s)
  PROVE  ItemInv'
<1> DEFINE i == Head(flight[s])
<1>1. /\ flight' \in [Socket -> Seq(Item)] /\ IsInjective(flight'[s])
      /\ i \in Item /\ i \in ToSet(flight[s])
      /\ ToSet(flight'[s]) = ToSet(flight[s]) \ {i}
      /\ \A t \in Socket : t # s => flight'[t] = flight[t]
  BY FlightShrinks DEF WriteDone
<1> HIDE DEF i
<1>2. /\ pending' = pending /\ late' = late
      /\ local' = [local EXCEPT ![i] = @ + 1] /\ answer' = Settle({i}, "true")
  BY DEF WriteDone, i
<1>3. /\ answer' \in [Item \cup Waiter -> {"new", "waiting", "true", "false"}]
      /\ \A x \in Item \cup Waiter :
           answer'[x] = IF x \in {i} /\ answer[x] \notin {"true", "false"} THEN "true" ELSE answer[x]
  BY <1>2, SettlesSome DEF ItemInv
<1>4. /\ local' \in [Item -> Nat] /\ local'[i] = local[i] + 1
      /\ \A x \in Item : x # i => local'[x] = local[x]
  BY <1>1, <1>2 DEF ItemInv, ItemType
<1>5. ItemType'
  BY <1>1, <1>2, <1>3, <1>4 DEF ItemInv, ItemType
<1>6. \A t \in Socket : i \notin ToSet(flight'[t])
  BY <1>1 DEF ItemInv, Apart
<1>7. \A t \in Socket : ToSet(flight'[t]) \subseteq ToSet(flight[t]) /\ IsInjective(flight'[t])
  BY <1>1 DEF ItemInv, Apart
<1>8. Apart'
  <2>1. Apart
    BY DEF ItemInv
  <2> QED
    BY <1>2, <1>7, <2>1 DEF Apart
<1>9. ASSUME NEW x \in Item PROVE Accounted(x)'
  <2>1. Accounted(x)
    BY DEF ItemInv
  <2>2. CASE x = i
    <3>1. answer[i] \in {"waiting", "false"} /\ local[i] = 0 /\ i \notin ToSet(pending)
      BY <1>1 DEF ItemInv, Accounted, Apart
    <3>2. local'[i] = 1 /\ answer'[i] \in {"true", "false"}
      BY <1>1, <1>3, <1>4, <3>1
    <3> QED
      BY <1>2, <1>6, <2>2, <3>1, <3>2 DEF Accounted
  <2>3. CASE x # i
    <3>1. answer'[x] = answer[x] /\ local'[x] = local[x]
      BY <1>3, <1>4, <2>3
    <3>2. \A t \in Socket : x \in ToSet(flight'[t]) <=> x \in ToSet(flight[t])
      BY <1>1, <2>3
    <3> QED
      BY <1>2, <2>1, <3>1, <3>2 DEF Accounted, Held
  <2> QED
    BY <2>2, <2>3
<1> QED
  BY <1>5, <1>8, <1>9 DEF ItemInv

\* The callback of write with an error: in front of the queue, or given up.
LEMMA ItemsFailed ==
  ASSUME ItemInv, NEW s \in Socket, WriteFails(s)
  PROVE  ItemInv'
<1> DEFINE i == Head(flight[s])
<1>1. /\ flight' \in [Socket -> Seq(Item)] /\ IsInjective(flight'[s])
      /\ i \in Item /\ i \in ToSet(flight[s])
      /\ ToSet(flight'[s]) = ToSet(flight[s]) \ {i}
      /\ \A t \in Socket : t # s => flight'[t] = flight[t]
  BY FlightShrinks DEF WriteFails
<1> HIDE DEF i
<1>2. late' = late /\ local' = local /\ pending' = Requeued(pending, i)
  BY DEF WriteFails, i
<1>3. \/ Settled(i) /\ answer' = answer
      \/ ~ Settled(i) /\ pending' = pending /\ answer' = Settle({i}, "false")
      \/ ~ Settled(i) /\ pending' # pending /\ answer' = answer
  BY DEF WriteFails, i
<1>4. /\ i \notin ToSet(pending) /\ (\A t \in Socket : t # s => i \notin ToSet(flight[t]))
      /\ answer[i] \in {"waiting", "false"} /\ local[i] = 0
  BY <1>1 DEF ItemInv, Apart, Accounted
<1>5. /\ pending' \in Seq(Item) /\ Len(pending') <= MaxQueue /\ IsInjective(pending')
      /\ \/ pending' = pending
         \/ ToSet(pending') = ToSet(pending) \cup {i} /\ ~ Settled(i)
  <2>1. pending \in Seq(Item) /\ Len(pending) <= MaxQueue /\ IsInjective(pending)
    BY DEF ItemInv, ItemType, Apart
  <2> DEFINE r == Requeued(pending, i)
  <2>2. /\ r \in Seq(Item) /\ Len(r) <= MaxQueue
        /\ IsInjective(pending) /\ i \notin ToSet(pending) => IsInjective(r)
        /\ \/ r = pending
           \/ ToSet(r) = ToSet(pending) \cup {i} /\ ~ Settled(i) /\ Len(r) = Len(pending) + 1
    BY <1>1, <2>1, RequeuedOnce
  <2> HIDE DEF r
  <2> QED
    BY <1>2, <1>4, <2>1, <2>2 DEF r
<1>6. /\ answer' \in [Item \cup Waiter -> {"new", "waiting", "true", "false"}]
      /\ \A x \in Item : x # i => answer'[x] = answer[x]
      /\ answer'[i] = IF pending' = pending THEN "false" ELSE answer[i]
  <2>1. CASE Settled(i) /\ answer' = answer
    BY <1>1, <1>4, <1>5, <2>1 DEF ItemInv, ItemType, Settled
  <2>3. CASE pending' # pending /\ answer' = answer
    BY <1>1, <2>3 DEF ItemInv, ItemType
  <2>2. CASE pending' = pending /\ answer' = Settle({i}, "false")
    <3>1. /\ Settle({i}, "false") \in [Item \cup Waiter -> {"new", "waiting", "true", "false"}]
          /\ \A x \in Item \cup Waiter :
               Settle({i}, "false")[x] = IF x \in {i} /\ answer[x] \notin {"true", "false"}
                                           THEN "false" ELSE answer[x]
      BY SettlesSome DEF ItemInv
    <3> QED
      BY <1>1, <1>4, <2>2, <3>1
  <2> QED
    BY <1>3, <2>1, <2>2, <2>3
<1>7. ItemType'
  BY <1>1, <1>2, <1>5, <1>6 DEF ItemInv, ItemType
<1>8. \A t \in Socket : i \notin ToSet(flight'[t])
  BY <1>1, <1>4
<1>9. \A t \in Socket : ToSet(flight'[t]) \subseteq ToSet(flight[t]) /\ IsInjective(flight'[t])
  BY <1>1 DEF ItemInv, Apart
<1>10. Apart'
  <2>1. Apart
    BY DEF ItemInv
  <2>2. \A t \in Socket : ToSet(pending') \cap ToSet(flight'[t]) = {}
    BY <1>5, <1>8, <1>9, <2>1 DEF Apart
  <2> QED
    BY <1>5, <1>9, <2>1, <2>2 DEF Apart
<1>11. ASSUME NEW x \in Item PROVE Accounted(x)'
  <2>1. Accounted(x)
    BY DEF ItemInv
  <2>2. CASE x = i
    <3>1. CASE pending' = pending
      BY <1>2, <1>4, <1>6, <1>8, <2>2, <3>1 DEF Accounted
    <3>2. CASE pending' # pending
      <4>1. i \in ToSet(pending') /\ answer'[i] = "waiting"
        BY <1>4, <1>5, <1>6, <3>2 DEF Settled
      <4> QED
        BY <1>2, <1>4, <1>8, <2>2, <4>1 DEF Accounted, Held
    <3> QED
      BY <3>1, <3>2
  <2>3. CASE x # i
    <3>1. answer'[x] = answer[x] /\ local'[x] = local[x]
      BY <1>2, <1>6, <2>3
    <3>2. /\ \A t \in Socket : x \in ToSet(flight'[t]) <=> x \in ToSet(flight[t])
          /\ x \in ToSet(pending') <=> x \in ToSet(pending)
      BY <1>1, <1>5, <2>3
    <3> QED
      BY <2>1, <3>1, <3>2 DEF Accounted, Held
  <2> QED
    BY <2>2, <2>3
<1> QED
  BY <1>7, <1>10, <1>11 DEF ItemInv

\* flushQueue: what is in time is written, the rest is given up.
LEMMA ItemsFlushed ==
  ASSUME ItemInv, ConnType, IsReady, FlushTimer
  PROVE  ItemInv'
<1> DEFINE s == connection
           r == FoldLeft(InTime, << >>, pending)
<1>1. s \in Socket
  BY DEF IsReady, HasConnection, ConnType
<1>2. r \in Seq(Item) /\ IsInjective(r) /\ ToSet(r) = ToSet(pending) \ late
  <2>1. pending \in Seq(Item) /\ IsInjective(pending)
    BY DEF ItemInv, ItemType, Apart
  <2> QED
    BY <2>1, FlushesInTime
<1>3. flight' = [flight EXCEPT ![s] = @ \o r]
  BY DEF Written, FlushTimer
<1> HIDE DEF s, r
<1>b. /\ late' = late /\ local' = local /\ pending' = << >>
      /\ answer' = Settle(ToSet(pending) \cap late, "false")
  BY DEF FlushTimer
<1>a. Apart
  BY DEF ItemInv
<1>4. ToSet(r) \cap ToSet(flight[s]) = {}
  BY <1>1, <1>2, <1>a DEF Apart
<1>5. /\ flight' \in [Socket -> Seq(Item)] /\ IsInjective(flight'[s])
      /\ ToSet(flight'[s]) = ToSet(flight[s]) \cup ToSet(r)
      /\ \A t \in Socket : t # s => flight'[t] = flight[t]
  BY <1>1, <1>2, <1>3, <1>4, FlightGrows
<1>6. /\ answer' \in [Item \cup Waiter -> {"new", "waiting", "true", "false"}]
      /\ \A x \in Item \cup Waiter :
           answer'[x] = IF x \in ToSet(pending) \cap late /\ answer[x] \notin {"true", "false"}
                          THEN "false" ELSE answer[x]
  BY <1>b, SettlesSome DEF ItemInv
<1>7. pending' \in Seq(Item) /\ ToSet(pending') = {} /\ IsInjective(pending') /\ Len(pending') = 0
  BY <1>b, NoItem
<1>8. ItemType'
  <2>1. 0 <= MaxQueue
    BY DeliveryAssumption
  <2> QED
    BY <1>5, <1>6, <1>7, <1>b, <2>1 DEF ItemInv, ItemType
<1>9. \A t \in Socket : /\ IsInjective(flight'[t])
                        /\ ToSet(flight'[t]) = ToSet(flight[t])
                             \cup (IF t = s THEN ToSet(pending) \ late ELSE {})
  BY <1>2, <1>5, <1>a DEF Apart
<1>10. Apart'
  BY <1>7, <1>9, <1>a DEF Apart
<1>11. ASSUME NEW x \in Item PROVE Accounted(x)'
  <2>1. Accounted(x)
    BY DEF ItemInv
  <2>2. local'[x] = local[x] /\ answer[x] \in {"new", "waiting", "true", "false"}
    BY <1>b DEF ItemInv, ItemType
  <2>3. CASE x \in ToSet(pending) \cap late
    <3>1. answer'[x] = "false" /\ local[x] = 0 /\ local'[x] = 0 /\ x \notin ToSet(pending')
      BY <1>6, <1>7, <2>1, <2>2, <2>3 DEF Accounted
    <3> QED
      BY <3>1 DEF Accounted
  <2>4. CASE x \in ToSet(pending) /\ x \notin late
    <3>1. answer'[x] = "waiting" /\ local[x] = 0 /\ local'[x] = 0 /\ x \notin ToSet(pending')
      BY <1>6, <1>7, <2>1, <2>2, <2>4 DEF Accounted
    <3>2. x \in ToSet(flight'[s])
      BY <1>1, <1>9, <2>4
    <3>3. Held(x)'
      BY <1>1, <3>2 DEF Held
    <3> QED
      BY <3>1, <3>3 DEF Accounted
  <2>5. CASE x \notin ToSet(pending)
    <3>1. answer'[x] = answer[x]
      BY <1>6, <2>5
    <3>2. \A t \in Socket : x \in ToSet(flight'[t]) <=> x \in ToSet(flight[t])
      BY <1>9, <2>5
    <3> QED
      BY <1>7, <2>1, <2>2, <2>5, <3>1, <3>2 DEF Accounted, Held
  <2> QED
    BY <2>3, <2>4, <2>5
<1> QED
  BY <1>8, <1>10, <1>11 DEF ItemInv

\* The time of a broadcast is up: it leaves the queue, not the socket.
LEMMA ItemsTimed ==
  ASSUME ItemInv, NEW i \in Item, Timeout(i)
  PROVE  ItemInv'
<1>1. pending \in Seq(Item) /\ IsInjective(pending) /\ Apart /\ Len(pending) <= MaxQueue
  BY DEF ItemInv, ItemType, Apart
<1> DEFINE r == RemoveFirst(pending, i)
<1>2. /\ r \in Seq(Item) /\ Len(r) <= Len(pending) /\ IsInjective(r)
      /\ ToSet(r) = ToSet(pending) \ {i}
  BY <1>1, Spliced
<1>3. pending' = r /\ late' = late /\ local' = local /\ flight' = flight /\ answer' = Settle({i}, "false")
  BY DEF Timeout
<1> HIDE DEF r
<1>4. Len(r) <= MaxQueue
  <2>1. Len(r) \in Nat /\ Len(pending) \in Nat /\ MaxQueue \in Nat
    BY <1>1, <1>2, DeliveryAssumption
  <2> QED
    BY <1>1, <1>2, <2>1
<1>5. /\ answer' \in [Item \cup Waiter -> {"new", "waiting", "true", "false"}]
      /\ \A x \in Item \cup Waiter :
           answer'[x] = IF x \in {i} /\ answer[x] \notin {"true", "false"} THEN "false" ELSE answer[x]
  BY <1>3, SettlesSome DEF ItemInv
<1>6. ItemType'
  BY <1>2, <1>3, <1>4, <1>5 DEF ItemInv, ItemType
<1>7. Apart'
  BY <1>1, <1>2, <1>3 DEF Apart
<1>8. ASSUME NEW x \in Item PROVE Accounted(x)'
  <2>1. Accounted(x)
    BY DEF ItemInv
  <2>2. CASE x = i
    <3>1. answer[i] = "waiting" /\ answer'[i] = "false"
      BY <1>5 DEF Timeout
    <3> QED
      BY <1>2, <1>3, <2>1, <2>2, <3>1 DEF Accounted
  <2>3. CASE x # i
    <3>1. answer'[x] = answer[x]
      BY <1>5, <2>3
    <3> QED
      BY <1>2, <1>3, <2>1, <2>3, <3>1 DEF Accounted, Held
  <2> QED
    BY <2>2, <2>3
<1> QED
  BY <1>6, <1>7, <1>8 DEF ItemInv

\* close(): everything is answered.
LEMMA ItemsClosed ==
  ASSUME ItemInv, Closed
  PROVE  ItemInv'
<1>1. /\ pending' = << >> /\ late' = late /\ local' = local /\ flight' = flight
      /\ answer' = Settle({x \in Item \cup Waiter : answer[x] = "waiting"}, "false")
  BY DEF Closed
<1>2. pending' \in Seq(Item) /\ ToSet(pending') = {} /\ IsInjective(pending') /\ Len(pending') = 0
  BY <1>1, NoItem
<1> DEFINE X == {x \in Item \cup Waiter : answer[x] = "waiting"}
<1>3. /\ answer' \in [Item \cup Waiter -> {"new", "waiting", "true", "false"}]
      /\ \A x \in Item \cup Waiter :
           answer'[x] = IF x \in X /\ answer[x] \notin {"true", "false"} THEN "false" ELSE answer[x]
  BY <1>1, SettlesSome DEF ItemInv
<1>4. ItemType'
  <2>1. 0 <= MaxQueue
    BY DeliveryAssumption
  <2> QED
    BY <1>1, <1>2, <1>3, <2>1 DEF ItemInv, ItemType
<1>5. Apart'
  BY <1>1, <1>2 DEF ItemInv, Apart
<1>6. ASSUME NEW x \in Item PROVE Accounted(x)'
  <2>1. Accounted(x)
    BY DEF ItemInv
  <2>2. answer'[x] = IF answer[x] = "waiting" THEN "false" ELSE answer[x]
    BY <1>3
  <2> QED
    BY <1>1, <1>2, <2>1, <2>2 DEF Accounted
<1> QED
  BY <1>4, <1>5, <1>6 DEF ItemInv

-------------------------------------------------------------------------------
(***************************************************************************)
(* What becomes of the connection.                                         *)
(***************************************************************************)
\* The connection is one, whatever has become of its other end.
Linked == connection # None => HasConnection
\* A process that says it is connecting is.
Dialed == connecting => \E s \in Socket : sock[s] = "dialing"
\* One socket at a time
Single ==
  ~ hasty =>
    /\ \A s \in Socket : sock[s] \in Usable => connection = s
    /\ \A s, t \in Socket : sock[s] # "none" /\ sock[t] # "none" => s = t
    /\ \A s \in Socket : sock[s] = "dialing" => connecting \/ life = "closed"

ConnInv == ConnType /\ Linked /\ Dialed /\ Single /\ NobodyForgotten /\ NeverStranded

\* Nothing happens to the connection.
LEMMA ConnStays ==
  ASSUME ConnInv, UNCHANGED << life, connVars, hasty >>,
         serving' \in BOOLEAN, flushTimer' \in BOOLEAN,
         IsReady => /\ \A w \in Waiter : answer'[w] = "waiting" => answer[w] = "waiting"
                    /\ pending' = << >> \/ (pending' = pending /\ flushTimer' = flushTimer)
  PROVE  ConnInv'
<1>1. ConnType' /\ Linked' /\ Dialed' /\ Single' /\ NeverStranded'
  BY DEF ConnInv, ConnType, Linked, Dialed, Single, NeverStranded, HasConnection, connVars
<1>2. NobodyForgotten'
  BY DEF ConnInv, NobodyForgotten, IsReady, HasConnection, connVars
<1> QED
  BY <1>1, <1>2 DEF ConnInv

\* Another attempt, in a turn in which nothing broke or hastily.
LEMMA ConnAttempt ==
  ASSUME ConnInv, Attempt, UNCHANGED << life, serving, connection, connectionReady, flushTimer >>,
         hasty' \in BOOLEAN, ~ hasty' => NextTurn /\ ~ hasty,
         timer' \in BOOLEAN,
         IsReady => UNCHANGED pending /\ \A w \in Waiter : answer'[w] = "waiting" => answer[w] = "waiting"
  PROVE  ConnInv'
<1>1. CASE life # "up" \/ HasConnection \/ connecting
  <2>1. sock' = sock /\ connecting' = connecting
    BY <1>1 DEF Attempt
  <2>2. ConnType' /\ Linked' /\ Dialed' /\ Single' /\ NobodyForgotten'
    BY <2>1 DEF ConnInv, ConnType, Linked, Dialed, Single, NobodyForgotten, IsReady, HasConnection
  <2>3. NeverStranded'
    BY <1>1, <2>1 DEF ConnInv, Dialed, NeverStranded, HasConnection
  <2> QED
    BY <2>2, <2>3 DEF ConnInv
<1>2. CASE life = "up" /\ ~ HasConnection /\ ~ connecting
  <2> DEFINE f == Fresh
  <2>1. f \in Socket /\ sock[f] = "none" /\ sock' = [sock EXCEPT ![f] = "dialing"] /\ connecting' = TRUE
    BY <1>2 DEF Attempt, Fresh
  <2> HIDE DEF f
  <2>2. /\ sock' \in [Socket -> SockState] /\ sock'[f] = "dialing"
        /\ \A t \in Socket : t # f => sock'[t] = sock[t]
    BY <2>1 DEF ConnInv, ConnType, SockState
  <2>3. connection = None
    BY <1>2 DEF ConnInv, Linked
  <2>4. ConnType' /\ Linked' /\ Dialed' /\ NeverStranded' /\ NobodyForgotten'
    BY <2>1, <2>2, <2>3 DEF ConnInv, ConnType, Linked, Dialed, NeverStranded, NobodyForgotten,
                            IsReady, HasConnection
  <2>5. Single'
    <3> SUFFICES ASSUME ~ hasty'
                 PROVE  /\ \A s \in Socket : sock'[s] \in Usable => connection' = s
                        /\ \A s, t \in Socket : sock'[s] # "none" /\ sock'[t] # "none" => s = t
                        /\ \A s \in Socket : sock'[s] = "dialing" => connecting' \/ life' = "closed"
      BY DEF Single
    <3>1. \A s \in Socket : sock[s] = "none"
      <4> TAKE s \in Socket
      <4>1. sock[s] \in SockState /\ sock[s] # "destroyed"
        BY DEF ConnInv, ConnType, NextTurn
      <4>2. sock[s] \notin Usable
        BY <1>2, <2>1, <2>3, DeliveryAssumption DEF ConnInv, Single, None
      <4>3. sock[s] # "dialing"
        BY <1>2 DEF ConnInv, Single
      <4> QED
        BY <4>1, <4>2, <4>3 DEF SockState, Usable
    <3> QED
      BY <2>1, <2>2, <3>1 DEF Usable
  <2> QED
    BY <2>4, <2>5 DEF ConnInv
<1> QED
  BY <1>1, <1>2 DEF ConnInv, ConnType

LEMMA ConnConnect ==
  ASSUME ConnInv, NEW s \in Socket, Connect(s), UNCHANGED hasty
  PROVE  ConnInv'
<1>1. sock[s] = "dialing" /\ connecting' = FALSE /\ UNCHANGED << life, serving, timer, flushTimer, itemVars >>
  BY DEF Connect
<1>2. CASE life = "up"
  <2>1. sock' = [sock EXCEPT ![s] = "open"] /\ connection' = s /\ connectionReady' = FALSE
    BY <1>2 DEF Connect
  <2>2. /\ sock' \in [Socket -> SockState] /\ sock'[s] = "open"
        /\ \A t \in Socket : t # s => sock'[t] = sock[t]
    BY <2>1 DEF ConnInv, ConnType, SockState
  <2>3. s # None
    BY DeliveryAssumption DEF None
  <2>4. ConnType' /\ Linked' /\ Dialed' /\ NeverStranded' /\ NobodyForgotten'
    BY <1>1, <2>1, <2>2, <2>3 DEF ConnInv, ConnType, Linked, Dialed, NeverStranded, NobodyForgotten,
                            IsReady, HasConnection, Usable
  <2>5. Single'
    BY <1>1, <2>1, <2>2 DEF ConnInv, Single, Usable
  <2> QED
    BY <2>4, <2>5 DEF ConnInv
<1>3. CASE life # "up"
  <2>1. sock' = [sock EXCEPT ![s] = "destroyed"] /\ connection' = connection /\ connectionReady' = connectionReady
    BY <1>3 DEF Connect
  <2>2. /\ sock' \in [Socket -> SockState] /\ sock'[s] = "destroyed"
        /\ \A t \in Socket : t # s => sock'[t] = sock[t]
    BY <2>1 DEF ConnInv, ConnType, SockState
  <2>3. connection # s
    BY <1>1, DeliveryAssumption DEF ConnInv, Linked, HasConnection, Usable, None
  <2>4. ConnType' /\ Linked' /\ Dialed' /\ NeverStranded'
    BY <1>1, <1>3, <2>1, <2>2, <2>3 DEF ConnInv, ConnType, Linked, Dialed, NeverStranded, HasConnection
  <2>5. NobodyForgotten'
    BY <1>1, <2>1, <2>2, <2>3 DEF ConnInv, ConnType, NobodyForgotten, IsReady, HasConnection, itemVars
  <2>6. Single'
    BY <1>1, <2>1, <2>2 DEF ConnInv, Single, Usable
  <2> QED
    BY <2>4, <2>5, <2>6 DEF ConnInv
<1> QED
  BY <1>2, <1>3

LEMMA ConnRefused ==
  ASSUME ConnInv, NEW s \in Socket, Refused(s), UNCHANGED hasty
  PROVE  ConnInv'
<1>1. /\ sock[s] = "dialing" /\ connecting' = FALSE /\ sock' = [sock EXCEPT ![s] = "none"]
      /\ timer' = (timer \/ life = "up")
      /\ UNCHANGED << life, serving, connection, connectionReady, flushTimer, answer, pending >>
  BY DEF Refused, itemVars
<1>2. /\ sock' \in [Socket -> SockState] /\ sock'[s] = "none"
      /\ \A t \in Socket : t # s => sock'[t] = sock[t]
  BY <1>1 DEF ConnInv, ConnType, SockState
<1>3. connection # s
  BY <1>1, DeliveryAssumption DEF ConnInv, Linked, HasConnection, Usable, None
<1>4. timer' \in BOOLEAN
  BY <1>1
<1>5. ConnType' /\ Linked' /\ Dialed'
  BY <1>1, <1>2, <1>3, <1>4 DEF ConnInv, ConnType, Linked, Dialed, HasConnection
<1>6. NeverStranded'
  BY <1>1 DEF NeverStranded
<1>7. NobodyForgotten'
  BY <1>1, <1>2, <1>3 DEF ConnInv, ConnType, NobodyForgotten, IsReady, HasConnection
<1>8. Single'
  BY <1>1, <1>2 DEF ConnInv, Single, Usable
<1> QED
  BY <1>5, <1>6, <1>7, <1>8 DEF ConnInv

LEMMA ConnReady ==
  ASSUME ConnInv, ItemType, NEW s \in Socket, ReadyLine(s), UNCHANGED hasty
  PROVE  ConnInv'
<1>1. /\ sock[s] = "open" /\ connectionReady' = TRUE /\ sock' = [sock EXCEPT ![s] = "greeted"]
      /\ flushTimer' = (flushTimer \/ pending # << >>)
      /\ answer' = Settle({w \in Waiter : answer[w] = "waiting"}, "true")
      /\ UNCHANGED << life, serving, connection, connecting, timer, pending >>
  BY DEF ReadyLine
<1>2. /\ sock' \in [Socket -> SockState] /\ sock'[s] = "greeted"
      /\ \A t \in Socket : t # s => sock'[t] = sock[t]
  BY <1>1 DEF ConnInv, ConnType, SockState
<1>3. flushTimer' \in BOOLEAN
  BY <1>1
<1>4. ConnType' /\ Linked' /\ Dialed' /\ NeverStranded' /\ Single'
  BY <1>1, <1>2, <1>3 DEF ConnInv, ConnType, Linked, Dialed, NeverStranded, Single, HasConnection, Usable
<1>5. \A w \in Waiter : answer'[w] # "waiting"
  BY <1>1 DEF Settle, Settled, ItemType
<1>6. NobodyForgotten'
  BY <1>1, <1>5 DEF NobodyForgotten
<1> QED
  BY <1>4, <1>6 DEF ConnInv

LEMMA ConnBroken ==
  ASSUME ConnInv, ServerGoes, UNCHANGED hasty
  PROVE  ConnInv'
<1>1. /\ serving' = FALSE /\ sock' = [s \in Socket |-> IF sock[s] \in Usable THEN "gone" ELSE sock[s]]
      /\ UNCHANGED << life, connection, connecting, connectionReady, timer, flushTimer, itemVars >>
  BY DEF ServerGoes
<1>2. /\ sock' \in [Socket -> SockState]
      /\ \A s \in Socket : sock'[s] = IF sock[s] \in Usable THEN "gone" ELSE sock[s]
  BY <1>1 DEF ConnInv, ConnType, SockState
<1>3. ConnType' /\ Linked' /\ Dialed'
  BY <1>1, <1>2 DEF ConnInv, ConnType, Linked, Dialed, HasConnection, Usable
<1>4. Single'
  BY <1>1, <1>2 DEF ConnInv, Single, Usable
<1>5. NeverStranded'
  BY <1>1, <1>2 DEF ConnInv, ConnType, NeverStranded, HasConnection, Usable
<1>6. NobodyForgotten'
  BY <1>1, <1>2 DEF ConnInv, ConnType, NobodyForgotten, IsReady, HasConnection, Usable
<1> QED
  BY <1>3, <1>4, <1>5, <1>6 DEF ConnInv

LEMMA ConnGone ==
  ASSUME ConnInv, NEW s \in Socket, CloseEvent(s), UNCHANGED hasty
  PROVE  ConnInv'
<1>1. /\ sock[s] \in {"gone", "destroyed"} /\ connecting' = FALSE /\ sock' = [sock EXCEPT ![s] = "none"]
      /\ timer' = (timer \/ life = "up")
      /\ \/ connection = s /\ connection' = None /\ connectionReady' = FALSE
         \/ connection # s /\ connection' = connection /\ connectionReady' = connectionReady
      /\ UNCHANGED << life, serving, flushTimer >>
  BY DEF CloseEvent
<1>2. /\ sock' \in [Socket -> SockState] /\ sock'[s] = "none"
      /\ \A t \in Socket : t # s => sock'[t] = sock[t]
  BY <1>1 DEF ConnInv, ConnType, SockState
<1>3. timer' \in BOOLEAN
  BY <1>1
<1>4. ConnType' /\ Linked' /\ Dialed'
  BY <1>1, <1>2, <1>3 DEF ConnInv, ConnType, Linked, Dialed, HasConnection
<1>5. NeverStranded'
  BY <1>1 DEF NeverStranded
<1>6. Single'
  BY <1>1, <1>2 DEF ConnInv, Single, Usable
<1>7. NobodyForgotten'
  BY <1>1, <1>2 DEF ConnInv, ConnType, NobodyForgotten, Single, IsReady, HasConnection
<1> QED
  BY <1>4, <1>5, <1>6, <1>7 DEF ConnInv

LEMMA ConnFailed ==
  ASSUME ConnInv, ItemType, NEW s \in Socket, WriteFails(s), UNCHANGED hasty
  PROVE  ConnInv'
<1>1. sock[s] \in {"gone", "destroyed"} /\ UNCHANGED << life, serving, flushTimer >>
  BY DEF WriteFails
<1>2. CASE UNCHANGED << answer, connVars >> /\ pending' = pending
  BY <1>1, <1>2, ConnStays DEF ConnInv, ConnType
<1>3. CASE /\ sock' = [sock EXCEPT ![s] = "destroyed"]
           /\ \/ connection = s /\ connection' = None /\ connectionReady' = FALSE
              \/ connection # s /\ connection' = connection /\ connectionReady' = connectionReady
           /\ timer' \in BOOLEAN /\ connecting' = connecting
  <2>1. /\ sock' \in [Socket -> SockState] /\ sock'[s] = "destroyed"
        /\ \A t \in Socket : t # s => sock'[t] = sock[t]
    BY <1>3 DEF ConnInv, ConnType, SockState
  <2>2. ConnType' /\ Linked'
    BY <1>1, <1>3, <2>1 DEF ConnInv, ConnType, Linked, HasConnection
  <2>3. Dialed'
    BY <1>1, <1>3, <2>1 DEF ConnInv, Dialed
  <2>4. NeverStranded'
    BY <2>1 DEF NeverStranded
  <2>5. Single'
    BY <1>1, <1>3, <2>1 DEF ConnInv, Single, Usable
  <2>6. NobodyForgotten'
    BY <1>1, <1>3, <2>1 DEF ConnInv, ConnType, NobodyForgotten, Single, IsReady, HasConnection
  <2> QED
    BY <2>2, <2>3, <2>4, <2>5, <2>6 DEF ConnInv
<1>4. CASE Settled(Head(flight[s]))
  BY <1>2, <1>4 DEF WriteFails, Requeued
<1>5. CASE ~ Settled(Head(flight[s]))
  <2>1. timer' \in BOOLEAN
    BY <1>5 DEF WriteFails
  <2> QED
    BY <1>3, <1>5, <2>1 DEF WriteFails
<1> QED
  BY <1>4, <1>5

LEMMA ConnClosed ==
  ASSUME ConnInv, Closed, UNCHANGED hasty
  PROVE  ConnInv'
<1>1. /\ life' = "closed" /\ timer' = FALSE /\ flushTimer' = FALSE
      /\ connection' = None /\ connectionReady' = FALSE /\ connecting' = FALSE
      /\ serving' = serving
      /\ sock' = IF HasConnection THEN [sock EXCEPT ![connection] = "destroyed"] ELSE sock
  BY DEF Closed
<1>2. /\ sock' \in [Socket -> SockState]
      /\ \A s \in Socket : sock'[s] = IF HasConnection /\ s = connection THEN "destroyed" ELSE sock[s]
  BY <1>1 DEF ConnInv, ConnType, SockState
<1>3. ConnType' /\ Linked' /\ Dialed' /\ NeverStranded' /\ NobodyForgotten'
  BY <1>1, <1>2 DEF ConnInv, ConnType, Linked, Dialed, NeverStranded, NobodyForgotten, IsReady, HasConnection
<1>4. Single'
  <2>1. ~ hasty => \A s \in Socket : sock'[s] \notin Usable
    BY <1>2, DeliveryAssumption DEF ConnInv, ConnType, Single, HasConnection, Usable, None
  <2> QED
    BY <1>1, <1>2, <2>1 DEF ConnInv, ConnType, Single, HasConnection, Usable
<1> QED
  BY <1>3, <1>4 DEF ConnInv

-------------------------------------------------------------------------------
(***************************************************************************)
(* The theorems.                                                           *)
(***************************************************************************)
IpcInv == ConnInv /\ ItemInv

LEMMA IpcInit == Init => IpcInv
<1> SUFFICES ASSUME Init PROVE IpcInv
  OBVIOUS
<1>1. /\ << >> \in Seq(Item) /\ ToSet(<< >>) = {} /\ IsInjective(<< >>) /\ Len(<< >>) = 0
  BY NoItem
<1>2. ConnType /\ Linked /\ Dialed /\ Single /\ NobodyForgotten /\ NeverStranded
  BY DeliveryAssumption DEF Init, ConnType, Linked, Dialed, Single, NobodyForgotten, NeverStranded,
                            HasConnection, IsReady, None, SockState, Usable
<1>3. pending = << >> /\ \A s \in Socket : flight[s] = << >>
  BY DEF Init
<1>4. ItemType
  <2>1. 0 <= MaxQueue
    BY DeliveryAssumption
  <2>2. flight \in [Socket -> Seq(Item)]
    BY <1>1 DEF Init
  <2> QED
    BY <1>1, <1>3, <2>1, <2>2 DEF Init, ItemType
<1>5. Apart
  BY <1>1, <1>3 DEF Apart
<1>6. \A i \in Item : Accounted(i)
  BY <1>1, <1>3 DEF Init, Accounted
<1> QED
  BY <1>2, <1>4, <1>5, <1>6 DEF IpcInv, ConnInv, ItemInv

LEMMA ConnNext ==
  ASSUME ConnInv, ItemType, [Next]_vars
  PROVE  ConnInv'
<1>1. ASSUME NEW s \in Socket, Event(s) PROVE ConnInv'
  <2>1. CASE WriteDone(s)
    <3>1. /\ UNCHANGED << life, serving, connVars, flushTimer, hasty, pending >>
          /\ answer' = Settle({Head(flight[s])}, "true")
      BY <1>1, <2>1 DEF WriteDone, Event
    <3>2. \A w \in Waiter : answer'[w] = "waiting" => answer[w] = "waiting"
      BY <3>1 DEF Settle
    <3> QED
      BY <3>1, <3>2, ConnStays DEF ConnInv, ConnType
  <2>2. CASE WriteFails(s)
    BY <1>1, <2>2, ConnFailed DEF Event
  <2> QED
    BY <1>1, <2>1, <2>2, ConnConnect, ConnRefused, ConnReady, ConnGone DEF Event
<1>2. CASE FlushTimer /\ UNCHANGED hasty
  <2>1. UNCHANGED << life, serving, connVars, hasty >> /\ flushTimer' = FALSE
    BY <1>2 DEF FlushTimer
  <2>2. IsReady => pending' = << >> /\ answer' = Settle(ToSet(pending) \cap late, "false")
    BY <1>2 DEF FlushTimer
  <2>3. IsReady => \A w \in Waiter : answer'[w] = "waiting" => answer[w] = "waiting"
    BY <2>2 DEF Settle
  <2> QED
    BY <2>1, <2>2, <2>3, ConnStays DEF ConnInv, ConnType
<1>3. CASE ReconnectTimer /\ UNCHANGED hasty
  <2>1. /\ Attempt /\ NextTurn /\ timer' = FALSE
        /\ UNCHANGED << life, serving, connection, connectionReady, flushTimer, answer, pending, hasty >>
    BY <1>3 DEF ReconnectTimer, itemVars
  <2> QED
    BY <2>1, ConnAttempt DEF ConnInv, ConnType
<1>4. ASSUME NEW x \in Item \cup Waiter, Clock(x) PROVE ConnInv'
  <2>1. CASE x \in Item /\ Expire(x)
    <3>1. UNCHANGED << life, serving, connVars, flushTimer, pending, answer, hasty >>
      BY <1>4, <2>1 DEF Expire, Clock
    <3> QED
      BY <3>1, ConnStays DEF ConnInv, ConnType
  <2>2. CASE x \in Item /\ Timeout(x)
    <3>1. /\ UNCHANGED << life, serving, connVars, flushTimer, hasty >>
          /\ pending' = RemoveFirst(pending, x) /\ answer' = Settle({x}, "false")
      BY <1>4, <2>2 DEF Timeout, Clock
    <3>2. pending = << >> => pending' = << >>
      BY <3>1 DEF RemoveFirst
    <3>3. \A w \in Waiter : answer'[w] = "waiting" => answer[w] = "waiting"
      BY <3>1 DEF Settle
    <3>4. ConnType' /\ Linked' /\ Dialed' /\ Single' /\ NeverStranded'
      BY <3>1 DEF ConnInv, ConnType, Linked, Dialed, Single, NeverStranded, HasConnection, connVars
    <3>5. NobodyForgotten'
      BY <3>1, <3>2, <3>3 DEF ConnInv, NobodyForgotten, IsReady, HasConnection, connVars
    <3> QED
      BY <3>4, <3>5 DEF ConnInv
  <2>3. CASE x \in Waiter /\ GiveUp(x)
    <3>1. /\ UNCHANGED << life, serving, connVars, flushTimer, pending, hasty >>
          /\ answer' = [answer EXCEPT ![x] = "false"]
      BY <1>4, <2>3 DEF GiveUp, Clock
    <3>2. \A w \in Waiter : answer'[w] = "waiting" => answer[w] = "waiting"
      BY <3>1 DEF ItemType
    <3> QED
      BY <3>1, <3>2, ConnStays DEF ConnInv, ConnType
  <2> QED
    BY <1>4, <2>1, <2>2, <2>3 DEF Clock
<1>5. CASE ServerComes /\ UNCHANGED hasty
  <2>1. serving' = TRUE /\ UNCHANGED << life, connVars, flushTimer, pending, answer, hasty >>
    BY <1>5 DEF ServerComes, itemVars
  <2> QED
    BY <2>1, ConnStays DEF ConnInv, ConnType
<1>6. CASE Close /\ UNCHANGED hasty
  <2>1. /\ life = "up" /\ life' = "closing"
        /\ UNCHANGED << serving, connVars, flushTimer, pending, answer, hasty >>
    BY <1>6 DEF Close, itemVars
  <2>2. ConnType' /\ Linked' /\ Dialed' /\ Single' /\ NeverStranded'
    BY <2>1 DEF ConnInv, ConnType, Linked, Dialed, Single, NeverStranded, HasConnection, connVars
  <2>3. NobodyForgotten'
    BY <2>1 DEF ConnInv, NobodyForgotten, IsReady, HasConnection, connVars
  <2> QED
    BY <2>2, <2>3 DEF ConnInv
<1>7. ASSUME NEW i \in Item, Broadcast(i) PROVE ConnInv'
  <2>1. /\ UNCHANGED << life, serving, connection, connectionReady, timer, flushTimer >>
        /\ hasty' = (hasty \/ ~ NextTurn)
    BY <1>7 DEF Broadcast
  <2>2. hasty' \in BOOLEAN /\ (~ hasty' => NextTurn /\ ~ hasty)
    BY <2>1
  <2>3. \A w \in Waiter : answer'[w] = answer[w]
    BY <1>7, DeliveryAssumption DEF Broadcast, ItemType
  <2>4. CASE sock' = sock /\ connecting' = connecting /\ (IsReady => pending' = pending)
    <3>1. ConnType' /\ Linked' /\ Dialed' /\ NeverStranded'
      BY <2>1, <2>2, <2>4 DEF ConnInv, ConnType, Linked, Dialed, NeverStranded, HasConnection
    <3>2. Single'
      BY <2>1, <2>2, <2>4 DEF ConnInv, Single
    <3>3. NobodyForgotten'
      BY <2>1, <2>2, <2>3, <2>4 DEF ConnInv, NobodyForgotten, IsReady, HasConnection
    <3> QED
      BY <3>1, <3>2, <3>3 DEF ConnInv
  <2>5. CASE ~ IsReady /\ Attempt
    BY <2>1, <2>2, <2>5, ConnAttempt DEF ConnInv, ConnType
  <2> QED
    BY <1>7, <2>4, <2>5 DEF Broadcast
<1>8. ASSUME NEW w \in Waiter, WaitUntilReady(w) PROVE ConnInv'
  <2>1. /\ UNCHANGED << life, serving, connection, connectionReady, timer, flushTimer, pending >>
        /\ hasty' = (hasty \/ ~ NextTurn)
    BY <1>8 DEF WaitUntilReady
  <2>2. hasty' \in BOOLEAN /\ (~ hasty' => NextTurn /\ ~ hasty)
    BY <2>1
  <2>3. CASE sock' = sock /\ connecting' = connecting
    <3>1. ConnType' /\ Linked' /\ Dialed' /\ NeverStranded'
      BY <2>1, <2>2, <2>3 DEF ConnInv, ConnType, Linked, Dialed, NeverStranded, HasConnection
    <3>2. Single'
      BY <2>1, <2>2, <2>3 DEF ConnInv, Single
    <3>3. IsReady => \A v \in Waiter : answer'[v] = "waiting" => answer[v] = "waiting"
      BY <1>8 DEF WaitUntilReady, ItemType
    <3>4. NobodyForgotten'
      BY <2>1, <2>2, <2>3, <3>3 DEF ConnInv, NobodyForgotten, IsReady, HasConnection
    <3> QED
      BY <3>1, <3>2, <3>4 DEF ConnInv
  <2>4. CASE ~ IsReady /\ Attempt
    BY <2>1, <2>2, <2>4, ConnAttempt DEF ConnInv, ConnType
  <2> QED
    BY <1>8, <2>3, <2>4 DEF WaitUntilReady
<1>9. CASE UNCHANGED vars
  BY <1>9, ConnStays DEF vars, ConnInv, ConnType, itemVars
<1> QED
  BY <1>1, <1>2, <1>3, <1>4, <1>5, <1>6, <1>7, <1>8, <1>9, ConnBroken, ConnClosed DEF Next, Timer

LEMMA ItemNext ==
  ASSUME ItemInv, ConnType, [Next]_vars
  PROVE  ItemInv'
<1>1. ASSUME NEW s \in Socket, Event(s) PROVE ItemInv'
  <2>1. CASE Connect(s) \/ Refused(s)
    BY <2>1, ItemsStay DEF Connect, Refused
  <2>2. CASE ReadyLine(s)
    <3>1. /\ UNCHANGED << pending, flight, late, local >>
          /\ answer' = Settle({w \in Waiter : answer[w] = "waiting"}, "true")
      BY <2>2 DEF ReadyLine
    <3>2. /\ answer' \in [Item \cup Waiter -> {"new", "waiting", "true", "false"}]
          /\ \A x \in Item \cup Waiter :
               answer'[x] = IF x \in {w \in Waiter : answer[w] = "waiting"} /\ answer[x] \notin {"true", "false"}
                              THEN "true" ELSE answer[x]
      BY <3>1, SettlesSome DEF ItemInv
    <3>3. \A i \in Item : answer'[i] = answer[i]
      BY <3>2, DeliveryAssumption
    <3> QED
      BY <3>1, <3>2, <3>3, ItemsWait DEF ItemInv, ItemType
  <2>3. CASE CloseEvent(s)
    <3>1. Requeue(flight[s], s) /\ UNCHANGED << late, local >>
      BY <2>3 DEF CloseEvent
    <3> QED
      BY <3>1, ItemsRequeued
  <2> QED
    BY <1>1, <2>1, <2>2, <2>3, ItemsDone, ItemsFailed DEF Event
<1>2. CASE FlushTimer
  <2>1. CASE IsReady
    BY <1>2, <2>1, ItemsFlushed
  <2>2. CASE ~ IsReady
    BY <1>2, <2>2, ItemsStay DEF FlushTimer, itemVars
  <2> QED
    BY <2>1, <2>2
<1>3. CASE ReconnectTimer \/ ServerGoes \/ ServerComes \/ Close
  BY <1>3, ItemsStay DEF ReconnectTimer, ServerGoes, ServerComes, Close
<1>4. ASSUME NEW x \in Item \cup Waiter, Clock(x) PROVE ItemInv'
  <2>1. CASE x \in Item /\ Expire(x)
    <3>1. UNCHANGED << pending, flight, answer, local >> /\ late' = late \cup {x}
      BY <2>1 DEF Expire
    <3> QED
      BY <2>1, <3>1, ItemsWait DEF ItemInv, ItemType
  <2>2. CASE x \in Waiter /\ GiveUp(x)
    <3>1. UNCHANGED << pending, flight, late, local >> /\ answer' = [answer EXCEPT ![x] = "false"]
      BY <2>2 DEF GiveUp
    <3>2. \A i \in Item : i # x
      BY <2>2, DeliveryAssumption
    <3> QED
      BY <3>1, <3>2, ItemsWait DEF ItemInv, ItemType
  <2> QED
    BY <1>4, <2>1, <2>2, ItemsTimed DEF Clock
<1>5. ASSUME NEW w \in Waiter, WaitUntilReady(w) PROVE ItemInv'
  <2>1. UNCHANGED << pending, flight, late, local >>
    BY <1>5 DEF WaitUntilReady
  <2>2. PICK v \in {"true", "waiting", "false"} : answer' = [answer EXCEPT ![w] = v]
    BY <1>5 DEF WaitUntilReady
  <2>3. \A i \in Item : i # w
    BY DeliveryAssumption
  <2> QED
    BY <2>1, <2>2, <2>3, ItemsWait DEF ItemInv, ItemType
<1>6. CASE UNCHANGED vars
  BY <1>6, ItemsStay DEF vars
<1> QED
  BY <1>1, <1>2, <1>3, <1>4, <1>5, <1>6, ItemsBroadcast, ItemsClosed DEF Next, Timer

LEMMA IpcInvariant == Spec => []IpcInv
<1>1. IpcInv /\ [Next]_vars => IpcInv'
  BY ConnNext, ItemNext DEF IpcInv, ConnInv, ItemInv
<1> QED
  BY IpcInit, <1>1, PTL DEF Spec

\* Who is held once is in one place.
LEMMA HeldOnce ==
  ASSUME ItemInv, NEW i \in Item, answer[i] = "waiting"
  PROVE  Cardinality(Places(i)) = 1
<1>1. Apart /\ Held(i) /\ pending \in Seq(Item) /\ \A s \in Socket : flight[s] \in Seq(Item)
  BY DEF ItemInv, ItemType, Accounted
<1>2. ASSUME NEW q \in Seq(Item), IsInjective(q), i \in ToSet(q)
      PROVE  \E k : In(q, i) = {k}
  BY <1>2 DEF ToSet, IsInjective, In
<1>3. ASSUME NEW q \in Seq(Item), i \notin ToSet(q) PROVE In(q, i) = {}
  BY <1>3 DEF ToSet, In
<1>4. \E p : Places(i) = {p}
  <2>1. CASE i \in ToSet(pending)
    <3>1. \A s \in Socket : In(flight[s], i) = {}
      BY <1>1, <1>3, <2>1 DEF Apart
    <3>2. PICK k : In(pending, i) = {k}
      BY <1>1, <1>2, <2>1 DEF Apart
    <3>3. Places(i) = {<< None, k >>}
      BY <3>1, <3>2 DEF Places
    <3> QED
      BY <3>3
  <2>2. ASSUME NEW s \in Socket, i \in ToSet(flight[s]) PROVE \E p : Places(i) = {p}
    <3>1. In(pending, i) = {} /\ \A t \in Socket : t # s => In(flight[t], i) = {}
      BY <1>1, <1>3, <2>2 DEF Apart
    <3>2. PICK k : In(flight[s], i) = {k}
      BY <1>1, <1>2, <2>2 DEF Apart
    <3>3. Places(i) = {<< s, k >>}
      <4>1. \A t \in Socket : {t} \X In(flight[t], i) = IF t = s THEN {<< s, k >>} ELSE {}
        BY <3>1, <3>2
      <4> QED
        BY <3>1, <4>1 DEF Places
    <3> QED
      BY <3>3
  <2> QED
    BY <1>1, <2>1, <2>2 DEF Held
<1> QED
  BY <1>4, FS_Singleton

\* However often connections break, and whatever fails, a broadcast that is
\* waited for is queued once or in flight once, and the process's own clients
\* get it once at most, and before it is reported as sent.
THEOREM KeptOnce == Spec => []DeliveryInv
<1>1. IpcInv => DeliveryInv
  BY HeldOnce DEF IpcInv, ConnInv, ItemInv, ConnType, ItemType, Accounted,
                  DeliveryInv, TypeOK, InOnePlace, LocalOnce
<1> QED
  BY IpcInvariant, <1>1, PTL

\* A process has one connection at a time, nobody waits for the one that is
\* ready, and a process that is out of touch is dialing or going to.
THEOREM StaysInTouch == Spec => []ConnectionInv
<1>1. ASSUME Single PROVE OneConnection
  <2> SUFFICES ASSUME ~ hasty
               PROVE  Cardinality({s \in Socket : sock[s] \in {"dialing", "open", "greeted"}}) <= 1
    BY DEF OneConnection
  <2> DEFINE T == {s \in Socket : sock[s] \in {"dialing", "open", "greeted"}}
  <2>1. \A s, t \in T : s = t
    BY <1>1 DEF Single
  <2>2. T = {} \/ \E s : T = {s}
    BY <2>1
  <2> HIDE DEF T
  <2>3. Cardinality(T) \in {0, 1}
    BY <2>2, FS_EmptySet, FS_Singleton
  <2> QED
    BY <2>3 DEF T
<1>2. IpcInv => ConnectionInv
  BY <1>1 DEF IpcInv, ConnInv, ConnectionInv
<1> QED
  BY IpcInvariant, <1>2, PTL
================================================================================
