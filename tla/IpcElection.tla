------------------------------ MODULE IpcElection ------------------------------
(***************************************************************************)
(* Who of the relay's processes serves the Unix socket, and so leads them  *)
(* (cross-process-broadcaster.js): the one that binds it.                  *)
(*                                                                         *)
(* A step of a process is one turn of its event loop, except where it      *)
(* makes several system calls on files that others use: there each call is *)
(* a step and the process does nothing else in between (busy).  The        *)
(* "listening" event follows bind before any other event of the process,   *)
(* so serverStarting is never seen.                                        *)
(*                                                                         *)
(* Outside src/: a socket file outlives its process when that crashes;     *)
(* server.close() unlinks the path it listens on, whoever has bound it     *)
(* since.                                                                  *)
(***************************************************************************)
EXTENDS Integers, FiniteSets

CONSTANTS
  Proc,        \* processes of the relay
  MaxStarts,   \* bound: starts of a process, all in all
  MaxCrashes,  \* bound: processes that end without close()
  MaxCloses,   \* bound: processes that call close()
  MaxLapses    \* bound: see lapses

ASSUME ElectionAssumption ==
  /\ Proc # {} /\ {"none", "stale"} \cap Proc = {}   \* Nobody and Stale are not processes
  /\ MaxStarts \in Nat /\ MaxCrashes \in Nat /\ MaxCloses \in Nat /\ MaxLapses \in Nat

VARIABLES
  lives,    \* "closing" until the leadership handlers are through, "unbound"
            \* until the last unlink
  server,   \* the processes whose server listens; isServer while they are "up"
  file,     \* socketPath: who bound it, Stale if that one is gone, or Nobody
  lock,     \* lockPath: who made it, Stale if that one is gone, or Nobody
  old,      \* the lock is older than lockStaleMs
  link,     \* the connection of a process, and to whose server
  timers,   \* the processes with a reconnectTimer
  rec,      \* where recoverStaleSocket stands
  starts, crashes, closes,
  lapses    \* probes of a live server that timed out, locks that got old under
            \* their holder, crashes of a holder, listen() that failed

budget == << starts, crashes, closes, lapses >>
electionVars == << lives, server, file, lock, old, link, timers, rec, budget >>

Nobody == "none"
Stale == "stale"

\* connecting is stage "dial", hasConnection() the three after it: the
\* connection is "cut" when the other end is gone.
Link == [stage : {"none", "dial", "up", "ready", "cut"}, to : Proc \cup {Nobody}]
Unlinked == [stage |-> "none", to |-> Nobody]

\* "steal" and "reopen": in acquireRecoveryLock; "alive" and "dead": what
\* probeSocket is going to answer; "bind": in recoverStaleSocket, after unlink.
Rec == {"no", "steal", "reopen", "alive", "dead", "bind"}
Busy(p) == rec[p] \in {"steal", "reopen", "bind"}

ElectionInit ==
  /\ lives = [p \in Proc |-> "down"] /\ server = {}
  /\ file \in {Nobody, Stale} /\ lock = Nobody /\ old = FALSE
  /\ link = [p \in Proc |-> Unlinked] /\ timers = {}
  /\ rec = [p \in Proc |-> "no"]
  /\ starts = 0 /\ crashes = 0 /\ closes = 0 /\ lapses = 0

Up(p) == lives[p] = "up" /\ ~ Busy(p)
Lapse == lapses < MaxLapses /\ lapses' = lapses + 1
Live(f) == f \in server

-------------------------------------------------------------------------------
(***************************************************************************)
(* The server and the connection to it.                                    *)
(***************************************************************************)
\* connectToServer, up to createConnection
Dialing(p) ==
  IF link[p].stage = "none" THEN [link EXCEPT ![p].stage = "dial"] ELSE link

\* tryCreateServer: bind fails when the path exists, and either way a
\* connection is tried.  A server stays the only one of its process.
CreateServer(p) ==
  /\ IF p \in server THEN UNCHANGED << server, file, link >>
     ELSE IF file = Nobody
       THEN server' = server \cup {p} /\ file' = p /\ link' = Dialing(p)
       ELSE UNCHANGED << server, file >> /\ link' = Dialing(p)

\* init()
Start(p) ==
  /\ lives[p] = "down" /\ starts < MaxStarts
  /\ starts' = starts + 1
  /\ lives' = [lives EXCEPT ![p] = "up"]
  /\ CreateServer(p)
  /\ UNCHANGED << lock, old, timers, rec, crashes, closes, lapses >>

\* ensureConnectionAttempt
EnsureAttempt(p) ==
  IF link[p].stage # "none" THEN UNCHANGED << server, file, link >>
  ELSE IF p \in server \/ file # Nobody
    THEN link' = Dialing(p) /\ UNCHANGED << server, file >>
    ELSE CreateServer(p)

TimerFires(p) ==
  /\ Up(p) /\ p \in timers
  /\ timers' = timers \ {p}
  /\ EnsureAttempt(p)
  /\ UNCHANGED << lives, lock, old, rec, budget >>

\* broadcast() and waitUntilReady() do not wait for the timer.
Ask(p) ==
  /\ Up(p) /\ link[p].stage = "none"
  /\ EnsureAttempt(p)
  /\ UNCHANGED << lives, lock, old, timers, rec, budget >>

\* listen() fails for another reason.
ListenFails(p) ==
  /\ Up(p) /\ p \in timers /\ link[p].stage = "none" /\ p \notin server /\ file = Nobody
  /\ Lapse
  /\ UNCHANGED << lives, server, file, lock, old, link, timers, rec, starts, crashes, closes >>

\* The "connect" event
Connected(p) ==
  /\ Up(p) /\ link[p].stage = "dial" /\ Live(file)
  /\ link' = [link EXCEPT ![p] = [stage |-> "up", to |-> file]]
  /\ UNCHANGED << lives, server, file, lock, old, timers, rec, budget >>

\* handleClientConnection answers with READY_MESSAGE.
Ready(p) ==
  /\ Up(p) /\ link[p].stage = "up"
  /\ link' = [link EXCEPT ![p].stage = "ready"]
  /\ UNCHANGED << lives, server, file, lock, old, timers, rec, budget >>

\* The "close" event
Disconnected(p) ==
  /\ Up(p) /\ link[p].stage = "cut"
  /\ link' = [link EXCEPT ![p] = Unlinked]
  /\ timers' = timers \cup {p}
  /\ UNCHANGED << lives, server, file, lock, old, rec, budget >>

\* Connections whose ends are gone
Cut(ends) ==
  [p \in Proc |->
     IF p \in ends THEN Unlinked
     ELSE IF link[p].to \in ends THEN [stage |-> "cut", to |-> Nobody] ELSE link[p]]

-------------------------------------------------------------------------------
(***************************************************************************)
(* recoverStaleSocket                                                      *)
(***************************************************************************)
Probe == IF Live(file) THEN "alive" ELSE "dead"

Probing(p) == lock' = p /\ old' = FALSE /\ rec' = [rec EXCEPT ![p] = Probe]

\* Mutants: without the lock; a lock is never too old.
AcquireAnyway(p) == Probing(p)
AcquireFree(p) == IF lock = Nobody THEN Probing(p) ELSE UNCHANGED << lock, old, rec >>
\* The first half of acquireRecoveryLock: open, or stat
Acquire(p) ==
  \/ lock = Nobody /\ Probing(p)
  \/ lock # Nobody /\ old /\ rec' = [rec EXCEPT ![p] = "steal"] /\ UNCHANGED << lock, old >>
  \/ lock # Nobody /\ ~ old /\ UNCHANGED << lock, old, rec >>

\* ECONNREFUSED or ENOENT: the "error" and "close" events.  A probe that is on
\* its way has the lock.
DialRefused(p) ==
  /\ Up(p) /\ link[p].stage = "dial" /\ ~ Live(file)
  /\ link' = [link EXCEPT ![p] = Unlinked]
  /\ timers' = timers \cup {p}
  /\ IF rec[p] = "no" THEN Acquire(p) ELSE UNCHANGED << lock, old, rec >>
  /\ UNCHANGED << lives, server, file, budget >>

\* The lock that was found too old is unlinked, or what others put in its place.
Steal(p) ==
  /\ rec[p] = "steal"
  /\ lock' = Nobody /\ old' = FALSE
  /\ rec' = [rec EXCEPT ![p] = "reopen"]
  /\ UNCHANGED << lives, server, file, link, timers, budget >>

Reopen(p) ==
  /\ rec[p] = "reopen"
  /\ \/ lock = Nobody /\ Probing(p)
     \/ lock # Nobody /\ rec' = [rec EXCEPT ![p] = "no"] /\ UNCHANGED << lock, old >>
  /\ UNCHANGED << lives, server, file, link, timers, budget >>

\* releaseLock unlinks whatever lock there is.
ReleaseLock == lock' = Nobody /\ old' = FALSE

ProbeAlive(p) ==
  /\ ~ Busy(p) /\ rec[p] = "alive"
  /\ link' = IF lives[p] = "up" THEN Dialing(p) ELSE link
  /\ rec' = [rec EXCEPT ![p] = "no"] /\ ReleaseLock
  /\ UNCHANGED << lives, server, file, timers, budget >>

\* No answer, or none within staleProbeTimeoutMs
ProbeDead(p) ==
  /\ lives[p] = "up"
  /\ \/ rec[p] = "dead" /\ UNCHANGED lapses
     \/ rec[p] = "alive" /\ Lapse
  /\ file' = Nobody
  /\ rec' = [rec EXCEPT ![p] = "bind"]
  /\ UNCHANGED << lives, server, lock, old, link, timers, starts, crashes, closes >>

RecoveryEnds(p) ==
  \/ /\ rec[p] = "bind" /\ CreateServer(p)
     /\ rec' = [rec EXCEPT ![p] = "no"] /\ ReleaseLock
     /\ UNCHANGED << lives, timers, budget >>
  \/ /\ rec[p] = "dead" /\ lives[p] \in {"closing", "unbound"}
     /\ rec' = [rec EXCEPT ![p] = "no"] /\ ReleaseLock
     /\ UNCHANGED << lives, server, file, link, timers, budget >>

\* lockStaleMs pass: the holder is gone, or slower than anyone expects.
LockAges ==
  /\ lock # Nobody /\ ~ old
  /\ old' = TRUE
  /\ IF lock = Stale THEN UNCHANGED lapses ELSE Lapse
  /\ UNCHANGED << lives, server, file, lock, link, timers, rec, starts, crashes, closes >>

-------------------------------------------------------------------------------
(***************************************************************************)
(* The end of a process.                                                   *)
(***************************************************************************)
\* close(): no longer the leader, but its server goes on until the leadership
\* handlers have ended.
CloseProcess(p) ==
  /\ Up(p) /\ closes < MaxCloses
  /\ closes' = closes + 1
  /\ lives' = [lives EXCEPT ![p] = "closing"]
  /\ UNCHANGED << server, file, lock, old, link, timers, rec, starts, crashes, lapses >>

\* What the files say when a process is gone.
Abandon(p) ==
  /\ lock' = IF lock = p THEN Stale ELSE lock
  /\ rec' = [rec EXCEPT ![p] = "no"]
  /\ UNCHANGED old

\* Connections destroyed, the server closed; its path may be another's by now.
\* Without a server that is the end of the process.
Unbind(p) ==
  /\ lives[p] = "closing" /\ ~ Busy(p)
  /\ timers' = timers \ {p}
  /\ link' = Cut({p})
  /\ server' = server \ {p}
  /\ IF p \in server
       THEN /\ lives' = [lives EXCEPT ![p] = "unbound"] /\ file' = Nobody
            /\ UNCHANGED << lock, old, rec >>
       ELSE lives' = [lives EXCEPT ![p] = "down"] /\ Abandon(p) /\ UNCHANGED file
  /\ UNCHANGED budget

\* The unlink after server.close(), and the end of the process
UnlinkAgain(p) ==
  /\ lives[p] = "unbound"
  /\ file' = Nobody
  /\ lives' = [lives EXCEPT ![p] = "down"] /\ Abandon(p)
  /\ UNCHANGED << server, link, timers, budget >>

Crash(p) ==
  /\ lives[p] # "down" /\ crashes < MaxCrashes
  /\ crashes' = crashes + 1
  /\ IF rec[p] = "no" THEN UNCHANGED lapses ELSE Lapse
  /\ lives' = [lives EXCEPT ![p] = "down"] /\ Abandon(p)
  /\ server' = server \ {p}
  /\ file' = IF file = p THEN Stale ELSE file
  /\ link' = Cut({p})
  /\ timers' = timers \ {p}
  /\ UNCHANGED << starts, closes >>

-------------------------------------------------------------------------------
\* What a process does without being asked.
Events(p) == Connected(p) \/ Ready(p) \/ Disconnected(p) \/ DialRefused(p)
Recovery(p) == Steal(p) \/ Reopen(p) \/ ProbeAlive(p) \/ ProbeDead(p) \/ RecoveryEnds(p)
Ending(p) == Unbind(p) \/ UnlinkAgain(p)

ElectionNext ==
  \/ LockAges
  \/ \E p \in Proc :
       \/ TimerFires(p) \/ Events(p) \/ Recovery(p) \/ Ending(p)
       \/ Start(p) \/ Ask(p) \/ ListenFails(p) \/ CloseProcess(p) \/ Crash(p)

\* Timers fire, events are handled, a probe ends in time, time passes.  Nobody
\* has to start, end or fail.
ElectionSpec ==
  /\ ElectionInit /\ [][ElectionNext]_electionVars
  /\ WF_electionVars(LockAges)
  /\ \A p \in Proc :
       /\ WF_electionVars(TimerFires(p)) /\ WF_electionVars(Events(p))
       /\ WF_electionVars(Recovery(p)) /\ WF_electionVars(Ending(p))
================================================================================
