------------------------------ MODULE UpgradeProps ------------------------------
(***************************************************************************)
(* What the guarded upgrade promises (bin/mdb/upgrade.js).                 *)
(***************************************************************************)
EXTENDS Upgrade

\* Types: the phases, the flags and the machine stay within their sets.
TypeOK ==
  /\ plan \in Plan /\ pc \in Forward \cup Rollback \cup Final /\ flags \subseteq Flag
  /\ sys \in System /\ free \in Int /\ low \in Int /\ low <= free
  /\ failures \in [upgrade : 0..MaxFailures, rollback : 0..MaxFailures] /\ early \in BOOLEAN

\* A complete copy of the database the upgrade began with exists at every
\* moment, in place, moved away or copied, whatever fails, in the upgrade or in
\* the rollback, and wherever the script is killed.
DataIsSafe == "old" \in {sys.data, sys.old, sys.cold}

\* Whatever failed in the upgrade, and however much of it had taken effect, the
\* rollback gets stuck only when a command of its own fails.
RollbackWorks == pc = "stuck" => failures.rollback > 0

\* An upgrade that was let in, and of which no command fails, is not rolled back,
\* but for lack of room after the export, and then before the server is stopped:
\* inspectEnvironment asks for all that the steps to come depend on.
Warranted ==
  pc \in {"rolled back", "stuck"} /\ failures.upgrade + failures.rollback = 0 =>
    "mdbStopped" \notin flags /\ free < RequiredNow

\* A rollback that says it is complete is: the old binary, configuration and
\* database, in service, and the relay on.
RolledBack ==
  pc = "rolled back" =>
    /\ sys.binary = "old" /\ sys.config = "old" /\ sys.data = "old"
    /\ Served = "old" /\ sys.app

\* An upgrade that says it is complete is: the new version serves the whole
\* database, under the new configuration, the relay is on, and the old
\* database is kept.
Completed ==
  pc = "done" =>
    /\ sys.binary = "new" /\ sys.data \in {"new", "newer"} /\ Served = "new" /\ sys.app
    /\ sys.config = (IF plan.changes THEN "new" ELSE "old")
    /\ "old" \in {sys.old, sys.cold}

\* While the relay is on, the database is the old one untouched, or a whole new
\* one in service, never one that is half replaced.  (When pm2 restarts the relay
\* and reports that it failed, the code rolls back under a relay that runs.)
Matched ==
  sys.app /\ ~ early =>
    \/ sys.data = "old" /\ sys.binary = "old" /\ sys.config = "old" /\ Served # "new"
    \/ sys.data \in {"new", "newer"} /\ Served = "new"

\* What the relay wrote to the upgraded database is never thrown away, with
\* that same exception.
WritesKept == [][sys.data = "newer" => sys'.data = "newer" \/ early]_vars

\* The checks before and after the export leave room for everything that
\* follows, the rollback's copies included.
NeverFull == low >= 0

\* The machine is never lost, nor anything on it of the wrong kind.
UpgradeInv == TypeOK /\ DataIsSafe

\* However the script ends, and whenever the relay is on, binary, configuration,
\* database and service belong together.
NothingHalfDone == RolledBack /\ Completed /\ Matched

\* What is looked at before the first change is enough: of an upgrade that was
\* let in only commands that fail can spoil anything.
ChecksSuffice == RollbackWorks /\ Warranted /\ NeverFull
================================================================================
