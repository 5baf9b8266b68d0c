-------------------------------- MODULE Upgrade --------------------------------
(***************************************************************************)
(* The guarded upgrade of the database server, bin/mdb/upgrade.js: its     *)
(* phases, and the rollback that undoes them when one fails.               *)
(*                                                                         *)
(* A command that fails may have done nothing, part of its work, or all of *)
(* it; the script may be killed between any two commands.  A machine may   *)
(* have one of the obstacles that inspectEnvironment looks for, and each   *)
(* does its harm if it is let through.  `test -e` tells the truth, and     *)
(* nobody else uses the disk.                                              *)
(***************************************************************************)
EXTENDS Integers, FiniteSets

CONSTANTS
  DataBytes, SnapshotBytes, DumpBytes, UnpackedBytes,  \* sizes found by du, stat and tar
  GiB,           \* headroom of every check; a database upgraded in place grows by no more
  FreeAtStart,   \* free bytes the disk may start with
  MaxFailures    \* commands that fail in a run

ASSUME UpgradeAssumption ==
  /\ {DataBytes, SnapshotBytes, DumpBytes, UnpackedBytes, GiB, MaxFailures} \subseteq Nat
  /\ UnpackedBytes <= DataBytes /\ DumpBytes <= DataBytes /\ FreeAtStart \subseteq Nat

VARIABLES
  plan,      \* options and context: execute, strategy, changes (configChanges), obstacles
  pc,
  flags,     \* fields of `state` that are set
  sys,       \* the machine
  free, low, \* free bytes, and the least there ever were
  failures,  \* commands that failed in the upgrade and in its rollback
  early      \* pm2 restarted the relay, and said it failed

vars == << plan, pc, flags, sys, free, low, failures, early >>

\* The backup root lies in the data directory, or on another filesystem; dumps
\* are written elsewhere, or on another filesystem; snapshots go to S3; the
\* configuration has an option only an operator can replace; the version is too
\* old to be upgraded in place.
Obstacle == {"backup inside", "backup apart", "dump elsewhere", "dump apart", "s3", "review", "too old"}
Plan == [execute : BOOLEAN, strategy : {"dump", "dumpless"}, changes : BOOLEAN,
         obstacles : {{}} \cup {{o} : o \in Obstacle}]
Meets(S) == plan.obstacles \cap S # {}
Flag == {"pm2Stopped", "mdbStopped", "normalMdbStarted", "backupReady", "dataMoveStarted",
         "configInstallStarted", "binaryInstallStarted", "transientUnit", "importTempPath"}
Forward == {"inspect", "download", "pm2 stop", "drain", "export", "backup", "stop", "config",
            "data", "binary", "unit", "wait", "start", "validate", "pm2 restart"}
Rollback == {"r.unit", "r.stop", "r.aside", "r.restore", "r.clear", "r.binary", "r.config",
             "r.start", "r.health", "r.pm2"}
Final == {"refused", "dry run", "done", "rolled back", "stuck", "killed"}

\* "lossy": documents are missing; "newer": "new", with writes of the relay
NewData == {"part", "lossy", "new", "newer"}
Data == {"none", "old"} \cup NewData
\* app: the relay runs under pm2; unit: the transient unit runs;
\* data.old, data.cold and data.failed of the backup directory
System == [app : BOOLEAN, service : {"off", "old", "new"}, unit : BOOLEAN,
           binary : {"old", "new", "part"}, config : {"old", "new", "part"}, saved : BOOLEAN,
           data : Data, old : {"none", "part", "old"}, cold : {"none", "part", "old"}, failed : Data]

Init ==
  /\ plan \in Plan /\ pc = "inspect" /\ flags = {}
  /\ sys \in [app : BOOLEAN, service : {"off", "old"}, unit : {FALSE}, binary : {"old"},
              config : {"old"}, saved : {FALSE}, data : {"old"}, old : {"none"},
              cold : {"none"}, failed : {"none"}]
  /\ free \in FreeAtStart /\ low = free
  /\ failures = [upgrade |-> 0, rollback |-> 0] /\ early = FALSE

-------------------------------------------------------------------------------
(***************************************************************************)
(* Disk space.                                                             *)
(***************************************************************************)
CeilDiv(a, b) == (a + b - 1) \div b
DumpCreationRequired == DataBytes * 2 + GiB
DumpImportRequired == CeilDiv(DataBytes * 125, 100) + CeilDiv(UnpackedBytes * 110, 100) + GiB
\* Mutant: no room for what a rollback copies back.
RequiredForOne == DataBytes + SnapshotBytes + GiB
Required == DataBytes * 2 + SnapshotBytes + GiB

\* `peak` bytes are needed for a while, `kept` stay used
Uses(peak, kept) ==
  /\ free' = free - kept
  /\ low' = IF free - peak < low THEN free - peak ELSE low
NoDisk == UNCHANGED << free, low >>

-------------------------------------------------------------------------------
(***************************************************************************)
(* Commands.                                                               *)
(***************************************************************************)
Works == UNCHANGED failures
Breaks ==
  /\ failures.upgrade + failures.rollback < MaxFailures
  /\ failures' = [failures EXCEPT ![IF pc \in Forward THEN "upgrade" ELSE "rollback"] = @ + 1]

\* A command of the upgrade: its flag is set first; when it fails, rollback.
Command(here, next, flag, good, partial) ==
  /\ pc = here
  /\ flags' = flags \cup flag
  /\ \/ Works /\ sys' = good /\ pc' = next
     \/ Breaks /\ sys' \in {sys, good} \cup partial /\ pc' = "r.unit"
  /\ UNCHANGED << plan, early >>

\* A command of the rollback: when it fails, that is the end of it.
Undo(here, next, good, partial) ==
  /\ pc = here
  /\ \/ Works /\ sys' = good /\ pc' = next
     \/ Breaks /\ sys' \in {sys, good} \cup partial /\ pc' = "stuck"
  /\ UNCHANGED << plan, early, flags >>

\* One whose failure is ignored
Try(here, next, good) ==
  /\ pc = here /\ pc' = next
  /\ \/ Works /\ sys' = good
     \/ Breaks /\ sys' = sys
  /\ UNCHANGED << plan, early, flags >>

Skip(here, next) ==
  /\ pc = here /\ pc' = next
  /\ UNCHANGED << plan, flags, sys, failures, early >> /\ NoDisk

\* Who answers on the port of the server: the unit, when it runs
Served == IF sys.unit THEN "new" ELSE sys.service

\* The server refuses files of another version, and options it does not know.
Fits(s) ==
  /\ s.binary # "part" /\ s.config # "part"
  /\ s.binary = "new" /\ plan.changes => s.config = "new"
  /\ s.binary = "new" => ~ Meets({"review"})
  /\ s.data \in (IF s.binary = "old" THEN {"old"} ELSE NewData)
\* systemctl start: nothing to do if it runs; in vain if the port is taken
Started(s) ==
  IF s.service # "off" \/ s.unit \/ ~ Fits(s) THEN s ELSE [s EXCEPT !.service = s.binary]
Stopped(s) == [s EXCEPT !.service = "off"]

-------------------------------------------------------------------------------
(***************************************************************************)
(* executeUpgrade.                                                         *)
(***************************************************************************)
\* What inspectEnvironment looks for.
Paths == ~ Meets({"backup inside"})
Options == ~ Meets({"review"})
Dumps == plan.strategy = "dump" => ~ Meets({"dump elsewhere"})
Snapshots == plan.strategy = "dumpless" => ~ Meets({"s3"})
Filesystems == ~ Meets({"backup apart"}) /\ (plan.strategy = "dump" => ~ Meets({"dump apart"}))
Versions == plan.strategy = "dumpless" => ~ Meets({"too old"})

\* inspectEnvironment, and main; there are more reasons to refuse than these.
Inspect ==
  /\ pc = "inspect"
  /\ \/ pc' = "refused"
     \/ /\ sys.app /\ sys.service = "old"
        /\ Paths /\ Options /\ Dumps /\ Snapshots /\ Filesystems /\ Versions
        /\ free >= (IF plan.strategy = "dump" THEN DumpCreationRequired ELSE Required)
        /\ pc' = IF plan.execute THEN "download" ELSE "dry run"
  /\ UNCHANGED << plan, flags, sys, failures, early >> /\ NoDisk

\* mkdtemp, writeTargetConfiguration, downloadRelease, --version
Download == Command("download", "pm2 stop", {}, sys, {}) /\ NoDisk
StopApp ==
  Command("pm2 stop", "drain", {"pm2Stopped"}, [sys EXCEPT !.app = FALSE], {}) /\ NoDisk
\* drainQueue, and the state to compare with
Drain == Command("drain", "export", {}, sys, {}) /\ NoDisk

\* The dump or the snapshot, and the second look at the disk
Exportable == ~ Meets(IF plan.strategy = "dump" THEN {"dump elsewhere"} ELSE {"s3"})
RequiredNow == IF plan.strategy = "dump" THEN DumpImportRequired ELSE Required
Export ==
  /\ pc = "export"
  /\ IF plan.strategy = "dumpless" THEN Uses(DataBytes + SnapshotBytes, 0)
     ELSE IF Meets({"dump apart"}) THEN Uses(UnpackedBytes, 0)
     ELSE Uses(UnpackedBytes + DumpBytes, DumpBytes)
  /\ \/ /\ Works
        /\ pc' = IF Exportable /\ free' >= RequiredNow THEN "backup" ELSE "r.unit"
     \/ Breaks /\ pc' = "r.unit"
  /\ UNCHANGED << plan, flags, sys, early >>

\* The backup directory, with copies of both binaries and of the configuration
Backup == Command("backup", "stop", {}, [sys EXCEPT !.saved = TRUE], {}) /\ NoDisk
StopService ==
  /\ Command("stop", IF plan.changes THEN "config" ELSE "data", {"mdbStopped"}, Stopped(sys), {})
  /\ NoDisk
InstallConfig ==
  /\ Command("config", "data", {"configInstallStarted"}, [sys EXCEPT !.config = "new"],
             {[sys EXCEPT !.config = "part"]})
  /\ NoDisk

\* Dump: the dump is kept with the backup, then the database is moved out of the
\* way.  Across filesystems, a move that fails may leave part of what it moves at
\* either end; into itself, a directory cannot be moved.
Inside == Meets({"backup inside"})
Away == [sys EXCEPT !.old = sys.data, !.data = "none"]
PartlyAway ==
  CASE Inside -> {sys}
    [] Meets({"backup apart"}) ->
         {sys, [sys EXCEPT !.old = "part"], [sys EXCEPT !.old = sys.data, !.data = "part"]}
    [] OTHER -> {sys, Away}
MoveData ==
  /\ plan.strategy = "dump" /\ pc = "data"
  /\ \/ ~ Inside /\ Works /\ pc' = "binary" /\ sys' = Away
        /\ flags' = flags \cup {"dataMoveStarted", "backupReady"}
     \/ (IF Inside THEN Works ELSE Breaks) /\ pc' = "r.unit" /\ sys' \in PartlyAway
        /\ flags' = flags \cup {"dataMoveStarted"}
     \/ Breaks /\ pc' = "r.unit" /\ UNCHANGED << flags, sys >>
  /\ IF Meets({"dump apart"}) THEN Uses(DumpBytes, DumpBytes) ELSE NoDisk
  /\ UNCHANGED << plan, early >>
\* Mutant: the copy counts as a backup before it is complete.
CopyDataTooSoon ==
  /\ plan.strategy = "dumpless"
  /\ Command("data", "binary", {"backupReady"}, [sys EXCEPT !.cold = sys.data],
             {[sys EXCEPT !.cold = "part"]})
  /\ Uses(SnapshotBytes + DataBytes, SnapshotBytes + DataBytes)
\* Dumpless: the snapshot and the database are copied.
CopyData ==
  /\ plan.strategy = "dumpless" /\ pc = "data"
  /\ \/ ~ Inside /\ Works /\ pc' = "binary" /\ flags' = flags \cup {"backupReady"}
        /\ sys' = [sys EXCEPT !.cold = sys.data]
     \/ (IF Inside THEN Works ELSE Breaks) /\ pc' = "r.unit" /\ flags' = flags
        /\ \E c \in {"none", "part", sys.data} : sys' = [sys EXCEPT !.cold = c]
  /\ UNCHANGED << plan, early >>
  /\ Uses(SnapshotBytes + DataBytes, SnapshotBytes + DataBytes)
InstallBinary ==
  /\ Command("binary", "unit", {"binaryInstallStarted"}, [sys EXCEPT !.binary = "new"],
             {[sys EXCEPT !.binary = "part"]})
  /\ NoDisk

\* runDumpImport, runDumplessUpgrade: the transient unit, at work on the data
StartUnit ==
  /\ Command("unit", "wait", {"transientUnit"} \cup
               (IF plan.strategy = "dump" THEN {"importTempPath"} ELSE {}),
             [sys EXCEPT !.unit = TRUE, !.data = "part"], {})
  /\ NoDisk
\* The wait for its end; then the unit is stopped and its staging path removed,
\* failures of which are ignored.  An import may lose documents.
Workable ==
  /\ sys.config # "part" /\ (plan.changes => sys.config = "new") /\ ~ Meets({"review"})
  /\ plan.strategy = "dumpless" => ~ Meets({"too old"})
WaitUnit ==
  /\ pc = "wait"
  /\ \E stopped, served \in BOOLEAN, data \in {"part", "lossy", "new"} :
       /\ served => Workable /\ data # "part"
       /\ sys' = [sys EXCEPT !.unit = ~ stopped, !.data = data]
       /\ pc' = IF served THEN "start" ELSE "r.unit"
       /\ IF ~ Workable \/ (served /\ stopped /\ data = "new") THEN Works ELSE Breaks
  /\ \/ flags' = flags \ {"importTempPath"}
     \/ flags' = flags
  /\ IF plan.strategy = "dump"
       THEN \E kept \in {DataBytes, CeilDiv(DataBytes * 125, 100)} :
              Uses(kept + CeilDiv(UnpackedBytes * 110, 100),
                   kept + (IF "importTempPath" \in flags'
                             THEN CeilDiv(UnpackedBytes * 110, 100) ELSE 0))
       ELSE \E grown \in {0, GiB} : Uses(grown, grown)
  /\ UNCHANGED << plan, early >>

StartService == Command("start", "validate", {}, Started(sys), {}) /\ NoDisk
\* compareDatabaseState: all documents are there.
Same == sys.data = "new"
\* waitForHealth, compareDatabaseState
Validate ==
  /\ pc = "validate"
  /\ flags' = flags \cup {"normalMdbStarted"}
  /\ \/ Served = "new" /\ Same /\ Works /\ pc' = "pm2 restart"
     \/ (Served # "new" \/ ~ Same) /\ Works /\ pc' = "r.unit"
     \/ Breaks /\ pc' = "r.unit"
  /\ UNCHANGED << plan, sys, early >> /\ NoDisk

RestartApp ==
  /\ pc = "pm2 restart"
  /\ \/ /\ Works /\ pc' = "done" /\ sys' = [sys EXCEPT !.app = TRUE]
        /\ flags' = flags \ {"pm2Stopped"} /\ UNCHANGED early
     \/ /\ Breaks /\ pc' = "r.unit" /\ UNCHANGED flags
        /\ early' \in BOOLEAN /\ sys' = [sys EXCEPT !.app = early']
  /\ UNCHANGED plan /\ NoDisk

-------------------------------------------------------------------------------
(***************************************************************************)
(* rollback.                                                               *)
(***************************************************************************)
ServerTouched ==
  flags \cap {"mdbStopped", "normalMdbStarted", "backupReady", "dataMoveStarted",
              "configInstallStarted", "binaryInstallStarted"} # {}
Moved == plan.strategy = "dump" /\ "dataMoveStarted" \in flags

\* The unit is stopped, and its staging path removed: the room that gives is not counted.
UndoUnit ==
  IF "transientUnit" \in flags
    THEN Try("r.unit", "r.stop", [sys EXCEPT !.unit = FALSE]) /\ NoDisk
    ELSE Skip("r.unit", "r.stop")
UndoService ==
  IF ServerTouched THEN Try("r.stop", "r.aside", Stopped(sys)) /\ NoDisk
  ELSE Skip("r.stop", "r.aside")

\* The old database is there: data.old, or the cold copy.
Restores == IF Moved THEN sys.old # "none" ELSE "backupReady" \in flags

Aside ==
  IF Restores /\ sys.data # "none"
    THEN /\ Undo("r.aside", "r.restore", [sys EXCEPT !.failed = sys.data, !.data = "none"], {})
         /\ NoDisk
    ELSE Skip("r.aside", "r.restore")

Restore ==
  IF ~ Restores THEN Skip("r.restore", "r.binary")
  ELSE IF Moved
    THEN /\ Undo("r.restore", "r.clear", [sys EXCEPT !.data = sys.old, !.old = "none"],
                 IF Meets({"backup apart"}) THEN {[sys EXCEPT !.data = "part"]} ELSE {})
         /\ NoDisk
    ELSE /\ Undo("r.restore", "r.binary", [sys EXCEPT !.data = sys.cold],
                 {[sys EXCEPT !.data = "part"]})
         /\ Uses(DataBytes, DataBytes)
\* What the upgrade made goes, if there was any.
Clear ==
  IF sys.failed = "none" THEN Skip("r.clear", "r.binary")
  ELSE /\ Undo("r.clear", "r.binary", [sys EXCEPT !.failed = "none"],
               {[sys EXCEPT !.failed = "part"]})
       /\ NoDisk

UndoBinary ==
  IF "binaryInstallStarted" \notin flags THEN Skip("r.binary", "r.config")
  ELSE /\ Undo("r.binary", "r.config",
               [sys EXCEPT !.binary = IF sys.saved THEN "old" ELSE "part"],
               {[sys EXCEPT !.binary = "part"]})
       /\ NoDisk
\* Mutant: the configuration comes back with the binary only.
UndoConfigLate ==
  IF "binaryInstallStarted" \notin flags THEN Skip("r.config", "r.start")
  ELSE /\ Undo("r.config", "r.start",
               [sys EXCEPT !.config = IF sys.saved THEN "old" ELSE "part"],
               {[sys EXCEPT !.config = "part"]})
       /\ NoDisk
UndoConfig ==
  IF flags \cap {"configInstallStarted", "binaryInstallStarted"} = {}
    THEN Skip("r.config", "r.start")
  ELSE /\ Undo("r.config", "r.start",
               [sys EXCEPT !.config = IF sys.saved THEN "old" ELSE "part"],
               {[sys EXCEPT !.config = "part"]})
       /\ NoDisk

UndoStart ==
  IF ~ ServerTouched THEN Skip("r.start", "r.pm2")
  ELSE Undo("r.start", "r.health", Started(sys), {}) /\ NoDisk
UndoHealth ==
  /\ pc = "r.health"
  /\ \/ Served = "old" /\ Works /\ pc' = "r.pm2"
     \/ Served # "old" /\ Works /\ pc' = "stuck"
     \/ Breaks /\ pc' = "stuck"
  /\ UNCHANGED << plan, flags, sys, early >> /\ NoDisk
UndoApp ==
  IF "pm2Stopped" \notin flags THEN Skip("r.pm2", "rolled back")
  ELSE Undo("r.pm2", "rolled back", [sys EXCEPT !.app = TRUE], {}) /\ NoDisk

-------------------------------------------------------------------------------
(***************************************************************************)
(* Around the script.                                                      *)
(***************************************************************************)
\* The relay stores events.
AppWrites ==
  /\ sys.app /\ Served = "new" /\ sys.data = "new"
  /\ sys' = [sys EXCEPT !.data = "newer"]
  /\ UNCHANGED << plan, pc, flags, free, low, failures, early >>

Kill ==
  /\ pc \notin Final /\ pc' = "killed"
  /\ UNCHANGED << plan, flags, sys, free, low, failures, early >>

\* Mutant: the relay is started before what it runs on is compared.
UpgradeUnchecked ==
  \/ Inspect \/ Download \/ StopApp \/ Drain \/ Export \/ Backup \/ StopService \/ InstallConfig
  \/ MoveData \/ CopyData \/ InstallBinary \/ StartUnit \/ WaitUnit \/ RestartApp
  \/ Command("start", "validate", {}, [Started(sys) EXCEPT !.app = TRUE], {}) /\ NoDisk
  \/ Validate
ExecuteUpgrade ==
  \/ Inspect \/ Download \/ StopApp \/ Drain \/ Export \/ Backup \/ StopService \/ InstallConfig
  \/ MoveData \/ CopyData \/ InstallBinary \/ StartUnit \/ WaitUnit \/ StartService \/ Validate
  \/ RestartApp
DoRollback ==
  \/ UndoUnit \/ UndoService \/ Aside \/ Restore \/ Clear \/ UndoBinary \/ UndoConfig
  \/ UndoStart \/ UndoHealth \/ UndoApp

Next == ExecuteUpgrade \/ DoRollback \/ AppWrites \/ Kill

Spec == Init /\ [][Next]_vars
================================================================================
