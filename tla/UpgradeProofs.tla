----------------------------- MODULE UpgradeProofs -----------------------------
(***************************************************************************)
(* The database survives an upgrade, what is left of it belongs together,  *)
(* and what was looked at before it is enough, for any sizes, room on the  *)
(* disk and number of commands that fail.                                  *)
(***************************************************************************)
EXTENDS UpgradeProps, TLAPS

\* Where the old database is, phase by phase: in place and alone until it is
\* moved or copied, then whole in the backup; and a rollback that is still to
\* restore goes where its flags point.
Before == {"inspect", "download", "pm2 stop", "drain", "export", "backup", "stop", "config", "data"}
After == {"binary", "unit", "wait", "start", "validate", "pm2 restart"}
Restoring == {"r.unit", "r.stop", "r.aside", "r.restore"}

LetIn == pc \in (Before \ {"inspect"}) \cup After \cup Rollback => Paths /\ Filesystems
Untouched ==
  pc \in Before =>
    sys.data = "old" /\ sys.old = "none" /\ flags \cap {"dataMoveStarted", "backupReady"} = {}
BackedUp ==
  pc \in After => IF plan.strategy = "dump" THEN "dataMoveStarted" \in flags /\ sys.old = "old"
                  ELSE "backupReady" \in flags /\ sys.cold = "old"
Restorable ==
  pc \in Restoring =>
    IF Moved THEN sys.old = "old" \/ (sys.old = "none" /\ sys.data = "old")
    ELSE IF "backupReady" \in flags THEN sys.cold = "old" ELSE sys.data = "old"

UpgradeIndInv == TypeOK /\ DataIsSafe /\ LetIn /\ Untouched /\ BackedUp /\ Restorable

-------------------------------------------------------------------------------
\* Room on the disk: what is kept is no more than what was needed.
LEMMA Rounding == ASSUME NEW a \in Nat PROVE CeilDiv(a, 100) \in Nat
BY DEF CeilDiv

\* What a use of the disk leaves
LEMMA UsesType ==
  ASSUME TypeOK, NEW peak \in Int, NEW kept \in Int, kept <= peak, Uses(peak, kept)
  PROVE  free' \in Int /\ low' \in Int /\ low' <= free'
BY DEF TypeOK, Uses

\* A failure is counted where it happens, up to the bound.
LEMMA FailuresType ==
  ASSUME TypeOK, Works \/ Breaks
  PROVE  failures' \in [upgrade : 0..MaxFailures, rollback : 0..MaxFailures]
<1>1. CASE Works
  BY <1>1 DEF Works, TypeOK
<1>2. CASE Breaks
  <2> DEFINE where == IF pc \in Forward THEN "upgrade" ELSE "rollback"
  <2>1. where \in {"upgrade", "rollback"} /\ failures[where] + 1 \in 0..MaxFailures
    BY <1>2, UpgradeAssumption DEF Breaks, TypeOK
  <2> QED
    BY <1>2, <2>1 DEF Breaks, TypeOK
<1> QED
  BY <1>1, <1>2

-------------------------------------------------------------------------------
\* What a step leaves of the machine is a machine, and its phase is a phase.
Typed ==
  /\ plan \in Plan /\ pc \in Forward \cup Rollback \cup Final /\ flags \subseteq Flag
  /\ sys \in System /\ early \in BOOLEAN

\* Each change of a part of the machine.
LEMMA Edits ==
  ASSUME Typed
  PROVE  /\ \A b \in BOOLEAN : [sys EXCEPT !.app = b] \in System
         /\ \A b \in BOOLEAN : [sys EXCEPT !.unit = b] \in System
         /\ \A v \in {"old", "new", "part"} : [sys EXCEPT !.binary = v] \in System
         /\ \A v \in {"old", "new", "part"} : [sys EXCEPT !.config = v] \in System
         /\ [sys EXCEPT !.saved = TRUE] \in System
         /\ \A d \in Data : [sys EXCEPT !.data = d] \in System
         /\ \A d \in Data : [sys EXCEPT !.failed = d] \in System
         /\ \A v \in {"none", "part", "old"} : [sys EXCEPT !.old = v] \in System
         /\ \A v \in {"none", "part", "old"} : [sys EXCEPT !.cold = v] \in System
BY DEF Typed, System

\* Two at once
LEMMA TwoEdits ==
  ASSUME Typed, NEW d \in Data
  PROVE  /\ [sys EXCEPT !.failed = sys.data, !.data = d] \in System
         /\ \A b \in BOOLEAN : [sys EXCEPT !.unit = b, !.data = d] \in System
         /\ \A v \in {"none", "part", "old"} :
              /\ [sys EXCEPT !.data = d, !.old = v] \in System
              /\ [sys EXCEPT !.old = v, !.data = d] \in System
BY DEF Typed, System

\* A service started or stopped
LEMMA Services == Typed => Started(sys) \in System /\ Stopped(sys) \in System
<1> SUFFICES ASSUME Typed PROVE Started(sys) \in System /\ Stopped(sys) \in System
  OBVIOUS
<1>1. \A v \in {"off", "old", "new"} : [sys EXCEPT !.service = v] \in System
  BY DEF Typed, System
<1>2. CASE sys.service # "off" \/ sys.unit \/ ~ Fits(sys)
  BY <1>1, <1>2 DEF Started, Stopped, Typed
<1>3. CASE ~ (sys.service # "off" \/ sys.unit \/ ~ Fits(sys))
  <2>1. sys.binary \in {"old", "new"}
    BY <1>3 DEF Fits, Typed, System
  <2> QED
    BY <1>1, <1>3, <2>1 DEF Started, Stopped
<1> QED
  BY <1>2, <1>3

\* The upgrade
LEMMA UpgradeTyped ==
  ASSUME UpgradeIndInv, ExecuteUpgrade
  PROVE  Typed' /\ (Works \/ Breaks)
<1> USE DEF Forward, Rollback, Final, Flag
<1>0. Typed
  BY DEF UpgradeIndInv, TypeOK, Typed
<1>1. CASE Inspect
  BY <1>0, <1>1 DEF Inspect, Typed, Works
<1>2. CASE Download \/ StopApp \/ Drain \/ Backup
  BY <1>0, <1>2, Edits DEF Download, StopApp, Drain, Backup, Command, Typed
<1>3. CASE InstallConfig \/ InstallBinary
  BY <1>0, <1>3, Edits DEF InstallConfig, InstallBinary, Command, Typed
<1>4. CASE StopService \/ StartService
  BY <1>0, <1>4, Services DEF StopService, StartService, Command, Typed
<1>5. CASE Export \/ Validate
  BY <1>0, <1>5 DEF Export, Validate, Typed
<1>6. CASE MoveData
  <2>1. pc = "data" /\ sys.data = "old" /\ LetIn
    BY <1>6 DEF MoveData, UpgradeIndInv, Untouched, Before
  <2>2. ~ Inside /\ ~ Meets({"backup apart"})
    BY <2>1 DEF LetIn, Before, Paths, Filesystems, Inside
  <2>3. sys' \in {sys, Away} /\ Away \in System
    BY <1>0, <1>6, <2>1, <2>2, TwoEdits DEF MoveData, PartlyAway, Away, Data
  <2> QED
    BY <1>0, <1>6, <2>2, <2>3 DEF MoveData, Typed
<1>7. CASE CopyData
  <2>1. sys.data = "old" /\ flags' \subseteq flags \cup {"backupReady"}
    BY <1>7 DEF CopyData, UpgradeIndInv, Untouched, Before
  <2>2. sys' \in System
    BY <1>0, <1>7, <2>1, Edits DEF CopyData
  <2> QED
    BY <1>0, <1>7, <2>1, <2>2 DEF CopyData, Typed
<1>8. CASE StartUnit \/ WaitUnit
  <2>1. sys' \in System
    <3>1. CASE StartUnit
      <4>1. sys' \in {sys, [sys EXCEPT !.unit = TRUE, !.data = "part"]} /\ "part" \in Data
        BY <3>1 DEF StartUnit, Command, Data, NewData
      <4>2. sys \in System
        BY <1>0 DEF Typed
      <4> QED
        BY <1>0, <4>1, <4>2, TwoEdits
    <3>2. CASE WaitUnit
      <4>1. PICK b \in BOOLEAN, d \in Data : sys' = [sys EXCEPT !.unit = b, !.data = d]
        BY <3>2 DEF WaitUnit, Data, NewData
      <4> QED
        BY <1>0, <4>1, TwoEdits
    <3> QED
      BY <1>8, <3>1, <3>2
  <2> QED
    BY <1>0, <1>8, <2>1 DEF StartUnit, WaitUnit, Command, Typed
<1>9. CASE RestartApp
  BY <1>0, <1>9, Edits DEF RestartApp, Typed
<1> QED
  BY <1>1, <1>2, <1>3, <1>4, <1>5, <1>6, <1>7, <1>8, <1>9 DEF ExecuteUpgrade

\* The rollback
LEMMA RollbackTyped ==
  ASSUME UpgradeIndInv, DoRollback
  PROVE  Typed' /\ (Works \/ Breaks)
<1> USE DEF Forward, Rollback, Final
<1>0. Typed
  BY DEF UpgradeIndInv, TypeOK, Typed
<1>1. CASE UndoUnit
  BY <1>0, <1>1, Edits DEF UndoUnit, Try, Skip, Typed, Works
<1>2. CASE UndoService \/ UndoStart
  BY <1>0, <1>2, Services DEF UndoService, UndoStart, Undo, Try, Skip, Typed, Works
<1>3. CASE Aside
  BY <1>0, <1>3, TwoEdits DEF Aside, Undo, Skip, Typed, Works, Data
<1>4. CASE Restore
  <2>1. pc \in Restoring /\ LetIn /\ Restorable
    BY <1>4 DEF Restore, Undo, Skip, UpgradeIndInv, Restoring
  <2>2. ~ Meets({"backup apart"})
    BY <2>1 DEF LetIn, Restoring, Filesystems
  <2>3. CASE ~ Restores
    BY <1>0, <1>4, <2>3 DEF Restore, Skip, Typed, Works
  <2>4. CASE Restores /\ Moved
    <3>1. sys.old = "old"
      BY <2>1, <2>4 DEF Restorable, Restores
    <3> QED
      BY <1>0, <1>4, <2>2, <2>4, <3>1, TwoEdits DEF Restore, Undo, Typed, Data
  <2>5. CASE Restores /\ ~ Moved
    <3>1. sys.cold = "old"
      BY <2>1, <2>5 DEF Restorable, Restores
    <3> QED
      BY <1>0, <1>4, <2>5, <3>1, Edits DEF Restore, Undo, Typed, Data, NewData
  <2> QED
    BY <2>3, <2>4, <2>5
<1>5. CASE Clear
  BY <1>0, <1>5, Edits DEF Clear, Undo, Skip, Typed, Works, Data, NewData
<1>6. CASE UndoBinary \/ UndoConfig
  BY <1>0, <1>6, Edits DEF UndoBinary, UndoConfig, Undo, Skip, Typed, Works
<1>7. CASE UndoHealth \/ UndoApp
  BY <1>0, <1>7, Edits DEF UndoHealth, UndoApp, Undo, Skip, Typed, Works
<1> QED
  BY <1>1, <1>2, <1>3, <1>4, <1>5, <1>6, <1>7 DEF DoRollback

\* Every step
LEMMA TypedStep ==
  ASSUME UpgradeIndInv, Next
  PROVE  Typed' /\ (Works \/ Breaks)
<1>1. CASE ExecuteUpgrade
  BY <1>1, UpgradeTyped
<1>2. CASE DoRollback
  BY <1>2, RollbackTyped
<1>3. CASE AppWrites
  BY <1>3, Edits DEF AppWrites, UpgradeIndInv, TypeOK, Typed, Works, Data, NewData
<1>4. CASE Kill
  BY <1>4 DEF Kill, UpgradeIndInv, TypeOK, Typed, Works, Final
<1> QED
  BY <1>1, <1>2, <1>3, <1>4 DEF Next

\* The whole state
LEMMA TypeStep ==
  ASSUME UpgradeIndInv, Next
  PROVE  TypeOK'
<1>1. Typed' /\ (Works \/ Breaks)
  BY TypedStep
<1>2. free' \in Int /\ low' \in Int /\ low' <= free'
  <2> DEFINE Kept == free' \in Int /\ low' \in Int /\ low' <= free'
  <2>0. TypeOK /\ {DataBytes, SnapshotBytes, DumpBytes, UnpackedBytes, GiB} \subseteq Nat
    BY UpgradeAssumption DEF UpgradeIndInv
  <2>1. CASE NoDisk
    BY <2>0, <2>1 DEF NoDisk, TypeOK
  <2>2. CASE Export
    <3>1. \/ Uses(DataBytes + SnapshotBytes, 0)
          \/ Uses(UnpackedBytes, 0)
          \/ Uses(UnpackedBytes + DumpBytes, DumpBytes)
      BY <2>2 DEF Export
    <3> QED
      BY <2>0, <3>1, UsesType
  <2>3. CASE MoveData \/ CopyData \/ Restore
    <3>1. \/ NoDisk
          \/ Uses(DumpBytes, DumpBytes)
          \/ Uses(SnapshotBytes + DataBytes, SnapshotBytes + DataBytes)
          \/ Uses(DataBytes, DataBytes)
      BY <2>3 DEF MoveData, CopyData, Restore, Skip
    <3> QED
      BY <2>0, <2>1, <3>1, UsesType
  <2>4. CASE WaitUnit
    <3> DEFINE staged == CeilDiv(UnpackedBytes * 110, 100)
    <3>1. staged \in Nat /\ CeilDiv(DataBytes * 125, 100) \in Nat
      BY <2>0, Rounding
    <3>2. CASE plan.strategy = "dump"
      <4>1. PICK kept \in {DataBytes, CeilDiv(DataBytes * 125, 100)} :
              \/ Uses(kept + staged, kept + staged)
              \/ Uses(kept + staged, kept + 0)
        BY <2>4, <3>2 DEF WaitUnit
      <4>2. kept \in Int
        BY <2>0, <3>1
      <4> HIDE DEF staged
      <4> QED
        BY <2>0, <3>1, <4>1, <4>2, UsesType
    <3>3. CASE plan.strategy # "dump"
      <4>1. Uses(0, 0) \/ Uses(GiB, GiB)
        BY <2>4, <3>3 DEF WaitUnit
      <4> QED
        BY <2>0, <4>1, UsesType
    <3> QED
      BY <3>2, <3>3
  <2>5. NoDisk \/ Export \/ MoveData \/ CopyData \/ Restore \/ WaitUnit
    <3>1. CASE ExecuteUpgrade
      BY <3>1 DEF ExecuteUpgrade, Inspect, Download, StopApp, Drain, Backup, StopService,
                  InstallConfig, InstallBinary, StartUnit, StartService, Validate, RestartApp
    <3>2. CASE DoRollback
      BY <3>2 DEF DoRollback, UndoUnit, UndoService, Aside, Clear, UndoBinary, UndoConfig,
                  UndoStart, UndoHealth, UndoApp, Skip
    <3> QED
      BY <3>1, <3>2 DEF Next, AppWrites, Kill, NoDisk
  <2> QED
    BY <2>1, <2>2, <2>3, <2>4, <2>5
<1>3. failures' \in [upgrade : 0..MaxFailures, rollback : 0..MaxFailures]
  BY <1>1, FailuresType DEF UpgradeIndInv
<1> QED
  BY <1>1, <1>2, <1>3 DEF Typed, TypeOK

-------------------------------------------------------------------------------
\* Where the data are.
DataInv == DataIsSafe /\ LetIn /\ Untouched /\ BackedUp /\ Restorable

\* A step of before, or of the rollback, that leaves the data where they are.
LEMMA Stays ==
  ASSUME UpgradeIndInv, UNCHANGED << plan, sys.data, sys.old, sys.cold >>,
         \A f \in {"dataMoveStarted", "backupReady"} : f \in flags' <=> f \in flags,
         \/ pc \in Before \ {"inspect"} /\ pc' \in (Before \ {"inspect"}) \cup {"r.unit"}
         \/ pc \in Restoring /\ pc' \in Restoring
         \/ pc \in Rollback /\ pc' \in (Rollback \cup Final) \ Restoring
         \/ pc' \in Final
         \/ pc = "inspect" /\ Paths /\ Filesystems /\ pc' = "download"
  PROVE  DataInv'
BY DEF UpgradeIndInv, DataInv, DataIsSafe, LetIn, Untouched, BackedUp, Restorable, Before, After,
       Restoring, Rollback, Final, Moved, Meets, Paths, Filesystems

\* A step of the upgrade after the backup.
LEMMA Kept ==
  ASSUME UpgradeIndInv, UNCHANGED << plan, sys.old, sys.cold >>,
         \A f \in {"dataMoveStarted", "backupReady"} : f \in flags' <=> f \in flags,
         pc \in After, pc' \in After \cup {"r.unit", "done"}
  PROVE  DataInv'
BY DEF UpgradeIndInv, DataInv, DataIsSafe, LetIn, Untouched, BackedUp, Restorable, Before, After,
       Restoring, Rollback, Final, Moved, Meets, Paths, Filesystems, TypeOK, Plan

\* The steps of the upgrade, and then of the rollback
LEMMA DataUpgrade ==
  ASSUME UpgradeIndInv, ExecuteUpgrade
  PROVE  DataInv'
<1>0. sys \in System /\ plan \in Plan /\ flags \subseteq Flag
  BY DEF UpgradeIndInv, TypeOK
<1>1. CASE Inspect
  BY <1>1, Stays DEF Inspect, Final
<1>2. CASE Download \/ StopApp \/ Drain \/ Backup \/ Export
  BY <1>0, <1>2, Stays DEF Download, StopApp, Drain, Backup, Export, Command, System, Before
<1>3. CASE StopService \/ InstallConfig
  BY <1>0, <1>3, Stays DEF StopService, Stopped, InstallConfig, Command, System, Before
<1>4. CASE InstallBinary \/ RestartApp \/ Validate
  BY <1>0, <1>4, Kept DEF InstallBinary, RestartApp, Validate, Command, System, After
<1>5. CASE StartUnit \/ WaitUnit
  BY <1>0, <1>5, Kept DEF StartUnit, WaitUnit, Command, System, After
<1>6. CASE StartService
  BY <1>0, <1>6, Kept DEF StartService, Started, Command, System, After
<1>7. CASE MoveData
  <2>1. /\ pc = "data" /\ sys.data = "old" /\ LetIn /\ sys.old = "none"
        /\ flags \cap {"dataMoveStarted", "backupReady"} = {} /\ plan' = plan
        /\ plan.strategy = "dump"
    BY <1>7 DEF MoveData, UpgradeIndInv, Untouched, Before
  <2>2. ~ Inside /\ ~ Meets({"backup apart"}) /\ Paths /\ Filesystems
    BY <2>1 DEF LetIn, Before, Paths, Filesystems, Inside
  <2>3. /\ Away.old = "old" /\ Away.data = "none"
    BY <1>0, <2>1 DEF Away, System
  <2>4. \/ pc' = "binary" /\ sys' = Away /\ "dataMoveStarted" \in flags'
        \/ pc' = "r.unit" /\ sys' \in {sys, Away} /\ "dataMoveStarted" \in flags'
        \/ pc' = "r.unit" /\ UNCHANGED << flags, sys >>
    BY <1>7, <2>2 DEF MoveData, PartlyAway
  <2> QED
    BY <2>1, <2>2, <2>3, <2>4
      DEF DataInv, DataIsSafe, LetIn, Untouched, BackedUp, Restorable, Before, After, Restoring,
          Moved, Meets, Paths, Filesystems
<1>8. CASE CopyData
  <2>1. /\ pc = "data" /\ sys.data = "old" /\ LetIn /\ plan' = plan /\ plan.strategy = "dumpless"
        /\ flags \cap {"dataMoveStarted", "backupReady"} = {}
    BY <1>8 DEF CopyData, UpgradeIndInv, Untouched, Before
  <2>2. Paths /\ Filesystems
    BY <2>1 DEF LetIn, Before
  <2>3. sys'.data = "old"
    BY <1>0, <1>8, <2>1 DEF CopyData, System
  <2>4. \/ pc' = "binary" /\ flags' = flags \cup {"backupReady"} /\ sys'.cold = "old"
        \/ pc' = "r.unit" /\ flags' = flags
    BY <1>0, <1>8, <2>1 DEF CopyData, System
  <2> QED
    BY <2>1, <2>2, <2>3, <2>4
      DEF DataInv, DataIsSafe, LetIn, Untouched, BackedUp, Restorable, Before, After, Restoring,
          Moved, Meets, Paths, Filesystems
<1> QED
  BY <1>1, <1>2, <1>3, <1>4, <1>5, <1>6, <1>7, <1>8 DEF ExecuteUpgrade

\* The rollback moves back what was moved, or copies back what was copied.
LEMMA DataRollback ==
  ASSUME UpgradeIndInv, DoRollback
  PROVE  DataInv'
<1>0. sys \in System /\ flags \subseteq Flag
  BY DEF UpgradeIndInv, TypeOK
<1>1. CASE UndoUnit \/ UndoService
  BY <1>0, <1>1, Stays
    DEF UndoUnit, UndoService, Try, Skip, Stopped, Restoring, System
<1>2. CASE Clear \/ UndoBinary \/ UndoConfig \/ UndoHealth \/ UndoApp
  <2>1. UNCHANGED << plan, flags, sys.data, sys.old, sys.cold >>
    <3>1. CASE Clear
      BY <1>0, <3>1 DEF Clear, Undo, Skip, System
    <3>2. CASE UndoBinary
      BY <1>0, <3>2 DEF UndoBinary, Undo, Skip, System
    <3>3. CASE UndoConfig
      BY <1>0, <3>3 DEF UndoConfig, Undo, Skip, System
    <3>4. CASE UndoHealth \/ UndoApp
      BY <1>0, <3>4 DEF UndoHealth, UndoApp, Undo, Skip, System
    <3> QED
      BY <1>2, <3>1, <3>2, <3>3, <3>4
  <2>2. pc \in Rollback /\ pc' \in (Rollback \cup Final) \ Restoring
    BY <1>2 DEF Clear, UndoBinary, UndoConfig, UndoHealth, UndoApp, Undo, Skip, Restoring,
                Rollback, Final
  <2> QED
    BY <2>1, <2>2, Stays
<1>3. CASE UndoStart
  BY <1>0, <1>3, Stays
    DEF UndoStart, Started, Undo, Skip, Restoring, Rollback, Final, System
<1>4. CASE Aside
  <2>1. CASE ~ (Restores /\ sys.data # "none")
    BY <1>4, <2>1, Stays DEF Aside, Skip, Restoring
  <2>2. CASE Restores /\ sys.data # "none"
    <3>1. UNCHANGED << plan, flags >> /\ pc = "r.aside" /\ pc' \in {"r.restore", "stuck"}
      BY <1>4, <2>2 DEF Aside, Undo
    <3>2. sys'.old = sys.old /\ sys'.cold = sys.cold
      BY <1>0, <1>4, <2>2 DEF Aside, Undo, System
    <3>3. IF Moved THEN sys.old = "old" ELSE "backupReady" \in flags /\ sys.cold = "old"
      BY <2>2, <3>1 DEF Restores, Restorable, UpgradeIndInv, Restoring
    <3>4. LetIn
      BY DEF UpgradeIndInv
    <3> QED
      BY <3>1, <3>2, <3>3, <3>4
        DEF DataInv, DataIsSafe, LetIn, Untouched, BackedUp, Restorable, Before, After, Restoring,
            Rollback, Moved, Meets, Paths, Filesystems
  <2> QED
    BY <2>1, <2>2
<1>5. CASE Restore
  <2>1. CASE ~ Restores
    BY <1>5, <2>1, Stays DEF Restore, Skip, Restoring, Rollback, Final
  <2>2. CASE Restores
    <3>1. /\ plan' = plan /\ pc = "r.restore" /\ pc' \in {"r.clear", "r.binary", "stuck"}
          /\ LetIn /\ Restorable
      BY <1>5, <2>2 DEF Restore, Undo, UpgradeIndInv
    <3>2. LetIn
      BY DEF UpgradeIndInv
    <3>3. ~ Meets({"backup apart"})
      BY <3>1, <3>2 DEF LetIn, Rollback, Filesystems
    <3>4. DataIsSafe'
      <4>1. CASE Moved
        <5>1. sys.old = "old"
          BY <2>2, <3>1, <4>1 DEF Restores, Restorable, Restoring
        <5> QED
          BY <1>0, <1>5, <2>2, <3>3, <4>1, <5>1 DEF Restore, Undo, DataIsSafe, System
      <4>2. CASE ~ Moved
        <5>1. sys.cold = "old"
          BY <2>2, <3>1, <4>2 DEF Restores, Restorable, Restoring
        <5> QED
          BY <1>0, <1>5, <2>2, <4>2, <5>1 DEF Restore, Undo, DataIsSafe, System
      <4> QED
        BY <4>1, <4>2
    <3> QED
      BY <3>1, <3>4
        DEF DataInv, LetIn, Untouched, BackedUp, Restorable, Before, After, Restoring, Rollback,
            Meets, Paths, Filesystems
  <2> QED
    BY <2>1, <2>2
<1> QED
  BY <1>1, <1>2, <1>3, <1>4, <1>5 DEF DoRollback

\* Every step keeps the inductive invariant, and it holds at first.
LEMMA UpgradeStep == UpgradeIndInv /\ [Next]_vars => UpgradeIndInv'
<1> SUFFICES ASSUME UpgradeIndInv, [Next]_vars PROVE UpgradeIndInv'
  OBVIOUS
<1>1. CASE UNCHANGED vars
  BY <1>1 DEF vars, UpgradeIndInv, TypeOK, DataIsSafe, LetIn, Untouched, BackedUp, Restorable,
              Moved, Meets, Paths, Filesystems
<1>2. CASE Next
  <2>1. TypeOK'
    BY <1>2, TypeStep
  <2>2. DataInv'
    <3>1. CASE ExecuteUpgrade
      BY <3>1, DataUpgrade
    <3>2. CASE DoRollback
      BY <3>2, DataRollback
    <3>3. CASE AppWrites
      <4>1. sys.data = "new" /\ UNCHANGED << plan, pc, flags, sys.old, sys.cold >>
        BY <3>3 DEF AppWrites, UpgradeIndInv, TypeOK, System
      <4> QED
        BY <4>1 DEF UpgradeIndInv, DataInv, DataIsSafe, LetIn, Untouched, BackedUp, Restorable,
                    Moved, Meets, Paths, Filesystems
    <3>4. CASE Kill
      BY <3>4, Stays DEF Kill, Final
    <3> QED
      BY <1>2, <3>1, <3>2, <3>3, <3>4 DEF Next
  <2> QED
    BY <2>1, <2>2 DEF UpgradeIndInv, DataInv
<1> QED
  BY <1>1, <1>2

\* At first nothing is touched.
LEMMA UpgradeInit == Init => UpgradeIndInv
<1> SUFFICES ASSUME Init PROVE UpgradeIndInv
  OBVIOUS
<1>1. TypeOK
  <2>1. sys \in System
    BY DEF Init, System, Data
  <2>2. failures \in [upgrade : 0..MaxFailures, rollback : 0..MaxFailures]
    BY UpgradeAssumption DEF Init
  <2>3. free \in Int /\ low \in Int /\ low <= free
    BY UpgradeAssumption DEF Init
  <2> QED
    BY <2>1, <2>2, <2>3 DEF Init, TypeOK, Forward
<1>2. DataInv
  BY DEF Init, DataInv, DataIsSafe, LetIn, Untouched, BackedUp, Restorable, Before, After,
         Restoring, Rollback
<1> QED
  BY <1>1, <1>2 DEF UpgradeIndInv, DataInv

\* Whatever fails and wherever the script is killed, the machine is one a
\* rollback knows, and the old database exists, whole, for any sizes and room
\* on the disk and any number of failures (bin/mdb/upgrade.js).
THEOREM DataSurvive == Spec => []UpgradeInv
<1>1. UpgradeIndInv => UpgradeInv
  BY DEF UpgradeIndInv, UpgradeInv
<1> QED
  BY <1>1, UpgradeInit, UpgradeStep, PTL DEF Spec

-------------------------------------------------------------------------------
(***************************************************************************)
(* What belongs together: the flags, what each phase finds, and what a     *)
(* rollback has undone.                                                    *)
(***************************************************************************)
\* Before anything is stopped, and while files are replaced
Quiet == {"inspect", "download", "pm2 stop"}
Touching == {"config", "data"} \cup After
\* After the data have been restored
Late == {"r.clear", "r.binary", "r.config", "r.start", "r.health", "r.pm2"}

\* The flags say what may have been touched, and what was kept of it.
Flagged ==
  /\ pc \notin Final /\ "configInstallStarted" \notin flags => sys.config = "old"
  /\ pc \notin Final /\ "binaryInstallStarted" \notin flags => sys.binary = "old"
  /\ "configInstallStarted" \in flags \/ "binaryInstallStarted" \in flags => sys.saved
  /\ "transientUnit" \notin flags => ~sys.unit
  /\ "mdbStopped" \in flags \/ flags \subseteq {"pm2Stopped"}
  /\ "backupReady" \in flags /\ plan.strategy = "dump" => "dataMoveStarted" \in flags
  /\ pc \in Quiet => flags = {}
  /\ pc \in Before \ Touching => flags \subseteq {"pm2Stopped"}
  /\ pc \in Rollback /\ "mdbStopped" \notin flags => sys.service = "old"
  /\ pc \in Rollback /\ "pm2Stopped" \notin flags => sys.app

\* What each phase of the upgrade finds
Sound ==
  /\ pc \in Forward => ~early
  /\ pc \in Quiet \ {"inspect"} => sys.app
  /\ pc \in Forward \ Quiet => ~sys.app /\ "pm2Stopped" \in flags
  /\ pc \in {"inspect", "refused"} => sys.service # "new"
  /\ pc \in Before \ ({"inspect"} \cup Touching) => sys.service = "old"
  /\ pc \in {"stop"} \cup Touching => sys.saved
  /\ pc \in Touching \ {"validate", "pm2 restart"} => sys.service = "off" /\ "mdbStopped" \in flags
  /\ pc = "config" => plan.changes
  /\ pc \in Touching \ {"config"} => sys.config = (IF plan.changes THEN "new" ELSE "old")
  /\ pc \in After \ {"binary"} => sys.binary = "new"
  /\ pc = "wait" => "transientUnit" \in flags
  /\ pc \in {"start", "validate"} => sys.data \in {"lossy", "new"}
  /\ pc = "pm2 restart" => sys.data = "new" /\ Served = "new"

\* What a rollback has undone, and that it runs under no relay whose machine
\* was touched
Undone ==
  /\ pc \in Rollback /\ sys.app /\ ~early => flags \subseteq {"pm2Stopped"}
  /\ pc \in Late => sys.data = "old"
  /\ pc \in Late \ {"r.clear", "r.binary"} => sys.binary = "old"
  /\ pc \in {"r.start", "r.health", "r.pm2"} => sys.config = "old"
  /\ pc = "r.pm2" => Served = "old"
  /\ sys.data = "newer" /\ ~early => pc \in Final

MachineInv == UpgradeIndInv /\ Flagged /\ Sound /\ Undone

\* Which phase follows which
LEMMA Phases ==
  ASSUME Next
  PROVE  /\ plan' = plan
         /\ ExecuteUpgrade =>
              pc \in Forward /\ pc' \in Forward \cup {"r.unit", "refused", "dry run", "done"}
         /\ DoRollback =>
              /\ pc \in Rollback /\ pc' \in Rollback \cup {"rolled back", "stuck"}
              /\ flags' = flags /\ early' = early
<1>1. CASE ExecuteUpgrade
  <2>1. /\ plan' = plan
        /\ pc \in Forward /\ pc' \in Forward \cup {"r.unit", "refused", "dry run", "done"}
    BY <1>1 DEF ExecuteUpgrade, Inspect, Download, StopApp, Drain, Export, Backup, StopService,
                InstallConfig, MoveData, CopyData, InstallBinary, StartUnit, WaitUnit,
                StartService, Validate, RestartApp, Command, Forward
  <2>2. pc \notin Rollback
    BY <2>1 DEF Forward, Rollback
  <2>3. ~ DoRollback
    BY <2>2 DEF DoRollback, UndoUnit, UndoService, Aside, Restore, Clear, UndoBinary, UndoConfig,
                UndoStart, UndoHealth, UndoApp, Undo, Try, Skip, Rollback
  <2> QED
    BY <2>1, <2>3
<1>2. CASE DoRollback
  <2>1. /\ plan' = plan /\ flags' = flags /\ early' = early
        /\ pc \in Rollback /\ pc' \in Rollback \cup {"rolled back", "stuck"}
    BY <1>2 DEF DoRollback, UndoUnit, UndoService, Aside, Restore, Clear, UndoBinary, UndoConfig,
                UndoStart, UndoHealth, UndoApp, Undo, Try, Skip, Rollback
  <2>2. pc \notin Forward
    BY <2>1 DEF Forward, Rollback
  <2>3. ~ ExecuteUpgrade
    BY <2>2 DEF ExecuteUpgrade, Inspect, Download, StopApp, Drain, Export, Backup, StopService,
                InstallConfig, MoveData, CopyData, InstallBinary, StartUnit, WaitUnit,
                StartService, Validate, RestartApp, Command, Forward
  <2> QED
    BY <2>1, <2>3
<1>3. CASE ~ ExecuteUpgrade /\ ~ DoRollback
  BY <1>3 DEF Next, AppWrites, Kill
<1> QED
  BY <1>1, <1>2, <1>3

\* What was touched is flagged.
LEMMA FlaggedStep ==
  ASSUME MachineInv, Next
  PROVE  Flagged'
<1>0. sys \in System /\ flags \subseteq Flag /\ UpgradeIndInv /\ Flagged /\ Sound /\ Undone
  BY DEF MachineInv, UpgradeIndInv, TypeOK
\* A step of the rollback that touches nothing else
<1>1. ASSUME UNCHANGED << plan, flags >>,
              pc \in Rollback, pc' \in Rollback \cup {"rolled back", "stuck"},
              sys'.saved = sys.saved, sys'.unit = sys.unit,
              "mdbStopped" \notin flags => sys'.service = sys.service,
              pc' # "rolled back" => sys'.app = sys.app,
              pc' # "stuck" => /\ sys'.config \in {sys.config, "old"}
                               /\ sys'.binary \in {sys.binary, "old"}
      PROVE  Flagged'
  <2>1. pc \in Rollback /\ pc \notin Final /\ pc' \notin Quiet /\ pc' \notin Before
    BY <1>1 DEF Rollback, Final, Quiet, Before
  <2>2. /\ "configInstallStarted" \notin flags => sys.config = "old"
        /\ "binaryInstallStarted" \notin flags => sys.binary = "old"
        /\ "configInstallStarted" \in flags \/ "binaryInstallStarted" \in flags => sys.saved
        /\ "transientUnit" \notin flags => ~sys.unit
        /\ "mdbStopped" \in flags \/ flags \subseteq {"pm2Stopped"}
        /\ "backupReady" \in flags /\ plan.strategy = "dump" => "dataMoveStarted" \in flags
        /\ "mdbStopped" \notin flags => sys.service = "old"
        /\ "pm2Stopped" \notin flags => sys.app
    BY <1>0, <2>1 DEF Flagged
  <2>3. pc' \in Rollback => pc' # "stuck" /\ pc' # "rolled back"
    BY DEF Rollback
  <2>4. (pc \in Rollback)' => pc' \in Rollback
    BY DEF Rollback
  <2>5. ~ (pc \in Final)' => pc' \in Rollback
    BY <1>1 DEF Final
  <2>6. ~ (pc \in Quiet)' /\ ~ (pc \in Before \ Touching)'
    BY <2>1 DEF Quiet, Before
  <2> QED
    BY <1>1, <2>2, <2>3, <2>4, <2>5, <2>6 DEF Flagged
<1>2. CASE Inspect
  BY <1>0, <1>2 DEF Inspect, Flagged, Sound, System, Forward, Final, Rollback, Quiet, Before,
                    Touching, After
<1>3. CASE Download
  BY <1>0, <1>3 DEF Download, Command, Flagged, Sound, System, Forward, Final, Rollback, Quiet,
                    Before, Touching, After
<1>4. CASE StopApp
  BY <1>0, <1>4 DEF StopApp, Command, Flagged, Sound, System, Forward, Final, Rollback, Quiet,
                    Before, Touching, After
<1>5. CASE Drain
  BY <1>0, <1>5 DEF Drain, Command, Flagged, Sound, System, Forward, Final, Rollback, Quiet,
                    Before, Touching, After
<1>6. CASE Export
  BY <1>0, <1>6 DEF Export, Flagged, Sound, System, Forward, Final, Rollback, Quiet, Before,
                    Touching, After
<1>7. CASE Backup
  BY <1>0, <1>7 DEF Backup, Command, Flagged, Sound, System, Forward, Final, Rollback, Quiet,
                    Before, Touching, After
<1>8. CASE StopService
  BY <1>0, <1>8 DEF StopService, Command, Stopped, Flagged, Sound, System, Forward, Final,
                    Rollback, Quiet, Before, Touching, After
<1>9. CASE InstallConfig
  BY <1>0, <1>9 DEF InstallConfig, Command, Flagged, Sound, System, Forward, Final, Rollback,
                    Quiet, Before, Touching, After
<1>10. CASE MoveData
  <2>1. pc = "data" /\ pc' \in {"binary", "r.unit"} /\ plan' = plan /\ flags \subseteq flags'
        /\ flags' \subseteq flags \cup {"dataMoveStarted", "backupReady"}
        /\ ("backupReady" \in flags' => "dataMoveStarted" \in flags' \/ flags' = flags)
    BY <1>10 DEF MoveData
  <2>2. UNCHANGED << sys.app, sys.service, sys.unit, sys.config, sys.binary, sys.saved >>
    <3>1. \A s \in {sys, Away} : s.app = sys.app /\ s.service = sys.service /\ s.unit = sys.unit
            /\ s.config = sys.config /\ s.binary = sys.binary /\ s.saved = sys.saved
      BY <1>0 DEF Away, System
    <3>2. \A s \in PartlyAway : s.app = sys.app /\ s.service = sys.service /\ s.unit = sys.unit
            /\ s.config = sys.config /\ s.binary = sys.binary /\ s.saved = sys.saved
      BY <1>0, <3>1 DEF PartlyAway, System
    <3>3. sys' \in {sys, Away} \cup PartlyAway
      BY <1>10 DEF MoveData
    <3> QED
      BY <3>1, <3>2, <3>3
  <2>4. "mdbStopped" \in flags /\ "pm2Stopped" \in flags
    BY <2>1 DEF MachineInv, Sound, Touching, Forward, Quiet, After
  <2> QED
    BY <1>0, <2>1, <2>2, <2>4 DEF MachineInv, Flagged, Final, Rollback, Quiet, Before, Touching,
                                  After
<1>11. CASE CopyData
  BY <1>0, <1>11 DEF CopyData, Flagged, Sound, System, Forward, Final, Quiet, Before, Touching
<1>12. CASE InstallBinary
  BY <1>0, <1>12 DEF InstallBinary, Command, Flagged, Sound, System, Forward, Final, Rollback,
                     Quiet, Before, Touching, After
<1>13. CASE StartUnit
  BY <1>0, <1>13 DEF StartUnit, Command, Flagged, Sound, System, Forward, Final, Rollback, Quiet,
                     Before, Touching, After
<1>14. CASE WaitUnit
  <2>1. pc = "wait" /\ pc' \in {"start", "r.unit"} /\ plan' = plan
    BY <1>14 DEF WaitUnit
  <2>2. \A f \in Flag : f # "importTempPath" => (f \in flags' <=> f \in flags)
    BY <1>14 DEF WaitUnit
  <2>3. UNCHANGED << sys.app, sys.service, sys.config, sys.binary, sys.saved >>
    BY <1>0, <1>14 DEF WaitUnit, System
  <2>4. {"pm2Stopped", "mdbStopped", "transientUnit"} \subseteq flags /\ Flagged
    BY <2>1 DEF MachineInv, Sound, Touching, Forward, Quiet, After
  <2> QED
    BY <2>1, <2>2, <2>3, <2>4 DEF Flagged, Flag, Final, Rollback, Quiet, Before, Touching, After
<1>15. CASE StartService
  BY <1>0, <1>15 DEF StartService, Command, Started, Flagged, Sound, System, Forward, Final, Quiet,
                     Before, After
<1>16. CASE Validate
  BY <1>0, <1>16 DEF Validate, Flagged, Sound, System, Forward, Final, Quiet, Before, After
<1>17. CASE RestartApp
  BY <1>0, <1>17 DEF RestartApp, Flagged, Sound, System, Forward, Final, Quiet, Before, After
<1>18. CASE UndoUnit
  BY <1>0, <1>18 DEF UndoUnit, Try, Skip, Flagged, System, Final, Rollback, Quiet, Before, After
<1>19. CASE UndoService
  <2>1. UNCHANGED << plan, flags >> /\ pc = "r.stop" /\ pc' = "r.aside"
        /\ (sys' = sys \/ ("mdbStopped" \in flags /\ sys' = [sys EXCEPT !.service = "off"]))
    BY <1>0, <1>19 DEF UndoService, Try, Skip, Stopped, ServerTouched, MachineInv, Flagged
  <2> QED
    BY <1>0, <2>1 DEF MachineInv, Flagged, System, Final, Rollback, Quiet, Before, Touching, After
<1>20. CASE Aside
  <2>1. CASE Restores /\ sys.data # "none"
    BY <1>0, <1>20, <1>1, <2>1 DEF Aside, Undo, Rollback, System
  <2>2. CASE ~ (Restores /\ sys.data # "none")
    BY <1>20, <1>1, <2>2 DEF Aside, Skip, Rollback
  <2> QED
    BY <2>1, <2>2
<1>21. CASE Restore
  <2>1. CASE ~ Restores
    BY <1>0, <1>1, <1>21, <2>1 DEF Restore, Skip, Rollback
  <2>2. CASE Restores /\ Moved
    BY <1>0, <1>1, <1>21, <2>2 DEF Restore, Undo, Rollback, System
  <2>3. CASE Restores /\ ~ Moved
    BY <1>0, <1>1, <1>21, <2>3 DEF Restore, Undo, Rollback, System
  <2> QED
    BY <2>1, <2>2, <2>3
<1>22. CASE Clear
  <2>1. CASE sys.failed = "none"
    BY <1>1, <1>22, <2>1 DEF Clear, Skip, Rollback
  <2>2. CASE sys.failed # "none"
    BY <1>0, <1>1, <1>22, <2>2 DEF Clear, Undo, Rollback, System
  <2> QED
    BY <2>1, <2>2
<1>23. CASE UndoBinary
  <2>1. CASE "binaryInstallStarted" \notin flags
    BY <1>0, <1>23, <2>1 DEF UndoBinary, Skip, MachineInv, Flagged, Rollback, Final, Quiet, Before,
                             Touching, After
  <2>2. CASE "binaryInstallStarted" \in flags
    <3>1. sys.saved
      BY <1>0, <2>2 DEF MachineInv, Flagged
    <3> QED
      BY <1>0, <1>1, <1>23, <2>2, <3>1 DEF UndoBinary, Undo, System, Rollback
  <2> QED
    BY <2>1, <2>2
<1>24. CASE UndoConfig
  <2>1. CASE flags \cap {"configInstallStarted", "binaryInstallStarted"} = {}
    BY <1>0, <1>24, <2>1 DEF UndoConfig, Skip, MachineInv, Flagged, Rollback, Final, Quiet, Before,
                             Touching, After
  <2>2. CASE flags \cap {"configInstallStarted", "binaryInstallStarted"} # {}
    <3>1. sys.saved
      BY <1>0, <2>2 DEF MachineInv, Flagged
    <3> QED
      BY <1>0, <1>1, <1>24, <2>2, <3>1 DEF UndoConfig, Undo, System, Rollback
  <2> QED
    BY <2>1, <2>2
<1>25. CASE UndoStart
  <2>1. CASE ~ ServerTouched
    BY <1>1, <1>25, <2>1 DEF UndoStart, Skip, Rollback
  <2>2. CASE ServerTouched
    <3>1. "mdbStopped" \in flags
      BY <1>0, <1>25, <2>2 DEF UndoStart, Undo, Flagged, ServerTouched
    <3>2. UNCHANGED << plan, flags >> /\ pc = "r.start" /\ pc' \in {"r.health", "stuck"}
          /\ (sys' = sys \/ sys' = Started(sys))
      BY <1>25, <2>2 DEF UndoStart, Undo
    <3>3. UNCHANGED << sys.saved, sys.unit, sys.app, sys.config, sys.binary >>
      BY <1>0, <3>2 DEF Started, System
    <3> QED
      BY <1>1, <3>1, <3>2, <3>3 DEF Rollback
  <2> QED
    BY <2>1, <2>2
<1>26. CASE UndoHealth
  BY <1>0, <1>26 DEF UndoHealth, Flagged, System, Forward, Final, Rollback, Quiet, Before,
                     Touching, After
<1>27. CASE UndoApp
  BY <1>0, <1>27 DEF UndoApp, Undo, Skip, Flagged, System, Forward, Final, Rollback, Quiet, Before,
                     Touching, After
<1>28. CASE AppWrites
  BY <1>0, <1>28 DEF AppWrites, Flagged, System, Rollback, Quiet, Before, Touching, After
<1>29. CASE Kill
  BY <1>0, <1>29 DEF Kill, Flagged, Rollback, Quiet, Before
<1> QED
  BY <1>2, <1>3, <1>4, <1>5, <1>6, <1>7, <1>8, <1>9, <1>10, <1>11, <1>12, <1>13, <1>14, <1>15,
     <1>16, <1>17, <1>18, <1>19, <1>20, <1>21, <1>22, <1>23, <1>24, <1>25, <1>26, <1>27, <1>28,
     <1>29
    DEF Next, ExecuteUpgrade, DoRollback

\* Each phase finds what the phases before it left.
LEMMA SoundStep ==
  ASSUME MachineInv, Next
  PROVE  Sound'
<1>0. sys \in System /\ flags \subseteq Flag /\ UpgradeIndInv /\ Flagged /\ Sound /\ Undone
  BY DEF MachineInv, UpgradeIndInv, TypeOK
<1>1. CASE Inspect
  BY <1>0, <1>1 DEF Inspect, Sound, Forward, Quiet, Before, Touching, After
<1>2. CASE Download
  BY <1>0, <1>2 DEF Download, Command, Sound, Forward, Quiet, Before, Touching, After
<1>3. CASE StopApp
  BY <1>0, <1>3 DEF StopApp, Command, Sound, System, Forward, Quiet, Before, Touching, After
<1>4. CASE Drain
  BY <1>0, <1>4 DEF Drain, Command, Sound, Forward, Quiet, Before, Touching, After
<1>5. CASE Export
  BY <1>0, <1>5 DEF Export, Sound, Forward, Quiet, Before, Touching, After
<1>6. CASE Backup
  BY <1>0, <1>6 DEF Backup, Command, Sound, System, Forward, Quiet, Before, Touching, After
<1>7. CASE StopService
  BY <1>0, <1>7 DEF StopService, Command, Stopped, Sound, Flagged, System, Forward, Final, Quiet,
                    Before, Touching, After
<1>8. CASE InstallConfig
  BY <1>0, <1>8 DEF InstallConfig, Command, Sound, System, Forward, Quiet, Before, Touching, After
<1>9. CASE MoveData
  BY <1>0, <1>9 DEF MoveData, Away, Sound, System, Forward, Quiet, Before, Touching, After
<1>10. CASE CopyData
  BY <1>0, <1>10 DEF CopyData, Sound, System, Forward, Quiet, Before, Touching, After
<1>11. CASE InstallBinary
  BY <1>0, <1>11 DEF InstallBinary, Command, Sound, System, Forward, Quiet, Before, Touching, After
<1>12. CASE StartUnit
  BY <1>0, <1>12 DEF StartUnit, Command, Sound, System, Forward, Quiet, Before, Touching, After
<1>13. CASE WaitUnit
  BY <1>0, <1>13 DEF WaitUnit, Sound, Forward, Quiet, Before, Touching, After
<1>14. CASE StartService
  BY <1>0, <1>14 DEF StartService, Command, Started, Sound, System, Forward, Quiet, Before,
                     Touching, After
<1>15. CASE Validate
  BY <1>0, <1>15 DEF Validate, Same, Sound, Forward, Quiet, Before, Touching, After, Served
<1>16. CASE RestartApp
  BY <1>16 DEF RestartApp, Sound, Forward, Quiet, Before, Touching, After
<1>17. CASE DoRollback
  <2>1. pc' \in Rollback \cup {"rolled back", "stuck"}
    BY <1>17, Phases
  <2> QED
    BY <2>1 DEF Sound, Forward, Rollback, Quiet, Before, Touching, After
<1>18. CASE AppWrites \/ Kill
  BY <1>0, <1>18 DEF AppWrites, Kill, Sound, Flagged, System, Forward, Quiet, Before, Touching,
                     After, Served
<1> QED
  BY <1>1, <1>2, <1>3, <1>4, <1>5, <1>6, <1>7, <1>8, <1>9, <1>10, <1>11, <1>12, <1>13, <1>14,
     <1>15, <1>16, <1>17, <1>18
    DEF Next, ExecuteUpgrade

\* What the rollback has passed is as it was.
LEMMA UndoneStep ==
  ASSUME MachineInv, Next
  PROVE  Undone'
<1>0. sys \in System /\ flags \subseteq Flag /\ UpgradeIndInv /\ Flagged /\ Sound /\ Undone
  BY DEF MachineInv, UpgradeIndInv, TypeOK
<1>1. CASE Inspect
  BY <1>0, <1>1 DEF Inspect, Undone, Sound, Flagged, System, Forward, Final, Late
<1>2. CASE Download
  BY <1>0, <1>2 DEF Download, Command, Undone, Sound, Flagged, System, Forward, Final, Late
<1>3. CASE StopApp
  BY <1>0, <1>3 DEF StopApp, Command, Undone, Sound, Flagged, System, Forward, Final, Late
<1>4. CASE Drain
  BY <1>0, <1>4 DEF Drain, Command, Undone, Sound, Flagged, System, Forward, Final, Late
<1>5. CASE Export
  BY <1>0, <1>5 DEF Export, Undone, Sound, Flagged, System, Forward, Final, Late
<1>6. CASE Backup
  BY <1>0, <1>6 DEF Backup, Command, Undone, Sound, Flagged, System, Forward, Final, Late
<1>7. CASE StopService
  BY <1>0, <1>7 DEF StopService, Command, Stopped, Undone, Sound, Flagged, UpgradeIndInv,
                    Restorable, Restoring, System, Forward, Final, Quiet, Before, Touching, After,
                    Late, Served
<1>8. CASE InstallConfig
  BY <1>0, <1>8 DEF InstallConfig, Command, Undone, Sound, Flagged, UpgradeIndInv, Restorable,
                    Restoring, System, Forward, Final, Quiet, Before, Touching, After, Late, Served
<1>9. CASE MoveData
  <2>1. pc = "data" /\ pc' \in {"binary", "r.unit"} /\ early' = early /\ ~ sys.app
    BY <1>9 DEF MoveData, MachineInv, Sound, Forward, Quiet
  <2>2. sys.data = "old"
    BY <2>1 DEF MachineInv, UpgradeIndInv, Untouched, Before
  <2>3. sys'.app = sys.app /\ sys'.data # "newer"
    <3>1. \A s \in {sys, Away} : s.app = sys.app /\ s.data # "newer"
      BY <1>0, <2>2 DEF Away, System
    <3>2. \A s \in PartlyAway : s.app = sys.app /\ s.data # "newer"
      BY <1>0, <2>2, <3>1 DEF PartlyAway, System
    <3> QED
      BY <1>9, <3>1, <3>2 DEF MoveData
  <2> QED
    BY <2>1, <2>3 DEF Undone, Rollback, Late
<1>10. CASE CopyData
  BY <1>0, <1>10 DEF CopyData, Undone, Sound, Flagged, System, Forward, Final, Rollback, Late
<1>11. CASE InstallBinary
  BY <1>0, <1>11 DEF InstallBinary, Command, Undone, Sound, Flagged, UpgradeIndInv, Restorable,
                    Restoring, System, Forward, Final, Rollback, Quiet, Before, Touching, After,
                    Late, Served
<1>12. CASE StartUnit
  BY <1>0, <1>12 DEF StartUnit, Command, Undone, Sound, Flagged, UpgradeIndInv, Restorable,
                    Restoring, System, Forward, Final, Rollback, Quiet, Before, Touching, After,
                    Late, Served
<1>13. CASE WaitUnit
  BY <1>0, <1>13 DEF WaitUnit, Undone, Sound, Flagged, UpgradeIndInv, Restorable, Restoring, System,
                    Forward, Final, Rollback, Quiet, Before, Touching, After, Late, Served
<1>14. CASE StartService \/ Validate \/ RestartApp
  BY <1>0, <1>14 DEF StartService, Validate, RestartApp, Command, Started, Undone, Sound, System,
                    Forward, Rollback, Quiet, Late
<1>15. CASE UndoUnit \/ UndoService
  BY <1>0, <1>15 DEF UndoUnit, UndoService, Try, Skip, Stopped, Undone, System, Final, Rollback,
                    Late
<1>16. CASE Aside \/ Clear
  BY <1>0, <1>16 DEF Aside, Clear, Undo, Skip, Undone, System, Final, Rollback, Late
<1>17. CASE Restore
  <2>1. Restorable /\ Undone
    BY DEF MachineInv, UpgradeIndInv
  <2>2. CASE ~ Restores
    <3>1. sys.data = "old" /\ pc = "r.restore"
      BY <1>17, <2>1, <2>2 DEF Restore, Skip, Restores, Restorable, Restoring
    <3> QED
      BY <1>17, <2>1, <2>2, <3>1 DEF Restore, Skip, Undone, Rollback, Late
  <2>3. CASE Restores /\ Moved
    <3>1. sys.old = "old" /\ pc = "r.restore"
      BY <1>17, <2>1, <2>3 DEF Restore, Undo, Restores, Restorable, Restoring
    <3> QED
      BY <1>0, <1>17, <2>1, <2>3, <3>1 DEF Restore, Undo, Undone, Rollback, Late, Final, System
  <2>4. CASE Restores /\ ~ Moved
    <3>1. sys.cold = "old" /\ pc = "r.restore"
      BY <1>17, <2>1, <2>4 DEF Restore, Undo, Restores, Restorable, Restoring
    <3> QED
      BY <1>0, <1>17, <2>1, <2>4, <3>1 DEF Restore, Undo, Undone, Rollback, Late, Final, System
  <2> QED
    BY <2>2, <2>3, <2>4
<1>18. CASE UndoBinary
  BY <1>0, <1>18 DEF UndoBinary, Undo, Skip, Undone, Flagged, System, Final, Rollback, Late
<1>19. CASE UndoConfig
  <2>1. Undone /\ Flagged
    BY DEF MachineInv
  <2>2. CASE flags \cap {"configInstallStarted", "binaryInstallStarted"} = {}
    <3>1. sys.config = "old"
      BY <1>19, <2>1, <2>2 DEF UndoConfig, Skip, Flagged, Final
    <3> QED
      BY <1>19, <2>1, <2>2, <3>1 DEF UndoConfig, Skip, Undone, Rollback, Late
  <2>3. CASE flags \cap {"configInstallStarted", "binaryInstallStarted"} # {}
    <3>1. sys.saved
      BY <2>1, <2>3 DEF Flagged
    <3> QED
      BY <1>0, <1>19, <2>1, <2>3, <3>1 DEF UndoConfig, Undo, Undone, Rollback, Late, System, Final
  <2> QED
    BY <2>2, <2>3
<1>20. CASE UndoStart
  <2>1. Undone /\ Flagged
    BY DEF MachineInv
  <2>2. CASE ~ ServerTouched
    <3>1. pc = "r.start" /\ Served = "old"
      BY <1>20, <2>1, <2>2 DEF UndoStart, Skip, ServerTouched, Flagged, Served, Rollback
    <3> QED
      BY <1>20, <2>1, <2>2, <3>1 DEF UndoStart, Skip, Undone, Rollback, Late, Served
  <2>3. CASE ServerTouched
    <3>1. /\ pc = "r.start" /\ pc' \in {"r.health", "stuck"}
          /\ sys' \in {sys, Started(sys)} /\ UNCHANGED << early, flags >>
      BY <1>20, <2>3 DEF UndoStart, Undo
    <3>2. UNCHANGED << sys.app, sys.data, sys.binary, sys.config >>
      BY <1>0, <3>1 DEF Started, System
    <3> QED
      BY <2>1, <3>1, <3>2 DEF Undone, Rollback, Late, Final
  <2> QED
    BY <2>2, <2>3
<1>21. CASE UndoHealth \/ UndoApp
  BY <1>0, <1>21 DEF UndoHealth, UndoApp, Undo, Skip, Undone, System, Rollback, Late, Served
<1>22. CASE AppWrites
  <2>1. Undone /\ Flagged /\ Sound /\ Untouched /\ pc \in Forward \cup Rollback \cup Final
    BY DEF MachineInv, UpgradeIndInv, TypeOK
  <2>2. sys.app /\ Served = "new" /\ sys.data = "new" /\ UNCHANGED << pc, flags, early >>
    BY <1>22 DEF AppWrites
  <2>3. sys'.app = sys.app /\ sys'.data = "newer"
    BY <1>0, <1>22 DEF AppWrites, System
  <2>4. pc \notin Forward
    BY <2>1, <2>2 DEF Sound, Untouched, Quiet, Before
  <2>5. pc \in Rollback => early
    BY <2>1, <2>2 DEF Undone, Flagged, Served
  <2>6. pc \notin Late
    BY <2>1, <2>2 DEF Undone
  <2> QED
    BY <2>1, <2>2, <2>3, <2>4, <2>5, <2>6 DEF Undone, Rollback, Late, Final
<1>23. CASE Kill
  BY <1>23 DEF Kill, Undone, Final, Rollback, Late
<1> QED
  BY <1>1, <1>2, <1>3, <1>4, <1>5, <1>6, <1>7, <1>8, <1>9, <1>10, <1>11, <1>12, <1>13, <1>14,
     <1>15, <1>16, <1>17, <1>18, <1>19, <1>20, <1>21, <1>22, <1>23
    DEF Next, ExecuteUpgrade, DoRollback

-------------------------------------------------------------------------------
(***************************************************************************)
(* How the script may end, and under what the relay may run.               *)
(***************************************************************************)
\* Every step keeps it, and it holds at first.
LEMMA MachineStep == MachineInv /\ [Next]_vars => MachineInv'
<1> SUFFICES ASSUME MachineInv, [Next]_vars PROVE MachineInv'
  OBVIOUS
<1>1. CASE Next
  <2>1. UpgradeIndInv'
    BY <1>1, UpgradeStep DEF MachineInv
  <2> QED
    BY <1>1, <2>1, FlaggedStep, SoundStep, UndoneStep DEF MachineInv
<1>2. CASE UNCHANGED vars
  <2>1. UpgradeIndInv'
    BY <1>2, UpgradeStep DEF MachineInv
  <2>2. Flagged'
    BY <1>2 DEF vars, MachineInv, Flagged
  <2>3. Sound'
    <3>1. Sound /\ plan' = plan /\ pc' = pc /\ flags' = flags /\ sys' = sys /\ early' = early
      BY <1>2 DEF vars, MachineInv
    <3>2. Served' = Served
      BY <3>1 DEF Served
    <3> QED
      BY <3>1, <3>2 DEF Sound, Forward, Quiet, Before, Touching, After
  <2>4. Undone'
    BY <1>2 DEF vars, MachineInv, Undone, Served
  <2> QED
    BY <2>1, <2>2, <2>3, <2>4 DEF MachineInv
<1> QED
  BY <1>1, <1>2

\* At first the old version is all there is.
LEMMA MachineInit == Init => MachineInv
<1> SUFFICES ASSUME Init PROVE MachineInv
  OBVIOUS
<1>1. pc = "inspect" /\ flags = {} /\ ~ early
  BY DEF Init
<1>2. /\ sys.config = "old" /\ sys.binary = "old" /\ ~ sys.unit
      /\ sys.service # "new" /\ sys.data = "old"
  BY DEF Init
<1>3. Flagged /\ Sound /\ Undone
  BY <1>1, <1>2 DEF Flagged, Sound, Undone, Forward, Rollback, Final, Quiet, Touching, Late,
                    Before, After
<1> QED
  BY <1>3, UpgradeInit DEF MachineInv

\* The relay runs on what belongs together.  Before the end it follows from the
\* invariant; a step that ends the script leaves what it found.
LEMMA MatchedStep ==
  ASSUME MachineInv, MachineInv', Matched, Next
  PROVE  Matched'
<1>0. sys \in System /\ flags \subseteq Flag /\ pc' \in Forward \cup Rollback \cup Final
  BY DEF MachineInv, UpgradeIndInv, TypeOK
<1>1. CASE pc' \notin Final
  <2>1. CASE pc' \in Quiet
    BY <2>1 DEF MachineInv, UpgradeIndInv, Untouched, Flagged, Sound, Matched, Served,
                Quiet, Before, Touching, After, Final
  <2>2. CASE pc' \in Forward \ Quiet
    BY <2>2 DEF MachineInv, Sound, Matched
  <2>3. CASE pc' \in Rollback /\ sys'.app /\ ~ early'
    <3>1. flags' \subseteq {"pm2Stopped"} /\ sys'.service = "old" /\ ~ sys'.unit
      BY <2>3 DEF MachineInv, Undone, Flagged
    <3>2. sys'.data = "old"
      BY <2>3, <3>1 DEF MachineInv, UpgradeIndInv, Restorable, Restoring, Undone, Late, Rollback,
                        Moved
    <3>3. sys'.binary = "old" /\ sys'.config = "old"
      BY <1>1, <3>1 DEF MachineInv, Flagged
    <3> QED
      BY <3>1, <3>2, <3>3 DEF Matched, Served
  <2> QED
    BY <1>0, <1>1, <2>1, <2>2, <2>3 DEF Matched
<1>2. CASE sys' = sys /\ early' = early
  BY <1>2 DEF Matched, Served
<1>3. CASE AppWrites
  BY <1>0, <1>3 DEF AppWrites, Matched, Served, System
<1>4. CASE RestartApp /\ pc' = "done"
  BY <1>0, <1>4 DEF RestartApp, MachineInv, Sound, Matched, Served, System
<1>5. CASE UndoApp
  BY <1>0, <1>1, <1>2, <1>5 DEF UndoApp, Undo, Skip, MachineInv, Undone, Late, Matched, Served,
                                System, Final
<1>6. CASE pc' = "stuck" /\ DoRollback /\ sys.app /\ ~ early
  <2>1. pc \in Rollback /\ early' = early
    BY <1>6, Phases
  <2>2. flags \subseteq {"pm2Stopped"}
    BY <1>6, <2>1 DEF MachineInv, Undone
  <2>3. ~ Restores /\ ~ ServerTouched
    BY <2>2 DEF Restores, Moved, ServerTouched
  <2>4. CASE Clear
    BY <1>0, <2>4 DEF Clear, Undo, Skip, Matched, Served, System
  <2>5. sys' = sys \/ Clear \/ UndoApp
    BY <1>6, <2>2, <2>3 DEF DoRollback, UndoUnit, UndoService, Aside, Restore, UndoBinary,
                            UndoConfig, UndoStart, UndoHealth, Undo, Try, Skip
  <2> QED
    BY <1>2, <1>5, <2>1, <2>4, <2>5
<1>7. CASE pc' = "stuck" /\ DoRollback /\ ~ (sys.app /\ ~ early)
  <2>1. early' = early
    BY <1>7, Phases
  <2>2. UndoApp \/ sys'.app = sys.app
    <3>1. Started(sys).app = sys.app
      BY <1>0 DEF Started, System
    <3> QED
      BY <1>0, <1>7, <3>1 DEF DoRollback, UndoUnit, UndoService, Aside, Restore, Clear, UndoBinary,
                              UndoConfig, UndoStart, UndoHealth, Undo, Try, Skip, System
  <2> QED
    BY <1>5, <1>7, <2>1, <2>2 DEF Matched
<1> QED
  <2>1. CASE ExecuteUpgrade /\ pc' \in Final
    <3>1. Inspect \/ RestartApp
      BY <2>1 DEF ExecuteUpgrade, Download, StopApp, Drain, Export, Backup, StopService,
                  InstallConfig, MoveData, CopyData, InstallBinary, StartUnit, WaitUnit,
                  StartService, Validate, Command, Final
    <3>2. pc' = "done" \/ (sys' = sys /\ early' = early)
      BY <2>1, <3>1 DEF Inspect, RestartApp, Final
    <3> QED
      BY <1>2, <1>4, <3>1, <3>2 DEF Inspect
  <2>2. CASE DoRollback /\ pc' \in Final
    <3>1. pc' \in {"stuck", "rolled back"}
      BY <2>2, Phases DEF Rollback, Final
    <3>2. pc' = "rolled back" => UndoApp
      BY <2>2 DEF DoRollback, UndoUnit, UndoService, Aside, Restore, Clear, UndoBinary, UndoConfig,
                  UndoStart, UndoHealth, Undo, Try, Skip
    <3> QED
      BY <1>5, <1>6, <1>7, <2>2, <3>1, <3>2
  <2>3. CASE Kill
    BY <1>2, <2>3 DEF Kill
  <2> QED
    BY <1>1, <1>3, <2>1, <2>2, <2>3 DEF Next

\* An end that says it is complete is: the last step finds everything in place.
LEMMA EndedStep ==
  ASSUME MachineInv, RolledBack, Completed, Next
  PROVE  RolledBack' /\ Completed'
<1>0. sys \in System /\ plan \in Plan
  BY DEF MachineInv, UpgradeIndInv, TypeOK
<1>1. CASE RestartApp
  <2>1. pc = "pm2 restart" /\ pc' \in {"done", "r.unit"}
    BY <1>1 DEF RestartApp
  <2>2. CASE pc' = "done"
    <3>1. "old" \in {sys.old, sys.cold}
      BY <2>1 DEF MachineInv, UpgradeIndInv, BackedUp, After
    <3>2. /\ sys.binary = "new" /\ sys.data = "new" /\ Served = "new"
          /\ sys.config = (IF plan.changes THEN "new" ELSE "old")
      BY <2>1 DEF MachineInv, Sound, Touching, After
    <3>3. plan' = plan /\ sys' = [sys EXCEPT !.app = TRUE]
      BY <1>1, <2>2 DEF RestartApp
    <3> QED
      BY <1>0, <2>2, <3>1, <3>2, <3>3 DEF RolledBack, Completed, Served, System
  <2>3. CASE pc' = "r.unit"
    BY <2>3 DEF RolledBack, Completed
  <2> QED
    BY <2>1, <2>2, <2>3
<1>2. CASE UndoApp
  <2>1. pc = "r.pm2" /\ pc' \in {"rolled back", "stuck"}
    BY <1>2 DEF UndoApp, Undo, Skip
  <2>2. CASE pc' = "rolled back"
    <3>1. sys.binary = "old" /\ sys.config = "old" /\ sys.data = "old" /\ Served = "old"
      BY <2>1 DEF MachineInv, Undone, Late
    <3>2. sys' = [sys EXCEPT !.app = TRUE] \/ (sys.app /\ sys' = sys)
      BY <1>2, <2>1, <2>2 DEF UndoApp, Undo, Skip, MachineInv, Flagged, Rollback
    <3> QED
      BY <1>0, <2>2, <3>1, <3>2 DEF RolledBack, Completed, Served, System
  <2>3. CASE pc' = "stuck"
    BY <2>3 DEF RolledBack, Completed
  <2> QED
    BY <2>1, <2>2, <2>3
<1>3. CASE AppWrites
  <2>1. sys.data = "new" /\ UNCHANGED << plan, pc >> /\ sys' = [sys EXCEPT !.data = "newer"]
    BY <1>3 DEF AppWrites
  <2> QED
    BY <1>0, <2>1 DEF RolledBack, Completed, Served, System
<1>4. CASE pc' \notin {"done", "rolled back"}
  BY <1>4 DEF RolledBack, Completed
<1>5. CASE ExecuteUpgrade /\ pc' = "done"
  BY <1>1, <1>5 DEF ExecuteUpgrade, Inspect, Download, StopApp, Drain, Export, Backup, StopService,
                    InstallConfig, MoveData, CopyData, InstallBinary, StartUnit, WaitUnit,
                    StartService, Validate, Command
<1>6. CASE DoRollback /\ pc' = "rolled back"
  BY <1>2, <1>6 DEF DoRollback, UndoUnit, UndoService, Aside, Restore, Clear, UndoBinary,
                    UndoConfig, UndoStart, UndoHealth, Undo, Try, Skip
<1> QED
  <2>1. ExecuteUpgrade => pc' # "rolled back"
    BY Phases DEF Forward
  <2>2. DoRollback => pc' # "done"
    BY Phases DEF Rollback
  <2> QED
    BY <1>3, <1>4, <1>5, <1>6, <2>1, <2>2 DEF Next, Kill

\* So no end is half done.
LEMMA EndsInit == Init => NothingHalfDone
<1> SUFFICES ASSUME Init PROVE NothingHalfDone
  OBVIOUS
<1>1. pc = "inspect"
  BY DEF Init
<1>2. /\ sys.config = "old" /\ sys.binary = "old" /\ ~ sys.unit
      /\ sys.service # "new" /\ sys.data = "old"
  BY DEF Init
<1> QED
  BY <1>1, <1>2 DEF NothingHalfDone, RolledBack, Completed, Matched, Served

\* The ends, step by step
LEMMA EndsStep == MachineInv /\ MachineInv' /\ NothingHalfDone /\ [Next]_vars => NothingHalfDone'
<1> SUFFICES ASSUME MachineInv, MachineInv', NothingHalfDone, [Next]_vars
             PROVE  NothingHalfDone'
  OBVIOUS
<1>1. CASE Next
  BY <1>1, MatchedStep, EndedStep DEF NothingHalfDone
<1>2. CASE UNCHANGED vars
  BY <1>2 DEF vars, NothingHalfDone, RolledBack, Completed, Matched, Served
<1> QED
  BY <1>1, <1>2

\* However the upgrade or its rollback ends, and whenever the relay is on, the
\* binary, the configuration, the database and the service belong together, for
\* any sizes, room and number of failures (executeUpgrade, rollback).
THEOREM EndsWhole == Spec => []NothingHalfDone
BY MachineInit, MachineStep, EndsInit, EndsStep, PTL DEF Spec

\* What the relay wrote to the new database stays there: a rollback is over
\* before the relay writes, but for the restart that is taken for a failure
\* (the end of executeUpgrade).
THEOREM WritesStay == Spec => WritesKept
<1>1. MachineInv /\ [Next]_vars => (sys.data = "newer" => sys'.data = "newer" \/ early)
  <2> SUFFICES ASSUME MachineInv, [Next]_vars, sys.data = "newer", ~ early
               PROVE  sys'.data = "newer"
    OBVIOUS
  <2>1. pc \in Final
    BY DEF MachineInv, Undone
  <2>2. CASE Next
    <3>1. ~ ExecuteUpgrade /\ ~ DoRollback
      BY <2>1, <2>2, Phases DEF Forward, Rollback, Final
    <3> QED
      BY <2>1, <2>2, <3>1 DEF Next, AppWrites, Kill
  <2>3. CASE UNCHANGED vars
    BY <2>3 DEF vars
  <2> QED
    BY <2>2, <2>3
<1> QED
  BY <1>1, MachineInit, MachineStep, PTL DEF Spec, WritesKept

-------------------------------------------------------------------------------
(***************************************************************************)
(* What was looked at before the first change is enough.                   *)
(***************************************************************************)
Inspected ==
  pc \in (Forward \ {"inspect"}) \cup Rollback =>
    Paths /\ Options /\ Dumps /\ Snapshots /\ Filesystems /\ Versions

\* Where no command of the rollback failed, and where none failed at all
RollbackSound ==
  /\ pc # "stuck"
  /\ pc \in Rollback \ {"r.unit"} => ~sys.unit
  /\ pc \in {"r.aside", "r.restore", "r.clear", "r.binary", "r.config", "r.start"}
       /\ "mdbStopped" \in flags => sys.service = "off"
  /\ pc = "r.health" => sys.service = "old"
UpgradeSound ==
  /\ pc \in {"start", "validate"} => sys.data = "new" /\ ~sys.unit
  /\ pc = "validate" => sys.service = "new"
  /\ pc \in Rollback \cup {"rolled back", "stuck"} =>
       "mdbStopped" \notin flags /\ free < RequiredNow
Unfailing ==
  /\ failures.rollback = 0 => RollbackSound
  /\ failures.upgrade + failures.rollback = 0 => UpgradeSound

\* There is room for what is to come.
Unexported == {"download", "pm2 stop", "drain", "export"}
Exported == {"backup", "stop", "config", "data"}
Unserved == {"binary", "unit", "wait"}
Serving == {"start", "validate", "pm2 restart"}
Room ==
  /\ low >= 0
  /\ plan.strategy = "dump" =>
       /\ pc \in Unexported => free >= DumpCreationRequired
       /\ pc \in Exported \cup Unserved => free >= DumpImportRequired
  /\ plan.strategy = "dumpless" =>
       /\ pc \in Unexported \cup Exported => free >= Required
       /\ pc \in Unserved => free >= DataBytes + GiB
       /\ pc \in Serving \/ (pc \in Restoring /\ "backupReady" \in flags) => free >= DataBytes

ChecksInv == MachineInv /\ Inspected /\ Unfailing /\ Room

\* Only the way in looks; the plan never changes.
LEMMA InspectedStep ==
  ASSUME MachineInv, Inspected, Next
  PROVE  Inspected'
<1>0. pc \in Forward \cup Rollback \cup Final /\ plan' = plan
  BY Phases DEF MachineInv, UpgradeIndInv, TypeOK
<1>1. CASE Inspect
  BY <1>1 DEF Inspect, Inspected, Forward, Rollback, Paths, Options, Dumps, Snapshots, Filesystems,
              Versions, Meets
<1>2. CASE pc' \notin Forward \cup Rollback
  BY <1>2 DEF Inspected
<1>3. CASE pc \in (Forward \ {"inspect"}) \cup Rollback
  BY <1>0, <1>3 DEF Inspected, Paths, Options, Dumps, Snapshots, Filesystems, Versions, Meets
<1>4. CASE pc = "inspect" /\ ~ Inspect
  BY <1>2, <1>4, Phases DEF Next, ExecuteUpgrade, Inspect, Download, StopApp, Drain, Export,
                            Backup, StopService, InstallConfig, MoveData, CopyData, InstallBinary,
                            StartUnit, WaitUnit, StartService, Validate, RestartApp, Command,
                            Rollback, AppWrites, Kill, Forward, Inspected
<1>5. CASE pc \in Final
  <2>1. pc' = pc
    BY <1>0, <1>5, Phases DEF Next, AppWrites, Kill, Forward, Rollback, Final
  <2> QED
    BY <1>5, <2>1 DEF Inspected, Forward, Rollback, Final
<1> QED
  BY <1>0, <1>1, <1>3, <1>4, <1>5

\* Sizes are numbers, and the checks ask for no less than what is kept.
Numbers ==
  /\ {DataBytes, SnapshotBytes, DumpBytes, UnpackedBytes, GiB} \subseteq Nat
  /\ UnpackedBytes <= DataBytes /\ DumpBytes <= DataBytes
  /\ CeilDiv(UnpackedBytes * 110, 100) \in Nat /\ CeilDiv(DataBytes * 125, 100) \in Nat
  /\ DataBytes <= CeilDiv(DataBytes * 125, 100)
  /\ DumpCreationRequired \in Nat /\ DumpImportRequired \in Nat /\ Required \in Nat
  /\ Required >= DataBytes + GiB

\* It is so, by the assumption on the sizes.
LEMMA Sizes == Numbers
<1>1. {DataBytes, SnapshotBytes, DumpBytes, UnpackedBytes, GiB} \subseteq Nat
      /\ UnpackedBytes <= DataBytes /\ DumpBytes <= DataBytes
  BY UpgradeAssumption
<1>2. CeilDiv(UnpackedBytes * 110, 100) \in Nat /\ CeilDiv(DataBytes * 125, 100) \in Nat
  BY <1>1, Rounding
<1>3. DataBytes <= CeilDiv(DataBytes * 125, 100)
  BY <1>1 DEF CeilDiv
<1>4. DumpCreationRequired \in Nat /\ Required \in Nat /\ Required >= DataBytes + GiB
  BY <1>1 DEF DumpCreationRequired, Required
<1>5. DumpImportRequired \in Nat
  BY <1>1, <1>2 DEF DumpImportRequired
<1> QED
  BY <1>1, <1>2, <1>3, <1>4, <1>5 DEF Numbers

\* The disk holds what each step uses.
LEMMA RoomStep ==
  ASSUME MachineInv, Inspected, Room, Next
  PROVE  Room'
<1>0. free \in Int /\ low \in Int /\ low <= free /\ plan \in Plan
  BY DEF MachineInv, UpgradeIndInv, TypeOK
<1>1. pc \in Before => "backupReady" \notin flags
  BY DEF MachineInv, UpgradeIndInv, Untouched
<1>2. Numbers
  BY Sizes
<1>3. CASE Inspect
  <2>1. CASE pc' = "download"
    <3>1. free >= (IF plan.strategy = "dump" THEN DumpCreationRequired ELSE Required)
      BY <1>3, <2>1 DEF Inspect
    <3> QED
      BY <1>0, <1>2, <1>3, <2>1, <3>1 DEF Inspect, Room, NoDisk, Unexported, Exported, Unserved,
                                          Serving, Restoring, Plan
  <2>2. CASE pc' \in {"refused", "dry run"}
    BY <1>3, <2>2 DEF Inspect, Room, NoDisk, Unexported, Exported, Unserved, Serving, Restoring
  <2> QED
    BY <1>3, <2>1, <2>2 DEF Inspect
<1>4. CASE Download \/ StopApp \/ Drain \/ Backup
  BY <1>1, <1>4 DEF Download, StopApp, Drain, Backup, Command, Room, NoDisk, Unexported, Exported,
                    Unserved, Serving, Before
<1>5. CASE Export
  <2>1. pc = "export" /\ plan' = plan /\ flags' = flags /\ pc' \in {"backup", "r.unit"}
        /\ "backupReady" \notin flags /\ (pc' = "backup" => free' >= RequiredNow)
    BY <1>1, <1>5 DEF Export, Before
  <2>2. CASE plan.strategy = "dumpless"
    <3>1. Uses(DataBytes + SnapshotBytes, 0) /\ free >= Required
      BY <1>5, <2>1, <2>2 DEF Export, Room, Unexported
    <3>2. free' = free /\ low' >= 0
      BY <1>0, <1>2, <3>1 DEF Uses, Numbers, Room, Required
    <3> QED
      BY <2>1, <2>2, <3>1, <3>2 DEF Room, Unexported, Exported, Unserved, Serving, Restoring,
                                    Rollback
  <2>3. CASE plan.strategy = "dump"
    <3>1. Uses(UnpackedBytes + DumpBytes, DumpBytes) /\ free >= DumpCreationRequired
      <4>1. ~ Meets({"dump apart"})
        BY <2>1, <2>3 DEF Inspected, Filesystems, Forward
      <4> QED
        BY <1>5, <2>1, <2>3, <4>1 DEF Export, Room, Unexported
    <3>2. low' >= 0
      BY <1>0, <1>2, <3>1 DEF Uses, Numbers, Room, DumpCreationRequired
    <3> QED
      BY <2>1, <2>3, <3>2 DEF Room, Unexported, Exported, Unserved, Serving, Restoring, Rollback,
                              RequiredNow
  <2> QED
    BY <1>0, <2>2, <2>3 DEF Plan
<1>6. CASE StopService \/ InstallConfig
  BY <1>1, <1>6 DEF StopService, InstallConfig, Command, Room, NoDisk, Unexported, Exported,
                    Unserved, Serving, Before
<1>7. CASE MoveData
  <2>1. pc = "data" /\ plan' = plan /\ plan.strategy = "dump" /\ pc' \in {"binary", "r.unit"}
    BY <1>7 DEF MoveData
  <2>2. NoDisk
    <3>1. ~ Meets({"dump apart"})
      BY <2>1 DEF Inspected, Filesystems, Forward
    <3> QED
      BY <1>7, <3>1 DEF MoveData
  <2> QED
    BY <2>1, <2>2 DEF Room, NoDisk, Unexported, Exported, Unserved, Serving
<1>8. CASE CopyData
  <2>1. /\ pc = "data" /\ pc' \in {"binary", "r.unit"}
        /\ plan' = plan /\ plan.strategy = "dumpless"
        /\ Uses(SnapshotBytes + DataBytes, SnapshotBytes + DataBytes)
    BY <1>8 DEF CopyData
  <2>2. free >= Required
    BY <2>1 DEF Room, Exported
  <2>3. low' >= 0 /\ free' >= DataBytes + GiB
    BY <1>0, <1>2, <2>1, <2>2 DEF Numbers, Uses, Room, Required
  <2>4. free' >= DataBytes
    BY <1>0, <1>2, <2>1, <2>3 DEF Numbers, Uses
  <2> QED
    BY <2>1, <2>3, <2>4 DEF Room, Unexported, Exported, Unserved, Serving, Restoring
<1>9. CASE InstallBinary
  <2>1. pc = "binary" /\ pc' \in {"unit", "r.unit"} /\ plan' = plan /\ NoDisk
    BY <1>9 DEF InstallBinary, Command
  <2>2. plan.strategy = "dumpless" => free' >= DataBytes /\ free' >= DataBytes + GiB
    BY <1>0, <1>2, <2>1 DEF Numbers, Room, Unserved, NoDisk
  <2> QED
    BY <2>1, <2>2 DEF Room, NoDisk, Unexported, Exported, Unserved, Serving
<1>10. CASE StartUnit
  <2>1. pc = "unit" /\ pc' \in {"wait", "r.unit"} /\ plan' = plan /\ NoDisk
    BY <1>10 DEF StartUnit, Command
  <2>2. plan.strategy = "dumpless" => free' >= DataBytes /\ free' >= DataBytes + GiB
    BY <1>0, <1>2, <2>1 DEF Numbers, Room, Unserved, NoDisk
  <2> QED
    BY <2>1, <2>2 DEF Room, NoDisk, Unexported, Exported, Unserved, Serving
<1>11. CASE WaitUnit
  <2>1. pc = "wait" /\ plan' = plan /\ pc' \in {"start", "r.unit"}
    BY <1>11 DEF WaitUnit
  <2>2. CASE plan.strategy = "dump"
    <3> DEFINE staged == CeilDiv(UnpackedBytes * 110, 100)
               grown == CeilDiv(DataBytes * 125, 100)
    <3>1. free >= grown + staged + GiB
      BY <2>1, <2>2 DEF Room, Unserved, DumpImportRequired
    <3>2. PICK kept \in {DataBytes, grown}, left \in {0, staged} : Uses(kept + staged, kept + left)
      BY <1>11, <2>2 DEF WaitUnit
    <3>3. grown \in Nat /\ staged \in Nat /\ DataBytes <= grown
      BY <1>2 DEF Numbers
    <3> HIDE DEF grown, staged
    <3>4. low' >= 0
      BY <1>0, <1>2, <3>1, <3>2, <3>3 DEF Numbers, Uses, Room
    <3> QED
      BY <2>1, <2>2, <3>4 DEF Room, Unexported, Exported, Unserved
  <2>3. CASE plan.strategy = "dumpless"
    <3>1. free >= DataBytes + GiB
      BY <2>1, <2>3 DEF Room, Unserved
    <3>2. PICK grown \in {0, GiB} : Uses(grown, grown)
      BY <1>11, <2>3 DEF WaitUnit
    <3>3. low' >= 0 /\ free' >= DataBytes
      BY <1>0, <1>2, <3>1, <3>2 DEF Numbers, Uses, Room
    <3> QED
      BY <2>1, <2>3, <3>3 DEF Room, Unexported, Exported, Unserved
  <2> QED
    BY <1>0, <2>2, <2>3 DEF Plan
<1>12. CASE StartService \/ Validate \/ RestartApp
  BY <1>12 DEF StartService, Validate, RestartApp, Command, Room, NoDisk, Unexported, Exported,
               Unserved, Serving
<1>13. CASE UndoUnit \/ UndoService
  BY <1>13 DEF UndoUnit, UndoService, Try, Skip, Room, NoDisk, Unexported, Exported, Unserved,
               Serving, Restoring
<1>14. CASE Aside \/ Clear
  BY <1>14 DEF Aside, Clear, Undo, Skip, Room, NoDisk, Unexported, Exported, Unserved, Serving,
               Restoring
<1>15. CASE Restore
  <2>1. pc = "r.restore" /\ pc' \in {"r.clear", "r.binary", "stuck"} /\ plan' = plan
    BY <1>15 DEF Restore, Skip, Undo
  <2>2. low' >= 0
    <3>1. CASE NoDisk
      BY <3>1 DEF NoDisk, Room
    <3>2. CASE ~ NoDisk
      <4>1. Uses(DataBytes, DataBytes) /\ ~ Moved /\ "backupReady" \in flags
        BY <1>15, <3>2 DEF Restore, Skip, Restores
      <4>2. plan.strategy = "dumpless"
        BY <1>0, <4>1 DEF MachineInv, Flagged, Moved, Plan
      <4>3. free >= DataBytes
        BY <2>1, <4>1, <4>2 DEF Room, Restoring
      <4> QED
        BY <1>0, <1>2, <4>1, <4>3 DEF Uses, Numbers, Room
    <3> QED
      BY <3>1, <3>2
  <2> QED
    BY <2>1, <2>2 DEF Room, Unexported, Exported, Unserved, Serving, Restoring
<1>16. CASE UndoBinary \/ UndoConfig
  BY <1>16 DEF UndoBinary, UndoConfig, Undo, Skip, Room, NoDisk, Unexported, Exported, Unserved,
               Serving, Restoring
<1>17. CASE UndoStart \/ UndoHealth \/ UndoApp
  BY <1>17 DEF UndoStart, UndoHealth, UndoApp, Undo, Skip, Room, NoDisk, Unexported, Exported,
               Unserved, Serving, Restoring
<1>18. CASE AppWrites \/ Kill
  BY <1>18 DEF AppWrites, Kill, Room, Unexported, Exported, Unserved, Serving, Restoring
<1> QED
  BY <1>3, <1>4, <1>5, <1>6, <1>7, <1>8, <1>9, <1>10, <1>11, <1>12, <1>13, <1>14, <1>15, <1>16,
     <1>17, <1>18
    DEF Next, ExecuteUpgrade, DoRollback

\* A failure is counted, in the upgrade or in the rollback.
LEMMA Counted ==
  ASSUME TypeOK, Works \/ Breaks
  PROVE  /\ failures'.rollback = 0 => failures.rollback = 0 /\ (Breaks => pc \in Forward)
         /\ failures'.upgrade + failures'.rollback = 0 =>
              failures.upgrade = 0 /\ failures.rollback = 0 /\ ~ Breaks
<1>1. failures.upgrade \in Nat /\ failures.rollback \in Nat
  BY UpgradeAssumption DEF TypeOK
<1>2. CASE Works
  BY <1>1, <1>2 DEF Works, Breaks, TypeOK
<1>3. CASE Breaks
  <2>1. CASE pc \in Forward
    BY <1>1, <1>3, <2>1 DEF Breaks, TypeOK
  <2>2. CASE pc \notin Forward
    BY <1>1, <1>3, <2>2 DEF Breaks, TypeOK
  <2> QED
    BY <2>1, <2>2
<1> QED
  BY <1>2, <1>3

\* A rollback of which no command failed has done what it passed.
LEMMA RollbackSoundStep ==
  ASSUME MachineInv, Unfailing, Next, Works \/ Breaks, failures'.rollback = 0
  PROVE  RollbackSound'
<1>0. sys \in System
  BY DEF MachineInv, UpgradeIndInv, TypeOK
<1>1. failures.rollback = 0 /\ (Breaks => pc \in Forward)
  BY Counted DEF MachineInv, UpgradeIndInv
<1>2. Flagged /\ Sound /\ Undone /\ RollbackSound
  BY <1>1 DEF MachineInv, Unfailing
<1>3. CASE ExecuteUpgrade
  <2>1. pc' # "stuck" /\ pc' \notin Rollback \ {"r.unit"}
    BY <1>3, Phases DEF Forward, Rollback
  <2> QED
    BY <2>1 DEF RollbackSound, Rollback
<1>4. CASE UndoUnit
  BY <1>0, <1>1, <1>2, <1>4 DEF UndoUnit, Try, Skip, RollbackSound, Flagged, ServerTouched, System,
                                Forward, Rollback
<1>5. CASE UndoService
  <2>1. UNCHANGED flags /\ pc = "r.stop" /\ pc' = "r.aside" /\ ~ Breaks
    BY <1>1, <1>5 DEF UndoService, Try, Skip, Forward
  <2>2. ~sys.unit
    BY <1>2, <2>1 DEF RollbackSound, Rollback
  <2>3. CASE ServerTouched
    <3>1. sys' = [sys EXCEPT !.service = "off"]
      BY <1>5, <2>1, <2>3 DEF UndoService, Try, Stopped
    <3> QED
      BY <1>0, <2>1, <2>2, <3>1 DEF RollbackSound, System
  <2>4. CASE ~ ServerTouched
    <3>1. sys' = sys /\ "mdbStopped" \notin flags
      BY <1>5, <2>4 DEF UndoService, Skip, ServerTouched
    <3> QED
      BY <2>1, <2>2, <3>1 DEF RollbackSound
  <2> QED
    BY <2>3, <2>4
<1>6. CASE Aside
  <2>1. ~ Breaks /\ pc \in {"r.aside", "r.restore"}
    BY <1>1, <1>6 DEF Aside, Undo, Skip, Forward
  <2>2. UNCHANGED << flags, sys.service, sys.unit >> /\ pc' = "r.restore" /\ pc = "r.aside"
    BY <1>0, <1>6, <2>1 DEF Aside, Undo, Skip, System
  <2> QED
    BY <1>2, <2>2 DEF RollbackSound, Rollback
<1>7. CASE Restore \/ Clear
  BY <1>0, <1>1, <1>2, <1>7 DEF Restore, Clear, Undo, Skip, RollbackSound, System, Forward,
                                Rollback
<1>8. CASE UndoBinary \/ UndoConfig
  BY <1>0, <1>1, <1>2, <1>8 DEF UndoBinary, UndoConfig, Undo, Skip, RollbackSound, System, Forward,
                                Rollback
<1>9. CASE UndoStart
  <2>1. CASE ~ ServerTouched
    BY <1>1, <1>2, <1>9, <2>1 DEF UndoStart, Skip, RollbackSound, Rollback
  <2>2. CASE ServerTouched
    <3>1. pc = "r.start" /\ "mdbStopped" \in flags /\ ~ Breaks
      BY <1>1, <1>2, <1>9, <2>2 DEF UndoStart, Undo, Flagged, ServerTouched, Forward
    <3>2. pc' = "r.health" /\ sys' = Started(sys)
      BY <1>9, <2>2, <3>1 DEF UndoStart, Undo
    <3>3. sys.service = "off" /\ ~ sys.unit
      BY <1>2, <3>1 DEF RollbackSound, Rollback
    <3>4. sys.binary = "old" /\ sys.config = "old" /\ sys.data = "old"
      BY <1>2, <3>1 DEF Undone, Late
    <3>5. sys' = [sys EXCEPT !.service = "old"]
      BY <3>2, <3>3, <3>4 DEF Started, Fits
    <3> QED
      BY <1>0, <3>2, <3>3, <3>5 DEF RollbackSound, System, Rollback
  <2> QED
    BY <2>1, <2>2
<1>10. CASE UndoHealth \/ UndoApp
  BY <1>1, <1>2, <1>10 DEF UndoHealth, UndoApp, Undo, Skip, RollbackSound, Served, Forward, Rollback
<1>11. CASE AppWrites \/ Kill
  BY <1>0, <1>2, <1>11 DEF AppWrites, Kill, RollbackSound, System, Rollback
<1> QED
  BY <1>3, <1>4, <1>5, <1>6, <1>7, <1>8, <1>9, <1>10, <1>11 DEF Next, DoRollback

\* An upgrade of which no command failed has done what it passed, or had no room.
LEMMA UpgradeSoundStep ==
  ASSUME MachineInv, Unfailing, Inspected, Next, TypeOK', Works \/ Breaks,
         failures'.upgrade + failures'.rollback = 0
  PROVE  UpgradeSound'
<1>0. sys \in System
  BY DEF MachineInv, UpgradeIndInv, TypeOK
<1>1. failures.upgrade + failures.rollback = 0 /\ failures.rollback = 0 /\ ~ Breaks
  BY Counted DEF MachineInv, UpgradeIndInv
<1>2. Flagged /\ Sound /\ UpgradeSound
  BY <1>1 DEF MachineInv, Unfailing
<1>3. free' \in Int /\ RequiredNow \in Int
  BY Sizes DEF Numbers, TypeOK, RequiredNow
<1>4. CASE Inspect \/ Download \/ StopApp \/ Drain \/ Backup
  BY <1>1, <1>4 DEF Inspect, Download, StopApp, Drain, Backup, Command, UpgradeSound, Rollback
<1>5. CASE Export
  <2>1. pc = "export" /\ Works
    BY <1>1, <1>5 DEF Export
  <2>2. Exportable
    BY <2>1 DEF Inspected, Forward, Dumps, Snapshots, Exportable, MachineInv, UpgradeIndInv,
                TypeOK, Plan, Meets
  <2>3. flags' = flags /\ RequiredNow' = RequiredNow
        /\ pc' = (IF free' >= RequiredNow THEN "backup" ELSE "r.unit")
    BY <1>1, <1>5, <2>2 DEF Export, RequiredNow
  <2>4. "mdbStopped" \notin flags'
    BY <1>2, <2>1, <2>3 DEF Flagged, Before, Touching, After
  <2>5. CASE free' >= RequiredNow
    BY <2>3, <2>5 DEF UpgradeSound, Rollback
  <2>6. CASE ~ (free' >= RequiredNow)
    <3>1. free' < RequiredNow'
      BY <1>3, <2>3, <2>6
    <3> QED
      BY <2>3, <2>4, <2>6, <3>1 DEF UpgradeSound
  <2> QED
    BY <2>5, <2>6
<1>6. CASE StopService \/ InstallConfig
  BY <1>1, <1>6 DEF StopService, InstallConfig, Command, UpgradeSound, Rollback
<1>7. CASE MoveData
  <2>1. ~ Inside
    BY <1>7 DEF MoveData, Inspected, Forward, Paths, Inside
  <2>2. pc' = "binary"
    BY <1>1, <1>7, <2>1 DEF MoveData
  <2> QED
    BY <2>2 DEF UpgradeSound, Rollback
<1>8. CASE CopyData
  <2>1. ~ Inside
    BY <1>8 DEF CopyData, Inspected, Forward, Paths, Inside
  <2>2. pc' = "binary"
    BY <1>1, <1>8, <2>1 DEF CopyData
  <2> QED
    BY <2>2 DEF UpgradeSound, Rollback
<1>9. CASE InstallBinary \/ StartUnit
  BY <1>1, <1>9 DEF InstallBinary, StartUnit, Command, UpgradeSound, Rollback
<1>10. CASE WaitUnit
  <2>1. pc = "wait"
    BY <1>10 DEF WaitUnit
  <2>2. Workable
    BY <1>2, <2>1 DEF Workable, Sound, Touching, After, Inspected, Forward, Options, Versions
  <2>3. pc' = "start" /\ sys' = [sys EXCEPT !.unit = FALSE, !.data = "new"]
    BY <1>1, <1>10, <2>2 DEF WaitUnit
  <2> QED
    BY <1>0, <2>3 DEF UpgradeSound, Rollback, System
<1>11. CASE StartService
  <2>1. pc = "start" /\ pc' = "validate" /\ sys' = Started(sys)
    BY <1>1, <1>11 DEF StartService, Command
  <2>2. sys.service = "off" /\ ~ sys.unit /\ sys.data = "new" /\ sys.binary = "new"
    BY <1>2, <2>1 DEF Sound, UpgradeSound, Touching, After
  <2>3. sys.config = (IF plan.changes THEN "new" ELSE "old") /\ ~ Meets({"review"})
    BY <1>2, <2>1 DEF Sound, Touching, After, Inspected, Forward, Options
  <2>4. sys' = [sys EXCEPT !.service = "new"]
    BY <2>1, <2>2, <2>3 DEF Started, Fits, NewData
  <2> QED
    BY <1>0, <2>1, <2>2, <2>4 DEF UpgradeSound, Rollback, System
<1>12. CASE Validate
  <2>1. pc = "validate" /\ Served = "new" /\ Same
    BY <1>2, <1>12 DEF Validate, UpgradeSound, Served, Same
  <2>2. pc' = "pm2 restart"
    BY <1>1, <1>12, <2>1 DEF Validate
  <2> QED
    BY <2>2 DEF UpgradeSound, Rollback
<1>13. CASE RestartApp
  BY <1>1, <1>13 DEF RestartApp, UpgradeSound, Rollback
<1>14. CASE UndoUnit \/ UndoService
  BY <1>2, <1>14 DEF UndoUnit, UndoService, Try, Skip, UpgradeSound, RequiredNow, NoDisk, Rollback
<1>15. CASE Aside \/ Clear
  BY <1>2, <1>15 DEF Aside, Clear, Undo, Skip, UpgradeSound, RequiredNow, NoDisk, Rollback
<1>16. CASE Restore
  <2>1. pc = "r.restore"
    BY <1>16 DEF Restore, Undo, Skip
  <2>2. ~ Restores
    BY <1>2, <2>1 DEF UpgradeSound, Rollback, Flagged, Restores, Moved
  <2> QED
    BY <1>2, <1>16, <2>1, <2>2 DEF Restore, Skip, NoDisk, UpgradeSound, Rollback, RequiredNow
<1>17. CASE UndoBinary \/ UndoConfig
  BY <1>2, <1>17 DEF UndoBinary, UndoConfig, Undo, Skip, UpgradeSound, RequiredNow, NoDisk,
                     Rollback
<1>18. CASE UndoStart \/ UndoHealth \/ UndoApp
  BY <1>2, <1>18 DEF UndoStart, UndoHealth, UndoApp, Undo, Skip, UpgradeSound, RequiredNow, NoDisk,
                     Rollback
<1>19. CASE AppWrites \/ Kill
  BY <1>2, <1>19 DEF AppWrites, Kill, UpgradeSound, Sound, RequiredNow, Forward, Rollback, Quiet
<1> QED
  BY <1>4, <1>5, <1>6, <1>7, <1>8, <1>9, <1>10, <1>11, <1>12, <1>13, <1>14, <1>15, <1>16, <1>17,
     <1>18, <1>19
    DEF Next, ExecuteUpgrade, DoRollback

\* The whole of it
LEMMA ChecksStep == ChecksInv /\ [Next]_vars => ChecksInv'
<1> SUFFICES ASSUME ChecksInv, [Next]_vars PROVE ChecksInv'
  OBVIOUS
<1>0. MachineInv /\ Inspected /\ Unfailing /\ Room /\ UpgradeIndInv
  BY DEF ChecksInv, MachineInv
<1>1. MachineInv'
  BY <1>0, MachineStep
<1>2. CASE Next
  <2>1. Inspected' /\ Room'
    BY <1>0, <1>2, InspectedStep, RoomStep
  <2>2. TypeOK' /\ (Works \/ Breaks)
    BY <1>0, <1>2, TypeStep, TypedStep
  <2>3. failures'.rollback = 0 => RollbackSound'
    BY <1>0, <1>2, <2>2, RollbackSoundStep
  <2>4. failures'.upgrade + failures'.rollback = 0 => UpgradeSound'
    BY <1>0, <1>2, <2>2, UpgradeSoundStep
  <2> QED
    BY <1>1, <2>1, <2>3, <2>4 DEF ChecksInv, Unfailing
<1>3. CASE UNCHANGED vars
  <2>1. /\ plan' = plan /\ pc' = pc /\ flags' = flags /\ sys' = sys
        /\ free' = free /\ low' = low /\ failures' = failures
    BY <1>3 DEF vars
  <2>2. Inspected'
    BY <1>0, <2>1 DEF Inspected, Paths, Options, Dumps, Snapshots, Filesystems, Versions, Meets,
                      Forward, Rollback
  <2>3. RollbackSound' = RollbackSound
    BY <2>1 DEF RollbackSound, Rollback
  <2>4. UpgradeSound' = UpgradeSound
    BY <2>1 DEF UpgradeSound, Rollback, RequiredNow
  <2>5. Unfailing'
    BY <1>0, <2>1, <2>3, <2>4 DEF Unfailing
  <2>6. Room'
    BY <1>0, <2>1 DEF Room, Unexported, Exported, Unserved, Serving, Restoring
  <2> QED
    BY <1>1, <2>2, <2>5, <2>6 DEF ChecksInv
<1> QED
  BY <1>2, <1>3

\* At first nothing failed.
LEMMA ChecksInit == Init => ChecksInv
<1> SUFFICES ASSUME Init PROVE ChecksInv
  OBVIOUS
<1>1. pc = "inspect" /\ low \in Nat
  BY UpgradeAssumption DEF Init
<1>2. Inspected /\ Room
  BY <1>1 DEF Inspected, Room, Unexported, Exported, Unserved, Serving, Restoring, Rollback
<1>3. Unfailing
  BY <1>1 DEF Unfailing, RollbackSound, UpgradeSound, Rollback
<1> QED
  BY <1>2, <1>3, MachineInit DEF ChecksInv

\* What inspectEnvironment and the look after the export ask for is enough, for
\* any sizes, room and number of failures: a rollback gets stuck only when a
\* command of its own fails, an upgrade of which no command fails is rolled back
\* only for lack of room and before the server is stopped, and the disk never
\* runs full.
THEOREM ChecksAreEnough == Spec => []ChecksSuffice
<1>1. ChecksInv => ChecksSuffice
  <2> SUFFICES ASSUME ChecksInv PROVE ChecksSuffice
    OBVIOUS
  <2>1. TypeOK /\ Unfailing /\ Room
    BY DEF ChecksInv, MachineInv, UpgradeIndInv
  <2>2. failures.upgrade \in Nat /\ failures.rollback \in Nat
    BY <2>1, UpgradeAssumption DEF TypeOK
  <2>3. RollbackWorks
    BY <2>1, <2>2 DEF RollbackWorks, Unfailing, RollbackSound
  <2>4. Warranted
    BY <2>1 DEF Warranted, Unfailing, UpgradeSound
  <2>5. NeverFull
    BY <2>1 DEF NeverFull, Room
  <2> QED
    BY <2>3, <2>4, <2>5 DEF ChecksSuffice
<1> QED
  BY <1>1, ChecksInit, ChecksStep, PTL DEF Spec
================================================================================
