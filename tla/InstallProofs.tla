---------------------------- MODULE InstallProofs ----------------------------
(***************************************************************************)
(* Theorems about CustomerInstall for every value of its constants.        *)
(***************************************************************************)
EXTENDS InstallInvariant, SequenceTheorems, TLAPS

USE DEF targetVars, mountVars, ramVars, planVars, machineVars, helperVars,
        screenVars, vars

\* Every initial state is well typed.
LEMMA InitTypeOK == Init => TypeOK
<1> SUFFICES ASSUME Init PROVE TypeOK
    OBVIOUS
<1> USE HelperConstants DEF HelperConstants, Init, HelperInit
<1>1. MachineTypeOK
    BY DEF MachineTypeOK, DiskStates, FileStates, LayerSlots
<1>2. RunTypeOK
    BY DEF RunTypeOK, InstallSteps
<1>3. FlagTypeOK
    BY DEF FlagTypeOK
<1>4. QED
    BY <1>1, <1>2, <1>3 DEF HelperTypeOK, TypeOK

\* stage_payload_extras leaves a state for the packages of every edition.
LEMMA StagingTypeOK ==
    ASSUME NEW held \in [Editions -> FileStates], NEW e \in Editions
    PROVE  StagedExtras(held, e) \in [Editions -> FileStates]
BY DEF StagedExtras, FileStates

\* A printed line keeps the pipe a sequence of events.
LEMMA EmitTypeOK ==
    ASSUME pipe \in Seq(Events), NEW x, Emit(x), x \in Events
    PROVE  pipe' \in Seq(Events)
BY DEF Emit

\* No step of the helper leaves the types, action by action.
LEMMA HelperKeepsTypes ==
    ASSUME TypeOK, HelperStep, UNCHANGED screenVars
    PROVE  TypeOK'
<1> USE HelperConstants
    DEF HelperConstants, TypeOK, HelperTypeOK, FileStates, LayerSlots,
        DiskStates, InstallSteps, RestoreSteps
<1>1. CASE CheckImage
  <2>1. MachineTypeOK'
      BY <1>1 DEF CheckImage, FblData, ImageAt, MachineTypeOK
  <2>2. RunTypeOK'
      BY <1>1 DEF CheckImage, RunTypeOK
  <2>3. FlagTypeOK'
      BY <1>1 DEF CheckImage, FblData, ImageAt, FlagTypeOK
  <2>4. QED
      BY <2>1, <2>2, <2>3
<1>2. CASE OpenImageUsb
  <2>1. MachineTypeOK'
      BY <1>2 DEF OpenImageUsb, MachineTypeOK
  <2>2. RunTypeOK'
      BY <1>2 DEF OpenImageUsb, ImageAt, RunTypeOK, MachineTypeOK
  <2>3. FlagTypeOK'
      BY <1>2 DEF OpenImageUsb, FlagTypeOK
  <2>4. QED
      BY <2>1, <2>2, <2>3
<1>3. CASE ReuseListedLayers
  <2>1. MachineTypeOK'
      BY <1>3 DEF ReuseListedLayers, MachineTypeOK
  <2>2. RunTypeOK'
      BY <1>3 DEF ReuseListedLayers, RunTypeOK, MachineTypeOK
  <2>3. FlagTypeOK'
      BY <1>3 DEF ReuseListedLayers, FlagTypeOK
  <2>4. QED
      BY <2>1, <2>2, <2>3
<1>4. CASE ReuseCopiedLayers
  <2>1. MachineTypeOK'
      BY <1>4, StagingTypeOK DEF ReuseCopiedLayers, MachineTypeOK, RunTypeOK
  <2>2. RunTypeOK'
      BY <1>4 DEF ReuseCopiedLayers, RunTypeOK
  <2>3. FlagTypeOK'
      BY <1>4 DEF ReuseCopiedLayers, FlagTypeOK
  <2>4. QED
      BY <2>1, <2>2, <2>3
<1>5. CASE OpenImage
  <2>1. MachineTypeOK'
      BY <1>5 DEF OpenImage, MachineTypeOK, RunTypeOK
  <2>2. RunTypeOK'
    <3>1. pipe' \in Seq(Events)
        BY <1>5, EmitTypeOK DEF OpenImage, RunTypeOK, Events
    <3>2. QED
        BY <1>5, <3>1 DEF OpenImage, RunTypeOK
  <2>3. FlagTypeOK'
      BY <1>5 DEF OpenImage, FlagTypeOK
  <2>4. QED
      BY <2>1, <2>2, <2>3
<1>6. CASE StageRam
  <2>1. ed \in Editions
      BY <1>6 DEF StageRam, RunTypeOK
  <2>2. PICK fresh \in BOOLEAN :
          LET held == IF fresh THEN [e \in Editions |-> "absent"] ELSE pkgs
          IN  /\ rels' = (IF fresh THEN 0 ELSE rels)
              /\ layer' = (IF fresh THEN [i \in LayerSlots |-> NoFile] ELSE layer)
              /\ live' = (IF fresh THEN "absent" ELSE live)
              /\ \/ /\ pkgs' = StagedExtras(held, ed)
                    /\ pc' = "layers" /\ UNCHANGED pipe
                 \/ /\ pkgs' = [held EXCEPT ![ed] = "torn"]
                    /\ pc' = "idle" /\ Emit("error")
      BY <1>6 DEF StageRam
  <2> DEFINE held == IF fresh THEN [e \in Editions |-> "absent"] ELSE pkgs
  <2>3. held \in [Editions -> FileStates]
      BY DEF MachineTypeOK
  <2>4. pkgs' \in [Editions -> FileStates]
    <3>1. [held EXCEPT ![ed] = "torn"] \in [Editions -> FileStates]
        BY <2>1, <2>3
    <3>2. StagedExtras(held, ed) \in [Editions -> FileStates]
        BY <2>1, <2>3, StagingTypeOK
    <3>3. QED
        BY <2>2, <3>1, <3>2
  <2>5. MachineTypeOK'
      BY <1>6, <2>2, <2>4 DEF StageRam, MachineTypeOK
  <2>6. RunTypeOK'
    <3>1. pipe' \in Seq(Events)
        BY <2>2, EmitTypeOK DEF RunTypeOK, Events
    <3>2. QED
        BY <1>6, <2>1, <2>2, <3>1 DEF StageRam, RunTypeOK
  <2>7. FlagTypeOK'
      BY <1>6 DEF StageRam, FlagTypeOK
  <2>8. QED
      BY <2>5, <2>6, <2>7
<1>7. CASE CopyLayers
  <2>1. ed \in Editions
      BY <1>7 DEF CopyLayers, RunTypeOK
  <2>2. MachineTypeOK'
      BY <1>7, <2>1 DEF CopyLayers, MachineTypeOK
  <2>3. pipe' \in Seq(Events)
      BY <1>7, EmitTypeOK DEF CopyLayers, RunTypeOK, Events
  <2>4. /\ pc' \in {"live", "idle"} /\ UNCHANGED <<ed, extras, verified>>
        /\ used' \in {used, LayerCount[ed]} /\ source' \in {source, "ram"}
      BY <1>7 DEF CopyLayers
  <2>5. RunTypeOK'
      BY <2>1, <2>3, <2>4 DEF RunTypeOK
  <2>6. FlagTypeOK'
      BY <1>7 DEF CopyLayers, FlagTypeOK
  <2>7. QED
      BY <2>2, <2>5, <2>6
<1>8. CASE CopyLive
  <2>1. MachineTypeOK'
      BY <1>8 DEF CopyLive, MachineTypeOK
  <2>2. RunTypeOK'
    <3>1. pipe' \in Seq(Events)
        BY <1>8, EmitTypeOK DEF CopyLive, RunTypeOK, Events
    <3>2. QED
        BY <1>8, <3>1 DEF CopyLive, RunTypeOK
  <2>3. FlagTypeOK'
      BY <1>8 DEF CopyLive, FlagTypeOK
  <2>4. QED
      BY <2>1, <2>2, <2>3
<1>9. CASE ShadowRescue
  <2>1. MachineTypeOK'
    <3>1. kernel' \in FileStates
        BY <1>9 DEF ShadowRescue, SnapshotRescue, SnapshotBreaks, MachineTypeOK
    <3>2. QED
        BY <1>9, <3>1 DEF ShadowRescue, MachineTypeOK
  <2>2. RunTypeOK'
    <3>1. pipe' \in Seq(Events)
        BY <1>9, EmitTypeOK DEF ShadowRescue, RunTypeOK, Events
    <3>2. QED
        BY <1>9, <3>1 DEF ShadowRescue, RunTypeOK
  <2>3. FlagTypeOK'
      BY <1>9 DEF ShadowRescue, SnapshotRescue, SnapshotBreaks, FlagTypeOK
  <2>4. QED
      BY <2>1, <2>2, <2>3
<1>10. CASE PivotToRam
  <2>1. MachineTypeOK'
      BY <1>10 DEF PivotToRam, MachineTypeOK
  <2>2. RunTypeOK'
      BY <1>10 DEF PivotToRam, RunTypeOK
  <2>3. FlagTypeOK'
      BY <1>10 DEF PivotToRam, FlagTypeOK
  <2>4. QED
      BY <2>1, <2>2, <2>3
<1>11. CASE KeepRescue
  <2>1. MachineTypeOK'
    <3>1. kernel' \in FileStates
        BY <1>11 DEF KeepRescue, SnapshotRescue, SnapshotBreaks, MachineTypeOK
    <3>2. QED
        BY <1>11, <3>1 DEF KeepRescue, MachineTypeOK
  <2>2. RunTypeOK'
    <3>1. pipe' \in Seq(Events)
        BY <1>11, EmitTypeOK DEF KeepRescue, RunTypeOK, Events
    <3>2. QED
        BY <1>11, <3>1 DEF KeepRescue, RunTypeOK
  <2>3. FlagTypeOK'
      BY <1>11 DEF KeepRescue, SnapshotRescue, SnapshotBreaks, FlagTypeOK
  <2>4. QED
      BY <2>1, <2>2, <2>3
<1>12. CASE ReleaseTarget
  <2>1. MachineTypeOK'
      BY <1>12 DEF ReleaseTarget, MachineTypeOK
  <2>2. RunTypeOK'
      BY <1>12 DEF ReleaseTarget, RunTypeOK
  <2>3. FlagTypeOK'
      BY <1>12 DEF ReleaseTarget, FlagTypeOK
  <2>4. QED
      BY <2>1, <2>2, <2>3
<1>13. CASE WipeTarget
  <2>1. MachineTypeOK'
      BY <1>13 DEF WipeTarget, MachineTypeOK
  <2>2. RunTypeOK'
      BY <1>13 DEF WipeTarget, RunTypeOK
  <2>3. FlagTypeOK'
      BY <1>13 DEF WipeTarget, FlagTypeOK
  <2>4. QED
      BY <2>1, <2>2, <2>3
<1>14. CASE FormatTarget
  <2>1. MachineTypeOK'
      BY <1>14 DEF FormatTarget, MachineTypeOK
  <2>2. RunTypeOK'
    <3>1. pipe' \in Seq(Events)
        BY <1>14, EmitTypeOK DEF FormatTarget, RunTypeOK, Events
    <3>2. QED
        BY <1>14, <3>1 DEF FormatTarget, RunTypeOK
  <2>3. FlagTypeOK'
      BY <1>14 DEF FormatTarget, FlagTypeOK
  <2>4. QED
      BY <2>1, <2>2, <2>3
<1>15. CASE UnpackTree
  <2>1. MachineTypeOK'
      BY <1>15 DEF UnpackTree, MachineTypeOK, RunTypeOK
  <2>2. RunTypeOK'
      BY <1>15 DEF UnpackTree, RunTypeOK
  <2>3. FlagTypeOK'
      BY <1>15 DEF UnpackTree, FlagTypeOK
  <2>4. QED
      BY <2>1, <2>2, <2>3
<1>16. CASE ConfigureTree
  <2>1. MachineTypeOK'
      BY <1>16 DEF ConfigureTree, MachineTypeOK
  <2>2. RunTypeOK'
      BY <1>16 DEF ConfigureTree, RunTypeOK
  <2>3. FlagTypeOK'
      BY <1>16 DEF ConfigureTree, FlagTypeOK
  <2>4. QED
      BY <2>1, <2>2, <2>3
<1>17. CASE InstallBootloader
  <2>1. MachineTypeOK'
      BY <1>17 DEF InstallBootloader, MachineTypeOK
  <2>2. RunTypeOK'
      BY <1>17 DEF InstallBootloader, RunTypeOK
  <2>3. FlagTypeOK'
      BY <1>17 DEF InstallBootloader, FlagTypeOK
  <2>4. QED
      BY <2>1, <2>2, <2>3
<1>18. CASE HealthCheck
  <2>1. MachineTypeOK'
      BY <1>18 DEF HealthCheck, MachineTypeOK
  <2>2. RunTypeOK'
      BY <1>18 DEF HealthCheck, RunTypeOK
  <2>3. FlagTypeOK'
      BY <1>18 DEF HealthCheck, FlagTypeOK
  <2>4. QED
      BY <2>1, <2>2, <2>3
<1>19. CASE RegisterOsEfi
  <2>1. MachineTypeOK'
      BY <1>19 DEF RegisterOsEfi, MachineTypeOK
  <2>2. pipe' \in Seq(Events)
      BY <1>19, EmitTypeOK DEF RegisterOsEfi, RunTypeOK, Events
  <2>3. RunTypeOK'
      BY <1>19, <2>2 DEF RegisterOsEfi, RunTypeOK
  <2>4. FlagTypeOK'
      BY <1>19 DEF RegisterOsEfi, FlagTypeOK
  <2>5. QED
      BY <2>1, <2>3, <2>4
<1>20. CASE FinishInstall
  <2>1. MachineTypeOK'
      BY <1>20 DEF FinishInstall, MachineTypeOK
  <2>2. pipe' \in Seq(Events)
    <3>1. PICK x \in {"done", "reboot"} : Emit(x)
        BY <1>20 DEF FinishInstall
    <3>2. QED
        BY <3>1, EmitTypeOK DEF RunTypeOK, Events
  <2>3. pc' \in {"idle", "off"} /\ UNCHANGED <<planVars, verified>>
      BY <1>20 DEF FinishInstall
  <2>4. RunTypeOK'
      BY <2>2, <2>3 DEF RunTypeOK
  <2>5. FlagTypeOK'
      BY <1>20 DEF FinishInstall, FlagTypeOK
  <2>6. QED
      BY <2>1, <2>4, <2>5
<1>21. CASE RestoreGuard
  <2>1. MachineTypeOK'
      BY <1>21 DEF RestoreGuard, MachineTypeOK
  <2>2. RunTypeOK'
      BY <1>21 DEF RestoreGuard, RunTypeOK
  <2>3. FlagTypeOK'
      BY <1>21 DEF RestoreGuard, FlagTypeOK
  <2>4. QED
      BY <2>1, <2>2, <2>3
<1>22. CASE RestoreWipe
  <2>1. MachineTypeOK'
      BY <1>22 DEF RestoreWipe, MachineTypeOK
  <2>2. RunTypeOK'
      BY <1>22 DEF RestoreWipe, RunTypeOK
  <2>3. FlagTypeOK'
      BY <1>22 DEF RestoreWipe, FlagTypeOK
  <2>4. QED
      BY <2>1, <2>2, <2>3
<1>23. CASE RestoreFormat
  <2>1. MachineTypeOK'
      BY <1>23 DEF RestoreFormat, MachineTypeOK
  <2>2. RunTypeOK'
      BY <1>23 DEF RestoreFormat, RunTypeOK
  <2>3. FlagTypeOK'
      BY <1>23 DEF RestoreFormat, FlagTypeOK
  <2>4. QED
      BY <2>1, <2>2, <2>3
<1>24. CASE RestoreSys
  <2>1. MachineTypeOK'
      BY <1>24 DEF RestoreSys, MachineTypeOK
  <2>2. RunTypeOK'
      BY <1>24 DEF RestoreSys, RunTypeOK
  <2>3. FlagTypeOK'
      BY <1>24 DEF RestoreSys, FlagTypeOK
  <2>4. QED
      BY <2>1, <2>2, <2>3
<1>25. CASE RestoreData
  <2>1. MachineTypeOK'
      BY <1>25 DEF RestoreData, MachineTypeOK
  <2>2. RunTypeOK'
      BY <1>25 DEF RestoreData, RunTypeOK
  <2>3. FlagTypeOK'
      BY <1>25 DEF RestoreData, FlagTypeOK
  <2>4. QED
      BY <2>1, <2>2, <2>3
<1>26. CASE RestoreEsp
  <2>1. MachineTypeOK'
      BY <1>26 DEF RestoreEsp, MachineTypeOK
  <2>2. RunTypeOK'
      BY <1>26 DEF RestoreEsp, RunTypeOK
  <2>3. FlagTypeOK'
      BY <1>26 DEF RestoreEsp, FlagTypeOK
  <2>4. QED
      BY <2>1, <2>2, <2>3
<1>27. CASE RestoreEfi
  <2>1. MachineTypeOK'
      BY <1>27 DEF RestoreEfi, MachineTypeOK
  <2>2. RunTypeOK'
    <3>1. pipe' \in Seq(Events)
        BY <1>27, EmitTypeOK DEF RestoreEfi, RunTypeOK, Events
    <3>2. QED
        BY <1>27, <3>1 DEF RestoreEfi, RunTypeOK
  <2>3. FlagTypeOK'
      BY <1>27 DEF RestoreEfi, FlagTypeOK
  <2>4. QED
      BY <2>1, <2>2, <2>3
<1>28. CASE StepFails
  <2>1. MachineTypeOK'
      BY <1>28 DEF StepFails, MachineTypeOK
  <2>2. RunTypeOK'
    <3>1. pipe' \in Seq(Events)
        BY <1>28, EmitTypeOK DEF StepFails, RunTypeOK, Events
    <3>2. QED
        BY <1>28, <3>1 DEF StepFails, RunTypeOK
  <2>3. FlagTypeOK'
      BY <1>28 DEF StepFails, FlagTypeOK
  <2>4. QED
      BY <2>1, <2>2, <2>3
<1> QED
    BY <1>1, <1>2, <1>3, <1>4, <1>5, <1>6, <1>7, <1>8, <1>9, <1>10, <1>11, <1>12, <1>13, <1>14, <1>15, <1>16, <1>17, <1>18, <1>19, <1>20, <1>21, <1>22, <1>23, <1>24, <1>25, <1>26, <1>27, <1>28
    DEF HelperStep, InstallStep, RestoreStep

\* No step of the chooser, and no power failure, leaves the types.
LEMMA ScreenKeepsTypes ==
    ASSUME TypeOK, CustomerStep \/ Deliver \/ PowerCycle
    PROVE  TypeOK'
<1> USE HelperConstants
    DEF HelperConstants, TypeOK, HelperTypeOK, FileStates, LayerSlots,
        DiskStates, InstallSteps, RestoreSteps
<1> DEFINE ScreenTypes ==
      /\ overlay \in {"none", "confirm", "progress", "failed", "restarting",
                      "done", "dark"}
      /\ chosen \in Editions \cup {NoEdition}
      /\ overlay = "confirm" => chosen \in Editions
      /\ task \in {"install", "restore"}
<1> DEFINE ScreenFlags ==
      wipedTarget \in BOOLEAN /\ restoreBtn \in BOOLEAN /\ closeBtn \in BOOLEAN
<1>1. CASE \E e \in Editions : Choose(e)
  <2>1. MachineTypeOK'
      BY <1>1 DEF Choose, MachineTypeOK
  <2>2. RunTypeOK'
      BY <1>1 DEF Choose, RunTypeOK
  <2>3. FlagTypeOK'
      BY <1>1 DEF Choose, FlagTypeOK
  <2>4. ScreenTypes'
      BY <1>1 DEF Choose
  <2>5. ScreenFlags'
      BY <1>1 DEF Choose
  <2>6. QED
      BY <2>1, <2>2, <2>3, <2>4, <2>5
<1>2. CASE Cancel
  <2>1. MachineTypeOK'
      BY <1>2 DEF Cancel, MachineTypeOK
  <2>2. RunTypeOK'
      BY <1>2 DEF Cancel, RunTypeOK
  <2>3. FlagTypeOK'
      BY <1>2 DEF Cancel, FlagTypeOK
  <2>4. ScreenTypes'
      BY <1>2 DEF Cancel
  <2>5. ScreenFlags'
      BY <1>2 DEF Cancel
  <2>6. QED
      BY <2>1, <2>2, <2>3, <2>4, <2>5
<1>3. CASE Confirm
  <2>1. MachineTypeOK'
      BY <1>3 DEF Confirm, ForgetLastRun, FblData, PlanAvailable, ImageAt, LaunchInstall, MachineTypeOK
  <2>2. RunTypeOK'
      BY <1>3 DEF Confirm, ForgetLastRun, FblData, PlanAvailable, ImageAt, LaunchInstall, RunTypeOK
  <2>3. FlagTypeOK'
      BY <1>3 DEF Confirm, ForgetLastRun, FblData, PlanAvailable, ImageAt, LaunchInstall, FlagTypeOK
  <2>4. ScreenTypes'
      BY <1>3 DEF Confirm, ForgetLastRun, FblData, PlanAvailable, ImageAt, LaunchInstall
  <2>5. ScreenFlags'
      BY <1>3 DEF Confirm, ForgetLastRun, FblData, PlanAvailable, ImageAt, LaunchInstall
  <2>6. QED
      BY <2>1, <2>2, <2>3, <2>4, <2>5
<1>4. CASE PressRestore
  <2>1. MachineTypeOK'
      BY <1>4 DEF PressRestore, LaunchRestore, MachineTypeOK
  <2>2. RunTypeOK'
      BY <1>4 DEF PressRestore, LaunchRestore, RunTypeOK
  <2>3. FlagTypeOK'
      BY <1>4 DEF PressRestore, LaunchRestore, FlagTypeOK
  <2>4. ScreenTypes'
      BY <1>4 DEF PressRestore, LaunchRestore
  <2>5. ScreenFlags'
      BY <1>4 DEF PressRestore, LaunchRestore
  <2>6. QED
      BY <2>1, <2>2, <2>3, <2>4, <2>5
<1>5. CASE PressClose
  <2>1. MachineTypeOK'
      BY <1>5 DEF PressClose, ForgetLastRun, MachineTypeOK
  <2>2. RunTypeOK'
      BY <1>5 DEF PressClose, ForgetLastRun, RunTypeOK
  <2>3. FlagTypeOK'
      BY <1>5 DEF PressClose, ForgetLastRun, FlagTypeOK
  <2>4. ScreenTypes'
      BY <1>5 DEF PressClose, ForgetLastRun
  <2>5. ScreenFlags'
      BY <1>5 DEF PressClose, ForgetLastRun
  <2>6. QED
      BY <2>1, <2>2, <2>3, <2>4, <2>5
<1>6. CASE Deliver
  <2>1. MachineTypeOK'
      BY <1>6 DEF Deliver, HearWiped, HearError, HearEnd, MachineTypeOK
  <2>2. RunTypeOK'
      BY <1>6 DEF Deliver, HearWiped, HearError, HearEnd, RunTypeOK
  <2>3. FlagTypeOK'
      BY <1>6 DEF Deliver, HearWiped, HearError, HearEnd, FlagTypeOK
  <2>4. ScreenTypes'
      BY <1>6 DEF Deliver, HearWiped, HearError, HearEnd
  <2>5. ScreenFlags'
      BY <1>6 DEF Deliver, HearWiped, HearError, HearEnd
  <2>6. QED
      BY <2>1, <2>2, <2>3, <2>4, <2>5
<1>7. CASE PowerCycle
  <2>1. MachineTypeOK'
      BY <1>7 DEF PowerCycle, ForgetLastRun, MachineTypeOK
  <2>2. RunTypeOK'
      BY <1>7 DEF PowerCycle, ForgetLastRun, RunTypeOK
  <2>3. FlagTypeOK'
      BY <1>7 DEF PowerCycle, ForgetLastRun, FlagTypeOK
  <2>4. ScreenTypes'
      BY <1>7 DEF PowerCycle, ForgetLastRun
  <2>5. ScreenFlags'
      BY <1>7 DEF PowerCycle, ForgetLastRun
  <2>6. QED
      BY <2>1, <2>2, <2>3, <2>4, <2>5
<1> QED
    BY <1>1, <1>2, <1>3, <1>4, <1>5, <1>6, <1>7 DEF CustomerStep

\* Type correctness is inductive.
LEMMA NextKeepsTypes ==
    ASSUME TypeOK, [Next]_vars
    PROVE  TypeOK'
<1>1. CASE HelperRuns
    BY <1>1, HelperKeepsTypes DEF HelperRuns
<1>2. CASE CustomerStep \/ Deliver \/ PowerCycle
    BY <1>2, ScreenKeepsTypes
<1>3. CASE UNCHANGED vars
    BY <1>3 DEF TypeOK, HelperTypeOK, MachineTypeOK, RunTypeOK, FlagTypeOK
<1>4. QED
    BY <1>1, <1>2, <1>3 DEF Next

\* Every variable keeps its type, for any editions, disk, memory and faults.
THEOREM TypeCorrect == Spec => []TypeOK
<1>1. Init => TypeOK
    BY InitTypeOK
<1>2. TypeOK /\ [Next]_vars => TypeOK'
    BY NextKeepsTypes
<1>3. QED
    BY <1>1, <1>2, PTL DEF Spec

-----------------------------------------------------------------------------
(* The pipe never holds more than the report of the wipe and the end.      *)

\* The pipe after one more line, for the two contents a running install has.
LEMMA AppendToWiped ==
    ASSUME NEW x
    PROVE  Append(<<"wiped">>, x) = <<"wiped", x>>
<1> DEFINE q == Append(<<"wiped">>, x)
           r == <<"wiped", x>>
           S == {"wiped", x}
<1>1. q \in Seq(S) /\ r \in Seq(S)
    OBVIOUS
<1>2. Len(q) = 2 /\ Len(r) = 2
    OBVIOUS
<1>3. \A i \in 1 .. Len(q) : q[i] = r[i]
    BY <1>2
<1>4. QED
    BY <1>1, <1>2, <1>3, SeqEqual

\* Head and tail of every content PipeInv allows.
LEMMA PipeFacts ==
    ASSUME NEW x
    PROVE  /\ Append(<<>>, x) = <<x>>
           /\ Head(<<x>>) = x /\ Tail(<<x>>) = <<>>
           /\ Head(<<"wiped", x>>) = "wiped" /\ Tail(<<"wiped", x>>) = <<x>>
           /\ <<x>> # <<>> /\ <<"wiped", x>> # <<>>
           /\ <<"wiped", x>> # <<"wiped">>
<1>1. Append(<<>>, x) = <<x>>
    OBVIOUS
<1>2. Head(<<x>>) = x /\ Tail(<<x>>) = <<>>
    OBVIOUS
<1>3. Head(<<"wiped", x>>) = "wiped" /\ Tail(<<"wiped", x>>) = <<x>>
    OBVIOUS
<1>4. <<x>> # <<>> /\ <<"wiped", x>> # <<>> /\ <<"wiped", x>> # <<"wiped">>
    OBVIOUS
<1>5. QED
    BY <1>1, <1>2, <1>3, <1>4

WipedAtHead == pipe # <<>> /\ Head(pipe) = "wiped"

\* A last line leaves a pipe that PipeInv allows for an idle helper.
LEMMA EmitAtTheEnd ==
    ASSUME pipe \in {<<>>, <<"wiped">>}, NEW x \in Final, Emit(x)
    PROVE  /\ pipe' \in {<<x>>, <<"wiped", x>>}
           /\ pipe' # <<>> /\ pipe' # <<"wiped">>
           /\ WipedAtHead' <=> WipedAtHead
<1>1. x # "wiped"
    BY DEF Final
<1>2. CASE pipe = <<>>
  <2>1. pipe' = <<x>>
      BY <1>2, PipeFacts DEF Emit
  <2>2. QED
      BY <1>1, <1>2, <2>1, PipeFacts DEF WipedAtHead
<1>3. CASE pipe = <<"wiped">>
  <2>1. pipe' = <<"wiped", x>>
      BY <1>3, AppendToWiped DEF Emit
  <2>2. QED
      BY <1>3, <2>1, PipeFacts DEF WipedAtHead
<1>4. QED
    BY <1>2, <1>3

\* The conjuncts of IInv but the types are kept by every helper step.
LEMMA HelperKeepsInvariant ==
    ASSUME IInv, HelperRuns
    PROVE  PipeInv' /\ ScreenInv' /\ MemoryInv' /\ DiskInv' /\ WipedInv'
<1> USE HelperRuns
    DEF HelperRuns, IInv, TypeOK, HelperTypeOK, RunTypeOK, MachineTypeOK, FlagTypeOK,
        DiskStates, FileStates, InstallSteps, RestoreSteps,
        PipeInv, ScreenInv, MemoryInv, DiskInv, WipedInv, WipeReported,
        OneHelper, FailureOffersRestore,
        BeforeCopy, CopySteps, AfterCopy, AfterWipe, Final
<1>1. CASE CheckImage
    BY <1>1, PipeFacts DEF CheckImage, ImageAt, OnRam
<1>2. CASE OpenImageUsb
    BY <1>2, PipeFacts DEF OpenImageUsb
<1>3. CASE ReuseListedLayers
    BY <1>3, PipeFacts DEF ReuseListedLayers, OnRam
<1>4. CASE ReuseCopiedLayers
    BY <1>4, PipeFacts DEF ReuseCopiedLayers, OnRam, ImageAt
<1>5. CASE OpenImage
    BY <1>5, PipeFacts DEF OpenImage, OnRam, ImageAt, Emit
<1>6. CASE StageRam
    BY <1>6, PipeFacts DEF StageRam, Emit
<1>7. CASE CopyLayers
    BY <1>7, PipeFacts DEF CopyLayers, Emit
<1>8. CASE CopyLive
    BY <1>8, PipeFacts DEF CopyLive, Emit
<1>9. CASE ShadowRescue
  <2>1. kernel' # "absent"
      BY <1>9 DEF ShadowRescue, SnapshotRescue, SnapshotBreaks
  <2>2. MemoryInv'
      BY <1>9, <2>1 DEF ShadowRescue
  <2>3. PipeInv' /\ ScreenInv' /\ DiskInv' /\ WipedInv'
      BY <1>9, PipeFacts DEF ShadowRescue, Emit
  <2>4. QED
      BY <2>2, <2>3
<1>10. CASE PivotToRam
    BY <1>10, PipeFacts DEF PivotToRam
<1>11. CASE KeepRescue
  <2>1. kernel = "absent" \/ kernel' # "absent"
      BY <1>11 DEF KeepRescue, SnapshotRescue, SnapshotBreaks
  <2>2. pc' \in {"release", "idle"} /\ pipe' \in {<<>>, <<"error">>}
        /\ (pc' = "release" => pipe' = <<>>) /\ (pc' = "idle" => pipe' # <<>>)
      BY <1>11, PipeFacts DEF KeepRescue, Emit
  <2>3. MemoryInv'
      BY <1>11, <2>1, <2>2 DEF KeepRescue
  <2>4. PipeInv' /\ ScreenInv' /\ DiskInv' /\ WipedInv'
      BY <1>11, <2>2, PipeFacts DEF KeepRescue
  <2>5. QED
      BY <2>3, <2>4
<1>12. CASE ReleaseTarget
    BY <1>12, PipeFacts DEF ReleaseTarget
<1>13. CASE WipeTarget
    BY <1>13, PipeFacts DEF WipeTarget
<1>14. CASE FormatTarget
    BY <1>14, PipeFacts DEF FormatTarget, Emit
<1>15. CASE UnpackTree
    BY <1>15, PipeFacts DEF UnpackTree
<1>16. CASE ConfigureTree
    BY <1>16, PipeFacts DEF ConfigureTree
<1>17. CASE InstallBootloader
    BY <1>17, PipeFacts DEF InstallBootloader
<1>18. CASE HealthCheck
    BY <1>18, PipeFacts DEF HealthCheck
<1>19. CASE RegisterOsEfi
  <2>1. pipe \in {<<>>, <<"wiped">>}
      BY <1>19, PipeFacts DEF RegisterOsEfi
  <2>2. PipeInv'
    <3>1. (pc' = "finish" /\ UNCHANGED pipe)
            \/ (pc' \in {"idle", "off"} /\ \E x \in Final : Emit(x))
        BY <1>19 DEF RegisterOsEfi
    <3>2. CASE pc' = "finish" /\ UNCHANGED pipe
        BY <2>1, <3>2
    <3>3. ASSUME NEW x \in Final, Emit(x), pc' \in {"idle", "off"}
          PROVE  PipeInv'
      <4>1. pipe' \in {<<x>>, <<"wiped", x>>} /\ pipe' # <<"wiped">>
          BY <2>1, <3>3, EmitAtTheEnd
      <4>2. QED
          BY <3>3, <4>1
    <3>4. QED
        BY <3>1, <3>2, <3>3
  <2>3. (WipeReported' <=> WipeReported) /\ (pc' = "off" => pipe' # <<>>)
    <3>1. UNCHANGED pipe \/ \E x \in Final : Emit(x)
        BY <1>19 DEF RegisterOsEfi
    <3>2. WipedAtHead' <=> WipedAtHead
        BY <2>1, <3>1, EmitAtTheEnd DEF WipedAtHead
    <3>3. pc' = "off" => pipe' # <<>>
        BY <1>19, <2>1, <3>1, EmitAtTheEnd DEF RegisterOsEfi
    <3>4. QED
        BY <3>2, <3>3 DEF WipedAtHead
  <2>4. ScreenInv' /\ WipedInv'
      BY <1>19, <2>3 DEF RegisterOsEfi
  <2>5. MemoryInv' /\ DiskInv'
      BY <1>19, <2>3 DEF RegisterOsEfi
  <2>6. QED
      BY <2>2, <2>4, <2>5
<1>20. CASE FinishInstall
  <2>1. pipe \in {<<>>, <<"wiped">>}
      BY <1>20, PipeFacts DEF FinishInstall
  <2>2. PipeInv'
    <3>1. pc' \in {"idle", "off"} /\ \E x \in Final : Emit(x)
        BY <1>20 DEF FinishInstall
    <3>3. ASSUME NEW x \in Final, Emit(x), pc' \in {"idle", "off"}
          PROVE  PipeInv'
      <4>1. pipe' \in {<<x>>, <<"wiped", x>>} /\ pipe' # <<"wiped">>
          BY <2>1, <3>3, EmitAtTheEnd
      <4>2. QED
          BY <3>3, <4>1
    <3>4. QED
        BY <3>1, <3>3
  <2>3. (WipeReported' <=> WipeReported) /\ (pc' = "off" => pipe' # <<>>)
    <3>1. \E x \in Final : Emit(x)
        BY <1>20 DEF FinishInstall
    <3>2. WipedAtHead' <=> WipedAtHead
        BY <2>1, <3>1, EmitAtTheEnd DEF WipedAtHead
    <3>3. pc' = "off" => pipe' # <<>>
        BY <1>20, <2>1, <3>1, EmitAtTheEnd DEF FinishInstall
    <3>4. QED
        BY <3>2, <3>3 DEF WipedAtHead
  <2>4. ScreenInv' /\ WipedInv'
      BY <1>20, <2>3 DEF FinishInstall
  <2>5. MemoryInv' /\ DiskInv'
      BY <1>20, <2>3 DEF FinishInstall
  <2>6. QED
      BY <2>2, <2>4, <2>5
<1>21. CASE RestoreGuard
    BY <1>21, PipeFacts DEF RestoreGuard
<1>22. CASE RestoreWipe
    BY <1>22, PipeFacts DEF RestoreWipe
<1>23. CASE RestoreFormat
    BY <1>23, PipeFacts DEF RestoreFormat
<1>24. CASE RestoreSys
    BY <1>24, PipeFacts DEF RestoreSys
<1>25. CASE RestoreData
    BY <1>25, PipeFacts DEF RestoreData
<1>26. CASE RestoreEsp
    BY <1>26, PipeFacts DEF RestoreEsp
<1>27. CASE RestoreEfi
    BY <1>27, PipeFacts DEF RestoreEfi, Emit
<1>28. CASE StepFails
  <2>1. pipe \in {<<>>, <<"wiped">>}
      BY <1>28, PipeFacts DEF StepFails
  <2>2. PipeInv'
      BY <1>28, <2>1, EmitAtTheEnd, PipeFacts DEF StepFails
  <2>3. (WipeReported' <=> WipeReported) /\ (pc' = "off" => pipe' # <<>>)
    <3>1. \E x \in Final : Emit(x)
        BY <1>28 DEF StepFails
    <3>2. WipedAtHead' <=> WipedAtHead
        BY <2>1, <3>1, EmitAtTheEnd DEF WipedAtHead
    <3>3. pc' = "off" => pipe' # <<>>
        BY <1>28, <2>1, <3>1, EmitAtTheEnd DEF StepFails
    <3>4. QED
        BY <3>2, <3>3 DEF WipedAtHead
  <2>4. ScreenInv' /\ WipedInv'
      BY <1>28, <2>3 DEF StepFails
  <2>5. MemoryInv' /\ DiskInv'
      BY <1>28, <2>3 DEF StepFails
  <2>6. QED
      BY <2>2, <2>4, <2>5
<1> QED
    BY <1>1, <1>2, <1>3, <1>4, <1>5, <1>6, <1>7, <1>8, <1>9, <1>10, <1>11, <1>12, <1>13, <1>14, <1>15, <1>16, <1>17, <1>18, <1>19, <1>20, <1>21, <1>22, <1>23, <1>24, <1>25, <1>26, <1>27, <1>28
    DEF HelperStep, InstallStep, RestoreStep

\* ... and by every step of the chooser, the pipe and the power.
LEMMA ScreenKeepsInvariant ==
    ASSUME IInv, CustomerStep \/ Deliver \/ PowerCycle
    PROVE  PipeInv' /\ ScreenInv' /\ MemoryInv' /\ DiskInv' /\ WipedInv'
<1> USE DEF IInv, TypeOK, HelperTypeOK, RunTypeOK, MachineTypeOK, FlagTypeOK,
        DiskStates, FileStates, InstallSteps, RestoreSteps,
        PipeInv, ScreenInv, MemoryInv, DiskInv, WipedInv, WipeReported,
        OneHelper, FailureOffersRestore,
        BeforeCopy, CopySteps, AfterCopy, AfterWipe, Final
<1>1. CASE \E e \in Editions : Choose(e)
    BY <1>1, PipeFacts DEF Choose
<1>2. CASE Cancel
    BY <1>2, PipeFacts DEF Cancel
<1>3. CASE Confirm
    BY <1>3, PipeFacts DEF Confirm, ForgetLastRun, PlanAvailable, ImageAt, LaunchInstall
<1>4. CASE PressRestore
    BY <1>4, PipeFacts DEF PressRestore, LaunchRestore
<1>5. CASE PressClose
    BY <1>5, PipeFacts DEF PressClose, ForgetLastRun
<1>6. CASE Deliver
  <2> USE PipeFacts, <1>6 DEF Deliver
  <2>1. CASE pipe = <<"wiped">>
      BY <2>1 DEF HearWiped, HearError, HearEnd
  <2>2. ASSUME NEW x \in Final, pipe = <<"wiped", x>>
        PROVE  PipeInv' /\ ScreenInv' /\ MemoryInv' /\ DiskInv' /\ WipedInv'
    <3>1. Head(pipe) = "wiped" /\ pipe' = <<x>>
        BY <2>2
    <3>2. HearWiped
        BY <3>1 DEF HearError, HearEnd
    <3>3. QED
        BY <2>2, <3>1, <3>2 DEF HearWiped
  <2>3. ASSUME NEW x \in Final, pipe = <<x>>
        PROVE  PipeInv' /\ ScreenInv' /\ MemoryInv' /\ DiskInv' /\ WipedInv'
    <3>1. Head(pipe) = x /\ pipe' = <<>>
        BY <2>3
    <3>2. HearError \/ HearEnd
        BY <3>1 DEF HearWiped
    <3>3. overlay = "progress" /\ pc \in {"idle", "off"}
        BY <2>3
    <3>4. PipeInv'
        BY <2>3, <3>1, <3>3
    <3>5. ScreenInv'
        BY <2>3, <3>1, <3>2, <3>3 DEF HearError, HearEnd
    <3>6. MemoryInv'
        BY <3>2, <3>3 DEF HearError, HearEnd
    <3>7. wipedTarget' = wipedTarget /\ (WipeReported' <=> WipeReported)
        BY <2>3, <3>1, <3>2 DEF HearError, HearEnd
    <3>8. DiskInv'
        BY <3>3, <3>7
    <3>9. WipedInv'
      <4>1. erased => wipedTarget
          BY <2>3, <3>1, <3>3
      <4>2. QED
          BY <3>2, <4>1 DEF HearError, HearEnd
    <3>10. QED
        BY <3>4, <3>5, <3>6, <3>8, <3>9
  <2>4. QED
      BY <2>1, <2>2, <2>3
<1>7. CASE PowerCycle
    BY <1>7, PipeFacts DEF PowerCycle, ForgetLastRun, BootsFirstBoot
<1> QED
    BY <1>1, <1>2, <1>3, <1>4, <1>5, <1>6, <1>7 DEF CustomerStep

\* IInv holds of every reachable state.
LEMMA InvariantHolds == Spec => []IInv
<1>1. Init => IInv
  <2> SUFFICES ASSUME Init PROVE IInv
      OBVIOUS
  <2>1. TypeOK
      BY InitTypeOK
  <2>2. PipeInv /\ ScreenInv /\ MemoryInv /\ DiskInv /\ WipedInv
      BY DEF Init, HelperInit, BeforeCopy, CopySteps, AfterCopy, AfterWipe,
             RestoreSteps, PipeInv, ScreenInv, MemoryInv, DiskInv, WipedInv,
             WipeReported, OneHelper, FailureOffersRestore
  <2>3. QED
      BY <2>1, <2>2 DEF IInv
<1>2. IInv /\ [Next]_vars => IInv'
  <2> SUFFICES ASSUME IInv, [Next]_vars PROVE IInv'
      OBVIOUS
  <2>1. TypeOK'
      BY NextKeepsTypes DEF IInv
  <2>2. CASE HelperRuns
      BY <2>1, <2>2, HelperKeepsInvariant DEF IInv
  <2>3. CASE CustomerStep \/ Deliver \/ PowerCycle
      BY <2>1, <2>3, ScreenKeepsInvariant DEF IInv
  <2>4. CASE UNCHANGED vars
      BY <2>1, <2>4 DEF IInv, PipeInv, ScreenInv, MemoryInv, DiskInv, WipedInv,
         WipeReported, OneHelper, FailureOffersRestore, vars, helperVars,
         machineVars, targetVars, mountVars, ramVars, planVars, screenVars
  <2>5. QED
      BY <2>2, <2>3, <2>4 DEF Next
<1>3. QED
    BY <1>1, <1>2, PTL DEF Spec

-----------------------------------------------------------------------------

\* First Boot runs from memory before the disk it was booted from is erased,
\* whatever failed before.
THEOREM RunsFromMemoryHolds == Spec => []RunsFromMemory
<1>1. IInv => RunsFromMemory
    BY DEF IInv, MemoryInv, DiskInv, ScreenInv, RunsFromMemory
<1>2. QED
    BY <1>1, InvariantHolds, PTL

\* A disk that boots nothing can always be given First Boot back.
THEOREM AlwaysAWayBackHolds == Spec => []AlwaysAWayBack
<1>1. IInv => AlwaysAWayBack
    BY DEF IInv, TypeOK, HelperTypeOK, MachineTypeOK, MemoryInv, DiskInv,
           ScreenInv, AlwaysAWayBack, NothingBoots
<1>2. QED
    BY <1>1, InvariantHolds, PTL

\* The failure screen of an install that reported its wipe offers the restore.
THEOREM FailureOffersRestoreHolds == Spec => []FailureOffersRestore
<1>1. IInv => FailureOffersRestore
    BY DEF IInv, WipedInv
<1>2. QED
    BY <1>1, InvariantHolds, PTL

\* No second helper is started while one runs or was not heard out.
THEOREM OneHelperHolds == Spec => []OneHelper
<1>1. IInv => OneHelper
    BY DEF IInv, ScreenInv
<1>2. QED
    BY <1>1, InvariantHolds, PTL
-----------------------------------------------------------------------------
(***************************************************************************)
(* What the customer is promised: First Boot comes back whole, the image   *)
(* that is unpacked after the wipe is the one that was checked, and        *)
(* CustomerInstall implements InstallPromise.  Each theorem adds one       *)
(* invariant to IInv, in a lemma per actor.                                *)
(***************************************************************************)

(* How far the disk is.                                                    *)

\* The helper's steps keep PlaceInv.
LEMMA HelperKeepsPlace ==
    ASSUME IInv, PlaceInv, HelperRuns
    PROVE  PlaceInv'
<1> USE PipeFacts, HelperRuns
    DEF HelperRuns, IInv, PipeInv, ScreenInv, OneHelper, PlaceInv,
        WipeReported, BeforeCopy, CopySteps, AfterCopy, AfterWipe,
        InstallSteps, RestoreSteps, Final
<1>1. CASE CheckImage
    BY <1>1 DEF CheckImage
<1>2. CASE OpenImageUsb
    BY <1>2 DEF OpenImageUsb
<1>3. CASE ReuseListedLayers
    BY <1>3 DEF ReuseListedLayers
<1>4. CASE ReuseCopiedLayers
    BY <1>4 DEF ReuseCopiedLayers
<1>5. CASE OpenImage
    BY <1>5 DEF OpenImage, Emit
<1>6. CASE StageRam
    BY <1>6 DEF StageRam, Emit
<1>7. CASE CopyLayers
    BY <1>7 DEF CopyLayers, Emit
<1>8. CASE CopyLive
    BY <1>8 DEF CopyLive, Emit
<1>9. CASE ShadowRescue
    BY <1>9 DEF ShadowRescue, Emit
<1>10. CASE PivotToRam
    BY <1>10 DEF PivotToRam
<1>11. CASE KeepRescue
    BY <1>11 DEF KeepRescue, Emit
<1>12. CASE ReleaseTarget
    BY <1>12 DEF ReleaseTarget
<1>13. CASE WipeTarget
    BY <1>13 DEF WipeTarget
<1>14. CASE FormatTarget
    BY <1>14 DEF FormatTarget, Emit
<1>15. CASE UnpackTree
    BY <1>15 DEF UnpackTree
<1>16. CASE ConfigureTree
    BY <1>16 DEF ConfigureTree
<1>17. CASE InstallBootloader
    BY <1>17 DEF InstallBootloader
<1>18. CASE HealthCheck
    BY <1>18 DEF HealthCheck
<1>19. CASE RegisterOsEfi
    BY <1>19, EmitAtTheEnd DEF RegisterOsEfi, WipedAtHead
<1>20. CASE FinishInstall
    BY <1>20, EmitAtTheEnd DEF FinishInstall, WipedAtHead
<1>21. CASE RestoreGuard
    BY <1>21 DEF RestoreGuard
<1>22. CASE RestoreWipe
    BY <1>22 DEF RestoreWipe
<1>23. CASE RestoreFormat
    BY <1>23 DEF RestoreFormat
<1>24. CASE RestoreSys
    BY <1>24 DEF RestoreSys
<1>25. CASE RestoreData
    BY <1>25 DEF RestoreData
<1>26. CASE RestoreEsp
    BY <1>26 DEF RestoreEsp
<1>27. CASE RestoreEfi
    BY <1>27 DEF RestoreEfi, Emit
<1>28. CASE StepFails
  <2>1. pipe \in {<<>>, <<"wiped">>}
      BY <1>28 DEF StepFails, TypeOK, HelperTypeOK, RunTypeOK
  <2>2. pipe' \in {<<"error">>, <<"wiped", "error">>}
        /\ (WipedAtHead' <=> WipedAtHead)
      BY <1>28, <2>1, EmitAtTheEnd DEF StepFails
  <2>3. \A x \in {"reboot", "done"} : pipe' \notin {<<x>>, <<"wiped", x>>}
      BY <2>2
  <2>4. pc' = "idle" /\ UNCHANGED <<disk, wipedTarget>>
      BY <1>28 DEF StepFails
  <2>5. QED
      BY <2>2, <2>3, <2>4 DEF WipedAtHead
<1> QED
    BY <1>1, <1>2, <1>3, <1>4, <1>5, <1>6, <1>7, <1>8, <1>9, <1>10, <1>11,
       <1>12, <1>13, <1>14, <1>15, <1>16, <1>17, <1>18, <1>19, <1>20, <1>21,
       <1>22, <1>23, <1>24, <1>25, <1>26, <1>27, <1>28
    DEF HelperStep, InstallStep, RestoreStep

\* ... and so do the chooser, the pipe and the power.
LEMMA ScreenKeepsPlace ==
    ASSUME IInv, PlaceInv, CustomerStep \/ Deliver \/ PowerCycle
    PROVE  PlaceInv'
<1> USE PipeFacts
    DEF IInv, PipeInv, ScreenInv, OneHelper, PlaceInv,
        WipeReported, BeforeCopy, CopySteps, AfterCopy, AfterWipe,
        InstallSteps, RestoreSteps, Final
<1>1. CASE \E e \in Editions : Choose(e)
    BY <1>1 DEF Choose
<1>2. CASE Cancel
    BY <1>2 DEF Cancel
<1>3. CASE Confirm
    BY <1>3 DEF Confirm, ForgetLastRun, LaunchInstall
<1>4. CASE PressRestore
    BY <1>4 DEF PressRestore, LaunchRestore
<1>5. CASE PressClose
    BY <1>5 DEF PressClose, ForgetLastRun
<1>6. CASE Deliver
  <2> USE <1>6 DEF Deliver
  <2>1. CASE pipe = <<"wiped">>
    <3>1. pipe' = <<>> /\ HearWiped
        BY <2>1 DEF HearError, HearEnd
    <3>2. QED
        BY <2>1, <3>1 DEF HearWiped
  <2>2. ASSUME NEW x \in Final, pipe = <<"wiped", x>>
        PROVE  PlaceInv'
    <3>1. Head(pipe) = "wiped" /\ pipe' = <<x>> /\ HearWiped
        BY <2>2 DEF HearError, HearEnd
    <3>2. WipeReported /\ UNCHANGED <<disk, pc>>
        BY <2>2, <3>1
    <3>3. \A y \in {"reboot", "done"} :
            pipe' \in {<<y>>, <<"wiped", y>>} => disk \in {"os", "fbl"}
        BY <2>2, <3>1
    <3>4. QED
        BY <3>1, <3>2, <3>3 DEF HearWiped
  <2>3. ASSUME NEW x \in Final, pipe = <<x>>
        PROVE  PlaceInv'
    <3>1. pipe' = <<>> /\ (HearError \/ HearEnd)
        BY <2>3 DEF HearWiped
    <3>2. UNCHANGED <<disk, pc, wipedTarget>>
        BY <3>1 DEF HearError, HearEnd
    <3>3. QED
        BY <3>1, <3>2
  <2>4. QED
      BY <2>1, <2>2, <2>3
<1>7. CASE PowerCycle
    BY <1>7 DEF PowerCycle, ForgetLastRun
<1> QED
    BY <1>1, <1>2, <1>3, <1>4, <1>5, <1>6, <1>7 DEF CustomerStep

\* The disk is where the helper takes it to be, and a run that reported its
\* end left a disk that boots.
LEMMA PlaceHolds == Spec => [](IInv /\ PlaceInv)
<1>1. Init => PlaceInv
    BY DEF Init, HelperInit, PlaceInv, WipeReported, AfterWipe
<1>2. IInv /\ PlaceInv /\ [Next]_vars => PlaceInv'
  <2> SUFFICES ASSUME IInv, PlaceInv, [Next]_vars PROVE PlaceInv'
      OBVIOUS
  <2>1. CASE HelperRuns
      BY <2>1, HelperKeepsPlace
  <2>2. CASE CustomerStep \/ Deliver \/ PowerCycle
      BY <2>2, ScreenKeepsPlace
  <2>3. CASE UNCHANGED vars
      BY <2>3 DEF PlaceInv, WipeReported
  <2>4. QED
      BY <2>1, <2>2, <2>3 DEF Next
<1>3. QED
    BY <1>1, <1>2, InvariantHolds, PTL DEF Spec

-----------------------------------------------------------------------------
(* The rescue files.                                                       *)

\* The helper's steps keep RescueInv.
LEMMA HelperKeepsRescue ==
    ASSUME IInv, RescueInv, ~RescueCopyFaults, HelperRuns
    PROVE  RescueInv'
<1> USE PipeFacts, HelperRuns
    DEF HelperRuns, IInv, TypeOK, HelperTypeOK, RunTypeOK, MachineTypeOK,
        FlagTypeOK, DiskStates, FileStates, PipeInv, ScreenInv, OneHelper,
        MemoryInv, DiskInv, RescueInv, OnRam, WipeReported, BeforeCopy,
        CopySteps, AfterCopy, AfterWipe, InstallSteps, RestoreSteps, Final
<1>1. CASE CheckImage
    BY <1>1 DEF CheckImage, ImageAt, OnRam
<1>2. CASE OpenImageUsb
    BY <1>2 DEF OpenImageUsb, ImageAt
<1>3. CASE ReuseListedLayers
    BY <1>3 DEF ReuseListedLayers
<1>4. CASE ReuseCopiedLayers
    BY <1>4 DEF ReuseCopiedLayers, ImageAt
<1>5. CASE OpenImage
    BY <1>5 DEF OpenImage, Emit, ImageAt
<1>6. CASE StageRam
    BY <1>6 DEF StageRam, Emit
<1>7. CASE CopyLayers
    BY <1>7 DEF CopyLayers, Emit
<1>8. CASE CopyLive
    BY <1>8 DEF CopyLive, Emit
<1>9. CASE ShadowRescue
    BY <1>9 DEF ShadowRescue, Emit, SnapshotRescue, SnapshotBreaks
<1>10. CASE PivotToRam
    BY <1>10 DEF PivotToRam
<1>11. CASE KeepRescue
    BY <1>11 DEF KeepRescue, Emit, SnapshotRescue, SnapshotBreaks
<1>12. CASE ReleaseTarget
    BY <1>12 DEF ReleaseTarget
<1>13. CASE WipeTarget
    BY <1>13 DEF WipeTarget
<1>14. CASE FormatTarget
    BY <1>14 DEF FormatTarget, Emit
<1>15. CASE UnpackTree
    BY <1>15 DEF UnpackTree
<1>16. CASE ConfigureTree
    BY <1>16 DEF ConfigureTree
<1>17. CASE InstallBootloader
    BY <1>17 DEF InstallBootloader
<1>18. CASE HealthCheck
    BY <1>18 DEF HealthCheck
<1>19. CASE RegisterOsEfi
    BY <1>19, EmitAtTheEnd DEF RegisterOsEfi, WipedAtHead
<1>20. CASE FinishInstall
    BY <1>20, EmitAtTheEnd DEF FinishInstall, WipedAtHead
<1>21. CASE RestoreGuard
    BY <1>21 DEF RestoreGuard
<1>22. CASE RestoreWipe
    BY <1>22 DEF RestoreWipe
<1>23. CASE RestoreFormat
    BY <1>23 DEF RestoreFormat
<1>24. CASE RestoreSys
    BY <1>24 DEF RestoreSys
<1>25. CASE RestoreData
    BY <1>25 DEF RestoreData
<1>26. CASE RestoreEsp
    BY <1>26 DEF RestoreEsp
<1>27. CASE RestoreEfi
    BY <1>27 DEF RestoreEfi, Emit
<1>28. CASE StepFails
    BY <1>28, EmitAtTheEnd DEF StepFails, WipedAtHead
<1> QED
    BY <1>1, <1>2, <1>3, <1>4, <1>5, <1>6, <1>7, <1>8, <1>9, <1>10, <1>11,
       <1>12, <1>13, <1>14, <1>15, <1>16, <1>17, <1>18, <1>19, <1>20, <1>21,
       <1>22, <1>23, <1>24, <1>25, <1>26, <1>27, <1>28
    DEF HelperStep, InstallStep, RestoreStep

\* ... and so do the chooser, the pipe and the power.
LEMMA ScreenKeepsRescue ==
    ASSUME IInv, RescueInv, CustomerStep \/ Deliver \/ PowerCycle
    PROVE  RescueInv'
<1> USE PipeFacts
    DEF IInv, TypeOK, HelperTypeOK, RunTypeOK, MachineTypeOK, FlagTypeOK,
        FileStates, PipeInv, ScreenInv, OneHelper, MemoryInv, DiskInv,
        RescueInv, OnRam, WipeReported, BeforeCopy, CopySteps, AfterCopy,
        AfterWipe, InstallSteps, RestoreSteps, Final
<1>1. CASE \E e \in Editions : Choose(e)
    BY <1>1 DEF Choose
<1>2. CASE Cancel
    BY <1>2 DEF Cancel
<1>3. CASE Confirm
    BY <1>3 DEF Confirm, ForgetLastRun, LaunchInstall
<1>4. CASE PressRestore
    BY <1>4 DEF PressRestore, LaunchRestore
<1>5. CASE PressClose
    BY <1>5 DEF PressClose, ForgetLastRun
<1>6. CASE Deliver
  <2>1. /\ wipedTarget' => WipeReported
        /\ WipeReported' => WipeReported
        /\ wipedTarget => wipedTarget'
      BY <1>6 DEF Deliver, HearWiped, HearError, HearEnd
  <2>2. overlay = "progress" /\ overlay' # "dark"
      BY <1>6 DEF Deliver, HearWiped, HearError, HearEnd
  <2>3. UNCHANGED <<machineVars, pc>>
      BY <1>6 DEF Deliver
  <2>4. QED
      BY <2>1, <2>2, <2>3
<1>7. CASE PowerCycle
    BY <1>7 DEF PowerCycle, ForgetLastRun, BootsFirstBoot
<1> QED
    BY <1>1, <1>2, <1>3, <1>4, <1>5, <1>6, <1>7 DEF CustomerStep

\* Rescue files that were copied without an error stay complete.
LEMMA RescueHolds == Spec => [](~RescueCopyFaults => RescueInv)
<1> DEFINE Kept == ~RescueCopyFaults => RescueInv
<1>1. Init => Kept
    BY DEF Init, HelperInit, RescueInv, OnRam, WipeReported, CopySteps,
           AfterWipe, RestoreSteps
<1>2. IInv /\ Kept /\ [Next]_vars => Kept'
  <2> SUFFICES ASSUME ~RescueCopyFaults, IInv, RescueInv, [Next]_vars
               PROVE  RescueInv'
      OBVIOUS
  <2>1. CASE HelperRuns
      BY <2>1, HelperKeepsRescue
  <2>2. CASE CustomerStep \/ Deliver \/ PowerCycle
      BY <2>2, ScreenKeepsRescue
  <2>3. CASE UNCHANGED vars
      BY <2>3 DEF RescueInv, OnRam, WipeReported
  <2>4. QED
      BY <2>1, <2>2, <2>3 DEF Next
<1>3. QED
    BY <1>1, <1>2, InvariantHolds, PTL DEF Spec

\* Unless copying the rescue files met an error, the First Boot that
\* restore_fbl wrote back is the whole one, however many attempts it took.
THEOREM RestoredWholeHolds == Spec => []RestoredWhole
<1>1. (~RescueCopyFaults => RescueInv) => RestoredWhole
    BY DEF RescueInv, RestoredWhole
<1>2. QED
    BY <1>1, RescueHolds, PTL

-----------------------------------------------------------------------------
(* The image.                                                              *)

\* The helper's steps keep ImageInv.
LEMMA HelperKeepsImage ==
    ASSUME IInv, ImageInv, OneImage, HelperRuns
    PROVE  ImageInv'
<1> USE HelperRuns, HelperConstants
    DEF HelperRuns, HelperConstants, IInv, TypeOK, HelperTypeOK, RunTypeOK,
        MachineTypeOK, LayerSlots, ScreenInv, OneHelper, MemoryInv, ImageInv,
        OneImage, OnRam, LayersOf, SourceGood, BeforeCopy, CopySteps,
        AfterCopy, AfterWipe, InstallSteps, RestoreSteps
<1>1. CASE CheckImage
    BY <1>1 DEF CheckImage, ImageAt, OnRam
<1>2. CASE OpenImageUsb
    BY <1>2 DEF OpenImageUsb, ImageAt
<1>3. CASE ReuseListedLayers
    BY <1>3 DEF ReuseListedLayers
<1>4. CASE ReuseCopiedLayers
    BY <1>4 DEF ReuseCopiedLayers, ImageAt
<1>5. CASE OpenImage
    BY <1>5 DEF OpenImage, ImageAt
<1>6. CASE StageRam
    BY <1>6 DEF StageRam
<1>7. CASE CopyLayers
    BY <1>7 DEF CopyLayers
<1>8. CASE CopyLive
    BY <1>8 DEF CopyLive
<1>9. CASE ShadowRescue
    BY <1>9 DEF ShadowRescue, SnapshotRescue, SnapshotBreaks
<1>10. CASE PivotToRam
    BY <1>10 DEF PivotToRam
<1>11. CASE KeepRescue
    BY <1>11 DEF KeepRescue, SnapshotRescue, SnapshotBreaks
<1>12. CASE ReleaseTarget
    BY <1>12 DEF ReleaseTarget
<1>13. CASE WipeTarget
    BY <1>13 DEF WipeTarget
<1>14. CASE FormatTarget
    BY <1>14 DEF FormatTarget
<1>15. CASE UnpackTree
    BY <1>15 DEF UnpackTree
<1>16. CASE ConfigureTree
    BY <1>16 DEF ConfigureTree
<1>17. CASE InstallBootloader
    BY <1>17 DEF InstallBootloader
<1>18. CASE HealthCheck
    BY <1>18 DEF HealthCheck
<1>19. CASE RegisterOsEfi
    BY <1>19 DEF RegisterOsEfi
<1>20. CASE FinishInstall
    BY <1>20 DEF FinishInstall
<1>21. CASE RestoreGuard
    BY <1>21 DEF RestoreGuard
<1>22. CASE RestoreWipe
    BY <1>22 DEF RestoreWipe
<1>23. CASE RestoreFormat
    BY <1>23 DEF RestoreFormat
<1>24. CASE RestoreSys
    BY <1>24 DEF RestoreSys
<1>25. CASE RestoreData
    BY <1>25 DEF RestoreData
<1>26. CASE RestoreEsp
    BY <1>26 DEF RestoreEsp
<1>27. CASE RestoreEfi
    BY <1>27 DEF RestoreEfi
<1>28. CASE StepFails
    BY <1>28 DEF StepFails
<1> QED
    BY <1>1, <1>2, <1>3, <1>4, <1>5, <1>6, <1>7, <1>8, <1>9, <1>10, <1>11,
       <1>12, <1>13, <1>14, <1>15, <1>16, <1>17, <1>18, <1>19, <1>20, <1>21,
       <1>22, <1>23, <1>24, <1>25, <1>26, <1>27, <1>28
    DEF HelperStep, InstallStep, RestoreStep

\* ... and so do the chooser, the pipe and the power.
LEMMA ScreenKeepsImage ==
    ASSUME IInv, ImageInv, CustomerStep \/ Deliver \/ PowerCycle
    PROVE  ImageInv'
<1> USE DEF IInv, TypeOK, HelperTypeOK, RunTypeOK, MachineTypeOK, ScreenInv,
        OneHelper, MemoryInv, ImageInv, OnRam, LayersOf, SourceGood,
        BeforeCopy, CopySteps, AfterCopy, AfterWipe, InstallSteps,
        RestoreSteps
<1>1. CASE \E e \in Editions : Choose(e)
    BY <1>1 DEF Choose
<1>2. CASE Cancel
    BY <1>2 DEF Cancel
<1>3. CASE Confirm
    BY <1>3 DEF Confirm, LaunchInstall
<1>4. CASE PressRestore
    BY <1>4 DEF PressRestore, LaunchRestore
<1>5. CASE PressClose
    BY <1>5 DEF PressClose
<1>6. CASE Deliver
    BY <1>6 DEF Deliver, HearWiped, HearError, HearEnd
<1>7. CASE PowerCycle
    BY <1>7 DEF PowerCycle, BootsFirstBoot
<1> QED
    BY <1>1, <1>2, <1>3, <1>4, <1>5, <1>6, <1>7 DEF CustomerStep

\* Where the customer has one image to choose and First Boot is on one of the
\* disks only, a disk is wiped for an image that matched its checksum and of
\* which every layer is in memory, or on the stick, also on a retry.
THEOREM WipesWithGoodImageHolds ==
    ASSUME OneImage PROVE Spec => []WipesWithGoodImage
<1>1. Init => ImageInv
    BY DEF Init, HelperInit, ImageInv, OnRam, CopySteps, AfterCopy
<1>2. IInv /\ ImageInv /\ [Next]_vars => ImageInv'
  <2> SUFFICES ASSUME IInv, ImageInv, [Next]_vars PROVE ImageInv'
      OBVIOUS
  <2>1. CASE HelperRuns
      BY <2>1, HelperKeepsImage
  <2>2. CASE CustomerStep \/ Deliver \/ PowerCycle
      BY <2>2, ScreenKeepsImage
  <2>3. CASE UNCHANGED vars
      BY <2>3 DEF ImageInv, OnRam, LayersOf, SourceGood
  <2>4. QED
      BY <2>1, <2>2, <2>3 DEF Next
<1>3. ImageInv => WipesWithGoodImage
  <2> SUFFICES ASSUME ImageInv, pc \in {"wipe", "format", "unpack"}
               PROVE  /\ ed \in verified
                      /\ SourceGood
      BY DEF WipesWithGoodImage, SourceGood, LayersOf
  <2>1. QED
      BY DEF ImageInv, AfterCopy
<1>4. QED
    BY <1>1, <1>2, <1>3, InvariantHolds, PTL DEF Spec

-----------------------------------------------------------------------------
(* The promise.                                                            *)

\* First Boot that a power failure leaves on the disk it ran from boots.
BootsWhatWasRestored == SameDisk => ~RescueCopyFaults

\* Every step of the helper is a step the customer was told of, or none.
LEMMA HelperKeepsPromise ==
    ASSUME IInv, PlaceInv, HelperRuns
    PROVE  [Promise!Next]_(Promise!promiseVars)
<1>1. overlay = "progress" /\ overlay' = "progress"
    BY DEF HelperRuns, IInv, TypeOK, HelperTypeOK, RunTypeOK, ScreenInv,
           OneHelper, HelperStep, InstallStep, RestoreStep, CheckImage,
           OpenImageUsb, ReuseListedLayers, ReuseCopiedLayers, OpenImage,
           StageRam, CopyLayers, CopyLive, ShadowRescue, PivotToRam,
           KeepRescue, ReleaseTarget, WipeTarget, FormatTarget, UnpackTree,
           ConfigureTree, InstallBootloader, HealthCheck, RegisterOsEfi,
           FinishInstall, RestoreGuard, RestoreWipe, RestoreFormat,
           RestoreSys, RestoreData, RestoreEsp, RestoreEfi, StepFails
<1>2. Screen = "working" /\ Screen' = "working"
    BY <1>1 DEF Screen
<1>3. CASE UNCHANGED disk
  <2>1. UNCHANGED <<Computer, Screen>>
      BY <1>2, <1>3 DEF Computer
  <2>2. QED
      BY <2>1 DEF Promise!promiseVars
<1>4. CASE disk' \in {"blank", "empty", "rootfs", "configured", "fblparts"}
  <2>1. Computer' = "erased"
      BY <1>4 DEF Computer
  <2>2. QED
      BY <1>2, <2>1 DEF Promise!Next, Promise!Erase
<1>5. CASE (disk = "configured" /\ disk' = "os")
            \/ (disk = "fblparts" /\ disk' = "fbl")
  <2>1. Computer = "erased" /\ Computer' \in {"os", "firstboot"}
      BY <1>5 DEF Computer
  <2>2. QED
      BY <1>2, <2>1 DEF Promise!Next, Promise!Settle
<1>6. CASE InstallStep
  <2>1. CASE InstallBootloader
      BY <1>5, <2>1 DEF InstallBootloader, PlaceInv
  <2>2. CASE WipeTarget \/ FormatTarget \/ UnpackTree \/ ConfigureTree
      BY <1>4, <2>2 DEF WipeTarget, FormatTarget, UnpackTree, ConfigureTree
  <2>3. CASE UNCHANGED targetVars \/ RegisterOsEfi
      BY <1>3, <2>3 DEF RegisterOsEfi
  <2>4. QED
      BY <1>6, <2>1, <2>2, <2>3 DEF InstallStep, CheckImage,
         OpenImageUsb, ReuseListedLayers, ReuseCopiedLayers, OpenImage,
         StageRam, CopyLayers, CopyLive, ShadowRescue, PivotToRam,
         KeepRescue, ReleaseTarget, HealthCheck, FinishInstall
<1>7. CASE RestoreStep
  <2>1. CASE RestoreEsp
      BY <1>5, <2>1 DEF RestoreEsp, PlaceInv
  <2>2. CASE RestoreWipe \/ RestoreFormat
      BY <1>4, <2>2 DEF RestoreWipe, RestoreFormat
  <2>3. CASE RestoreGuard \/ RestoreSys \/ RestoreData \/ RestoreEfi
      BY <1>3, <2>3 DEF RestoreGuard, RestoreSys, RestoreData, RestoreEfi
  <2>4. QED
      BY <1>7, <2>1, <2>2, <2>3 DEF RestoreStep
<1>8. CASE StepFails
    BY <1>3, <1>8 DEF StepFails
<1>9. QED
    BY <1>6, <1>7, <1>8 DEF HelperRuns, HelperStep

\* So is every step of the chooser and what the power does.
LEMMA ScreenKeepsPromise ==
    ASSUME IInv, PlaceInv, ~RescueCopyFaults => RescueInv,
           BootsWhatWasRestored, CustomerStep \/ Deliver \/ PowerCycle
    PROVE  [Promise!Next]_(Promise!promiseVars)
<1> USE DEF Screen
<1>1. CASE CustomerStep
  <2>1. UNCHANGED disk
      BY <1>1 DEF CustomerStep, Choose, Cancel, Confirm, PressRestore,
                  LaunchRestore, PressClose
  <2>2. UNCHANGED Computer
      BY <2>1 DEF Computer
  <2>3. CASE (\E e \in Editions : Choose(e)) \/ Cancel
    <3>1. UNCHANGED Screen
        BY <2>3 DEF Choose, Cancel
    <3>2. QED
        BY <2>2, <3>1 DEF Promise!promiseVars
  <2>4. CASE Confirm
    <3>1. Screen = "shop" /\ Screen' \in {"shop", "working"}
        BY <2>4 DEF Confirm
    <3>2. QED
        BY <2>2, <3>1 DEF Promise!promiseVars, Promise!Next, Promise!Agree
  <2>5. CASE PressRestore
    <3>1. Screen = "failed" /\ Screen' = "working" /\ wipedTarget
        BY <2>5 DEF PressRestore
    <3>2. disk # "before" /\ disk \in DiskStates
        BY <3>1 DEF PlaceInv, WipeReported, IInv, TypeOK, HelperTypeOK,
                    MachineTypeOK
    <3>3. Computer # "untouched"
        BY <3>2 DEF Computer
    <3>4. QED
        BY <2>2, <3>1, <3>3 DEF Promise!Next, Promise!Restore
  <2>6. CASE PressClose
    <3>1. Screen = "failed" /\ Screen' = "shop"
        BY <2>6 DEF PressClose
    <3>2. QED
        BY <2>2, <3>1 DEF Promise!Next, Promise!Dismiss
  <2>7. QED
      BY <1>1, <2>3, <2>4, <2>5, <2>6 DEF CustomerStep
<1>2. CASE Deliver
  <2>1. overlay = "progress" /\ UNCHANGED Computer
      BY <1>2 DEF Deliver, Computer, IInv, ScreenInv, OneHelper
  <2>2. Screen = "working"
      BY <2>1
  <2>3. CASE HearWiped
    <3>1. UNCHANGED Screen
        BY <2>3 DEF HearWiped
    <3>2. QED
        BY <2>1, <3>1 DEF Promise!promiseVars
  <2>4. CASE HearError
    <3>1. Screen' = "failed"
        BY <2>4 DEF HearError
    <3>2. QED
        BY <2>1, <2>2, <3>1 DEF Promise!Next, Promise!Fail
  <2>5. CASE HearEnd
    <3>1. Screen' = "finished"
        BY <2>5 DEF HearEnd
    <3>2. \E x \in {"reboot", "done"} : pipe = <<x>>
      <4>1. pipe # <<>> /\ Head(pipe) \in {"reboot", "done"}
          BY <1>2, <2>5 DEF HearEnd, Deliver
      <4>2. pipe # <<"wiped">> /\ \A x \in Final : pipe # <<"wiped", x>>
          BY <4>1, PipeFacts
      <4>3. PICK x \in Final : pipe = <<x>>
          BY <4>1, <4>2 DEF IInv, PipeInv
      <4>4. Head(pipe) = x
          BY <4>3, PipeFacts
      <4>5. QED
          BY <4>1, <4>3, <4>4
    <3>3. Computer \in {"os", "firstboot"}
        BY <3>2 DEF PlaceInv, Computer
    <3>4. QED
        BY <2>1, <2>2, <3>1, <3>3 DEF Promise!Next, Promise!Succeed
  <2>6. QED
      BY <1>2, <2>3, <2>4, <2>5 DEF Deliver
<1>3. CASE PowerCycle
  <2>1. overlay # "dark" /\ UNCHANGED Computer
      BY <1>3 DEF PowerCycle, Computer
  <2>2. Screen # "dark"
      BY <2>1 DEF IInv, TypeOK
  <2>3. BootsFirstBoot <=> ~SameDisk \/ Computer \in {"untouched", "firstboot"}
      BY DEF BootsFirstBoot, BootsWhatWasRestored, RescueInv, Computer
  <2>4. Screen' = IF BootsFirstBoot THEN "shop" ELSE "dark"
      BY <1>3 DEF PowerCycle
  <2>5. QED
      BY <2>1, <2>2, <2>3, <2>4 DEF Promise!Next, Promise!PowerFails
<1>4. QED
    BY <1>1, <1>2, <1>3

\* The chooser and its helper keep the promise: the computer changes only
\* while an install or a restore is on the screen, a finished screen means a
\* system on it, and First Boot comes up again unless its disk was erased.
THEOREM KeepsPromiseHolds ==
    ASSUME BootsWhatWasRestored PROVE Spec => KeepsPromise
<1>1. Init => Promise!Init
    BY DEF Init, HelperInit, Computer, Screen, Promise!Init
<1>2. IInv /\ PlaceInv /\ (~RescueCopyFaults => RescueInv) /\ [Next]_vars
         => [Promise!Next]_(Promise!promiseVars)
  <2> SUFFICES ASSUME IInv, PlaceInv, ~RescueCopyFaults => RescueInv,
                      [Next]_vars
               PROVE  [Promise!Next]_(Promise!promiseVars)
      OBVIOUS
  <2>1. CASE HelperRuns
      BY <2>1, HelperKeepsPromise
  <2>2. CASE CustomerStep \/ Deliver \/ PowerCycle
      BY <2>2, ScreenKeepsPromise
  <2>3. CASE UNCHANGED vars
      BY <2>3 DEF Promise!promiseVars, Computer, Screen
  <2>4. QED
      BY <2>1, <2>2, <2>3 DEF Next
<1>3. QED
    BY <1>1, <1>2, PlaceHolds, RescueHolds, PTL
    DEF Spec, KeepsPromise, Promise!Spec
=============================================================================
